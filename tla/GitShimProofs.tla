---------------------------- MODULE GitShimProofs ----------------------------
(***************************************************************************)
(* Proofs about GitShim for any set of scripts, any number of commands and *)
(* any pushes.                                                             *)
(***************************************************************************)
EXTENDS GitShim, WellFoundedInduction, TLAPS

(***************************************************************************)
(* The two files.  A file that does not exist is NoFile and nothing else.  *)
(***************************************************************************)
FilesOK ==
  /\ hook \in FileStates /\ legacy \in FileStates
  /\ pc \in [Commands -> Places] /\ forced \in [Commands -> BOOLEAN]
  /\ fd \in [Commands -> Handles] /\ start \in [Commands -> Starts]

LEMMA FileFacts ==
  ASSUME NEW f \in FileStates
  PROVE  /\ ~Exists(f) <=> f = NoFile
         /\ Exists(f) => f.script \in Scripts
         /\ f.script \in Scripts \cup {"none"} /\ f.exec \in BOOLEAN
         /\ f = [script |-> f.script, exec |-> f.exec]
         /\ f.exec => f.script \in Scripts
<1>1. "none" \notin Scripts /\ NoFile.script = "none" /\ ~NoFile.exec
  BY ForeignAssumption DEF Scripts, NoFile
<1>2. CASE f = NoFile
  BY <1>1, <1>2 DEF Exists, NoFile
<1>3. CASE f \in [script : Scripts, exec : BOOLEAN]
  <2>1. f.script \in Scripts /\ f.exec \in BOOLEAN /\ f = [script |-> f.script, exec |-> f.exec]
    BY <1>3
  <2> QED
    BY <1>1, <2>1 DEF Exists
<1> QED
  BY <1>2, <1>3 DEF FileStates

LEMMA OriginalFacts ==
  ASSUME NEW s \in Foreign
  PROVE  Original(s) \in FileStates
<1>1. s \in Scripts /\ (s \notin Inert) \in BOOLEAN
  BY DEF Scripts
<1> QED
  BY <1>1 DEF Original, FileStates

LEMMA AppendFacts ==
  ASSUME NEW S, NEW s \in Seq(S), NEW e \in S
  PROVE  /\ Append(s, e) \in Seq(S) /\ Len(Append(s, e)) = Len(s) + 1
         /\ Append(s, e)[Len(s) + 1] = e
         /\ \A i \in 1..Len(s) : Append(s, e)[i] = s[i]
  OBVIOUS

(***************************************************************************)
(* What the hook and the legacy hook are while a command that nobody has   *)
(* interfered with is at work.                                             *)
(***************************************************************************)
Preserves(p) == ~forced[p] /\ Exists(start[p].hook) /\ ~Ours(start[p].hook)
Installing(p) ==
  IF forced[p] THEN NoFile ELSE IF Preserves(p) THEN start[p].hook ELSE start[p].legacy
Keeping(p) == IF Ours(start[p].legacy) THEN NoFile ELSE start[p].legacy
AsFound(p) == hook = start[p].hook /\ legacy = start[p].legacy

InstallPart(p) ==
  /\ pc[p] = "look" => AsFound(p)
  /\ pc[p] = "move" => AsFound(p) /\ Preserves(p)
  /\ pc[p] = "clear" => IF Preserves(p) THEN hook = NoFile /\ legacy = start[p].hook ELSE AsFound(p)
  /\ pc[p] \in {"open", "write", "chmod", "installed"} => legacy = Installing(p)
  /\ pc[p] = "open" => forced[p] \/ hook = NoFile \/ Ours(hook)
  /\ pc[p] = "write" => hook.script = "torn" /\ fd[p] = "hook"
  /\ pc[p] = "chmod" => hook.script = "shim"
  /\ pc[p] = "installed" => hook = Shim

UninstallPart(p) ==
  /\ pc[p] = "unlegacy" => AsFound(p)
  /\ pc[p] \in {"inspect", "remove", "skipped"} => hook = start[p].hook /\ legacy = Keeping(p)
  /\ pc[p] \in {"remove", "restore", "uninstalled"} => Ours(start[p].hook)
  /\ pc[p] = "restore" => hook = NoFile /\ legacy = Keeping(p)
  /\ pc[p] = "uninstalled" => hook = Keeping(p) /\ legacy = NoFile

WorkInv == \A p \in Commands : Alone(p) => InstallPart(p) /\ UninstallPart(p)

-----------------------------------------------------------------------------
(***************************************************************************)
(* The scripts that run.  A caller is a shim or another hook manager; the  *)
(* shim does not call when it was called by one, and marks whom it calls.  *)
(***************************************************************************)
Callers == Migrating \cup {"shim"}

StackInv ==
  /\ stack \in Seq(Frames)
  /\ \A i \in 1..Len(stack) :
       /\ stack[i].at # "start" => stack[i].script \in Callers
       /\ stack[i].at = "start" => stack[i].code = "zero"
       /\ i < Len(stack) => stack[i].script \in Callers
  /\ \A i, j \in 1..Len(stack) :
       i < j /\ stack[i].script = "shim" => "prek" \in stack[j].env /\ "prek" \notin stack[i].env

(***************************************************************************)
(* A failure stays with the caller until it has ended in turn.             *)
(***************************************************************************)
FailureInv ==
  /\ failed \in BOOLEAN
  /\ stack # <<>> => outcome = "none"
  /\ stack # <<>> /\ failed => stack[Len(stack)].code # "zero"
  /\ outcome = "accept" => ~failed

-----------------------------------------------------------------------------
LEMMA ReturnStep ==
  ASSUME FilesOK, StackInv, FailureInv, stack # <<>>, NEW end \in Ends,
         stack[Len(stack)].code # "zero" => end # "zero", Return(end)
  PROVE  StackInv' /\ FailureInv'
<1> DEFINE d == Len(stack)
<1>1. d \in Nat \ {0} /\ stack \in Seq(Frames) /\ failed \in BOOLEAN
  BY DEF StackInv, FailureInv
<1>2. failed' = (failed \/ end # "zero") /\ failed' \in BOOLEAN
  BY <1>1 DEF Return
<1>3. CASE d = 1
  <2>1. stack' = <<>> /\ outcome' = IF end = "zero" THEN "accept" ELSE "reject"
    BY <1>3 DEF Return, Depth
  <2>2. StackInv'
    BY <2>1 DEF StackInv
  <2>3. end = "zero" => ~failed'
    BY <1>2 DEF FailureInv
  <2> QED
    BY <1>2, <2>1, <2>2, <2>3 DEF FailureInv
<1>4. CASE d > 1
  <2> DEFINE code == IF end = "zero" THEN "zero" ELSE "nonzero"
             caller == stack[d - 1]
  <2>1. stack' = [Below EXCEPT ![d - 1].code = code, ![d - 1].at = "checks"]
        /\ outcome' = outcome
    BY <1>1, <1>4 DEF Return, Depth
  <2>2. Below \in Seq(Frames) /\ Len(Below) = d - 1 /\ \A i \in 1..(d - 1) : Below[i] = stack[i]
    BY <1>1, <1>4 DEF Below, Depth
  <2>3. caller \in Frames /\ d - 1 \in 1..(d - 1)
    BY <1>1, <1>4
  <2>4. stack' = [Below EXCEPT ![d - 1] = [caller EXCEPT !.code = code, !.at = "checks"]]
    BY <2>1, <2>2, <2>3
  <2>5. [caller EXCEPT !.code = code, !.at = "checks"] \in Frames
    BY <2>3 DEF Frames, Ends
  <2>6. stack' \in Seq(Frames) /\ Len(stack') = d - 1
    BY <2>2, <2>3, <2>4, <2>5
  <2>7. \A i \in 1..(d - 1) : /\ stack'[i].script = stack[i].script
                              /\ stack'[i].env = stack[i].env
                              /\ i # d - 1 => stack'[i] = stack[i]
    BY <2>2, <2>3, <2>4 DEF Frames
  <2>8. stack'[d - 1].code = code /\ stack'[d - 1].at = "checks"
    BY <2>2, <2>3, <2>4 DEF Frames
  <2>9. StackInv'
    BY <1>1, <1>4, <2>6, <2>7, <2>8 DEF StackInv
  <2>10. FailureInv'
    BY <1>1, <1>2, <1>4, <2>1, <2>6, <2>8 DEF FailureInv
  <2> QED
    BY <2>9, <2>10
<1>5. d = 1 \/ d > 1
  <2>1. \A n \in Nat \ {0} : n = 1 \/ n > 1
    OBVIOUS
  <2> QED
    BY <1>1, <2>1
<1> QED
  BY <1>3, <1>4, <1>5

LEMMA CallStep ==
  ASSUME FilesOK, StackInv, FailureInv, stack # <<>>, NEW who \in Migrating \cup {"prek"},
         stack[Len(stack)].at = "start", CallsLegacy(who),
         \/ stack[Len(stack)].script \in Migrating
         \/ stack[Len(stack)].script = "shim" /\ who = "prek" /\ ~InLegacyMode(stack[Len(stack)])
  PROVE  StackInv' /\ FailureInv'
<1> DEFINE d == Len(stack)
           top == [stack[d] EXCEPT !.at = "checks"]
           marked == [stack EXCEPT ![d] = top]
           frame == Frame(legacy.script, stack[d].env \cup {who})
<1>1. d \in Nat \ {0} /\ stack \in Seq(Frames) /\ stack[d] \in Frames /\ failed \in BOOLEAN
  BY DEF StackInv, FailureInv
<1>2. top \in Frames /\ top.script = stack[d].script /\ top.env = stack[d].env
      /\ top.at = "checks" /\ top.code = stack[d].code
  BY <1>1 DEF Frames
<1>3. marked \in Seq(Frames) /\ Len(marked) = d /\ marked[d] = top
      /\ \A i \in 1..d : i # d => marked[i] = stack[i]
  BY <1>1, <1>2
<1>4. stack[d].code = "zero" /\ stack[d].script \in Callers /\ ~failed
  BY <1>1 DEF StackInv, FailureInv, Callers
<1>5. failed' = failed /\ outcome' = outcome
  BY DEF CallsLegacy
<1>6. CASE legacy.exec
  <2>1. stack' = Append(marked, frame)
    BY <1>6 DEF CallsLegacy, Depth, Top
  <2>2. frame \in Frames /\ frame.code = "zero" /\ frame.at = "start"
        /\ frame.env = stack[d].env \cup {who}
    BY <1>1, <1>6, FileFacts DEF Frame, Frames, Ends, FilesOK
  <2>3. stack' \in Seq(Frames) /\ Len(stack') = d + 1 /\ stack'[d + 1] = frame
        /\ \A i \in 1..d : stack'[i] = marked[i]
    <3> HIDE DEF marked, frame
    <3> QED
      BY <1>1, <1>3, <2>1, <2>2, AppendFacts
  <2>4. StackInv'
    <3>1. \A i \in 1..(d + 1) :
            /\ stack'[i].at # "start" => stack'[i].script \in Callers
            /\ stack'[i].at = "start" => stack'[i].code = "zero"
            /\ i < d + 1 => stack'[i].script \in Callers
      <4> HIDE DEF frame, top, marked
      <4>1. \A i \in 1..d : i # d =>
              /\ stack'[i] = stack[i] /\ stack[i].script \in Callers
              /\ stack[i].at = "start" => stack[i].code = "zero"
        BY <1>1, <1>3, <2>3 DEF StackInv
      <4>2. stack'[d] = top
        BY <1>1, <1>3, <2>3
      <4> QED
        BY <1>1, <1>2, <1>4, <2>2, <2>3, <4>1, <4>2
    <3>2. \A i \in 1..d : stack'[i].script = stack[i].script /\ stack'[i].env = stack[i].env
      BY <1>2, <1>3, <2>3
    <3>3. stack[d].script = "shim" => who = "prek" /\ "prek" \notin stack[d].env
      BY ForeignAssumption DEF InLegacyMode
    <3>4. \A i \in 1..d : stack[i].script = "shim" =>
            "prek" \in stack'[d + 1].env /\ "prek" \notin stack[i].env
      <4>1. \A i \in 1..d : i # d /\ stack[i].script = "shim" =>
              "prek" \in stack[d].env /\ "prek" \notin stack[i].env
        BY <1>1 DEF StackInv
      <4>2. stack'[d + 1].env = stack[d].env \cup {who}
        BY <2>2, <2>3
      <4> QED
        BY <1>1, <3>3, <4>1, <4>2
    <3>5. \A i, j \in 1..(d + 1) :
            i < j /\ stack'[i].script = "shim" => "prek" \in stack'[j].env /\ "prek" \notin stack'[i].env
      BY <1>1, <3>2, <3>4 DEF StackInv
    <3> QED
      BY <2>3, <3>1, <3>5 DEF StackInv
  <2>5. FailureInv'
    BY <1>1, <1>4, <1>5 DEF FailureInv
  <2> QED
    BY <2>4, <2>5
<1>7. CASE ~legacy.exec
  <2>1. stack' = marked
    BY <1>7 DEF CallsLegacy, Depth, Top
  <2>2. StackInv'
    BY <1>1, <1>2, <1>3, <1>4, <2>1 DEF StackInv
  <2>3. FailureInv'
    BY <1>1, <1>4, <1>5 DEF FailureInv
  <2> QED
    BY <2>2, <2>3
<1> QED
  BY <1>6, <1>7

LEMMA CallInv ==
  FilesOK /\ StackInv /\ FailureInv /\ [Next]_vars => StackInv' /\ FailureInv'
<1> SUFFICES ASSUME FilesOK, StackInv, FailureInv, [Next]_vars PROVE StackInv' /\ FailureInv'
  OBVIOUS
<1> DEFINE d == Len(stack)
<1>1. ASSUME UNCHANGED call PROVE StackInv' /\ FailureInv'
  BY <1>1 DEF StackInv, FailureInv, call
<1>2. CASE Git
  <2>1. Frame(hook.script, {}) \in Frames
    BY <1>2, FileFacts DEF Git, FilesOK, Frame, Frames, Ends
  <2>2. stack' = <<Frame(hook.script, {})>> /\ outcome' = "none" /\ failed' = FALSE
    BY <1>2 DEF Git
  <2>3. Len(stack') = 1 /\ stack'[1] = Frame(hook.script, {}) /\ stack' \in Seq(Frames)
    BY <2>1, <2>2
  <2>4. stack'[1].at = "start" /\ stack'[1].code = "zero"
    BY <2>3 DEF Frame
  <2>5. StackInv'
    BY <2>3, <2>4 DEF StackInv
  <2> QED
    BY <2>2, <2>5 DEF FailureInv
<1>3. ASSUME stack # <<>>
      PROVE  /\ d \in Nat \ {0} /\ d \in 1..d /\ Top = stack[d] /\ Top \in Frames
             /\ Top.at = "start" => Top.code = "zero"
             /\ Top.at # "start" => Top.script \in Callers
             /\ Top.code \in Ends
  <2>1. d \in Nat \ {0} /\ d \in 1..d /\ stack[d] \in Frames
    BY <1>3 DEF StackInv
  <2> QED
    BY <2>1 DEF StackInv, Top, Depth, Frames
<1>4. ASSUME stack # <<>>, NEW end \in Ends, Return(end), Top.code # "zero" => end # "zero"
      PROVE  StackInv' /\ FailureInv'
  BY <1>3, <1>4, ReturnStep DEF Ends
<1>5. CASE RunsTorn
  <2>1. stack # <<>> /\ Top.script = "torn" /\ Top.script \notin Callers
    BY <1>5, ForeignAssumption DEF RunsTorn, Callers
  <2>2. Top.code = "zero"
    BY <1>3, <2>1
  <2> QED
    BY <1>4, <1>5, <2>1, <2>2 DEF RunsTorn, Ends
<1>6. CASE PlainRuns
  <2>1. stack # <<>> /\ Top.script \notin Callers
    BY <1>6, ForeignAssumption DEF PlainRuns, Callers
  <2>2. Top.code = "zero"
    BY <1>3, <2>1
  <2> QED
    BY <1>4, <1>6, <2>1, <2>2 DEF PlainRuns
<1>7. CASE MigratingStarts
  <2>1. stack # <<>> /\ Top.script \in Migrating /\ Top.at = "start"
    BY <1>7 DEF MigratingStarts
  <2>2. CASE Top.script \in Top.env
    BY <1>4, <1>7, <2>1, <2>2 DEF MigratingStarts, Ends
  <2>3. CASE Top.script \notin Top.env
    BY <1>3, <1>7, <2>1, <2>3, CallStep DEF MigratingStarts
  <2> QED
    BY <2>2, <2>3
<1>8. CASE MigratingChecks
  BY <1>4, <1>8 DEF MigratingChecks, Ends
<1>9. CASE ShimStarts
  <2>1. stack # <<>> /\ Top.script = "shim" /\ Top.at = "start"
    BY <1>9 DEF ShimStarts
  <2>2. CASE InLegacyMode(Top)
    BY <1>4, <1>9, <2>1, <2>2 DEF ShimStarts, Ends
  <2>3. CASE ~InLegacyMode(Top)
    BY <1>3, <1>9, <2>1, <2>3, CallStep DEF ShimStarts
  <2> QED
    BY <2>2, <2>3
<1>10. CASE ShimChecks
  <2>1. stack # <<>> /\ Top.script = "shim" /\ Top.at = "checks"
    BY <1>10 DEF ShimChecks
  <2>2. CASE \E allowed \in BOOLEAN : Return(IF allowed THEN Top.code ELSE "nonzero")
    BY <1>3, <1>4, <2>1, <2>2 DEF Ends
  <2>3. CASE stack' = [stack EXCEPT ![Depth].at = "run"] /\ UNCHANGED <<outcome, failed>>
    <3> DEFINE top == [stack[d] EXCEPT !.at = "run"]
    <3>1. stack' = [stack EXCEPT ![d] = top]
      BY <2>3 DEF Depth
    <3>2. top \in Frames /\ top.script = "shim" /\ top.env = stack[d].env
          /\ top.at = "run" /\ top.code = stack[d].code
      BY <1>3, <2>1 DEF Frames
    <3>3. stack \in Seq(Frames)
      BY DEF StackInv
    <3>4. stack' \in Seq(Frames) /\ Len(stack') = d /\ stack'[d] = top
          /\ \A i \in 1..d : i # d => stack'[i] = stack[i]
      BY <1>3, <2>1, <3>1, <3>2, <3>3
    <3>5. \A i \in 1..d : stack'[i].script = stack[i].script /\ stack'[i].env = stack[i].env
                          /\ stack'[i].code = stack[i].code
      BY <1>3, <2>1, <3>2, <3>4
    <3>6. StackInv'
      <4>1. \A i \in 1..d :
              /\ stack'[i].at # "start" => stack'[i].script \in Callers
              /\ stack'[i].at = "start" => stack'[i].code = "zero"
              /\ i < d => stack'[i].script \in Callers
        BY <1>3, <2>1, <3>2, <3>4 DEF StackInv, Callers
      <4>2. \A i, j \in 1..d : i < j /\ stack'[i].script = "shim" =>
              "prek" \in stack'[j].env /\ "prek" \notin stack'[i].env
        BY <3>5 DEF StackInv
      <4> QED
        BY <3>4, <4>1, <4>2 DEF StackInv
    <3>7. FailureInv'
      BY <1>3, <2>1, <2>3, <3>4, <3>5 DEF FailureInv
    <3> QED
      BY <3>6, <3>7
  <2> QED
    BY <1>10, <2>2, <2>3 DEF ShimChecks
<1>11. CASE ShimRuns
  <2>1. stack # <<>> /\ Top.script = "shim"
    BY <1>11 DEF ShimRuns
  <2>2. Return(Top.code) \/ \E status \in {"zero", "nonzero"} : Return(Combined(status, Top.code))
    BY <1>11 DEF ShimRuns
  <2> QED
    BY <1>3, <1>4, <2>1, <2>2 DEF Combined, Ends
<1>12. CASE \E p \in Commands : Prek(p)
  <2>1. UNCHANGED call
    BY <1>12 DEF Prek, Begin, Install, Uninstall, Kill, Look, Move, Clear, Open, Write, Chmod,
       Unlegacy, Inspect, Remove, Restore, NotCalled, FilesKept
  <2> QED
    BY <1>1, <2>1
<1>13. CASE Others
  <2>1. UNCHANGED call
    BY <1>13 DEF Others, ForeignWrites, ForeignMigrates, UserDeletes, UserSetsHooksPath, Outside
  <2> QED
    BY <1>1, <2>1
<1>14. CASE UNCHANGED vars
  BY <1>1, <1>14 DEF vars
<1> QED
  BY <1>2, <1>5, <1>6, <1>7, <1>8, <1>9, <1>10, <1>11, <1>12, <1>13, <1>14 DEF Next, Hook

-----------------------------------------------------------------------------
LEMMA FilesStep == FilesOK /\ [Next]_vars => FilesOK'
<1> SUFFICES ASSUME FilesOK, [Next]_vars PROVE FilesOK'
  OBVIOUS
<1>a. NoFile \in FileStates /\ NoStart \in Starts
      /\ \A s \in Scripts : \A e \in BOOLEAN : [script |-> s, exec |-> e] \in FileStates
  BY DEF FileStates, Starts, NoStart, NoFile
<1>b. hook.exec \in BOOLEAN /\ legacy.exec \in BOOLEAN
  BY FileFacts DEF FilesOK
<1>c. \A w : ChangedBy(w) => start' \in [Commands -> Starts]
  BY <1>a DEF ChangedBy, FilesOK
<1>d. \A move \in [Handles -> Handles] : HandlesFollow(move) => fd' \in [Commands -> Handles]
  BY DEF HandlesFollow, FilesOK
<1>e. \A x, y, z \in Handles : [hook |-> x, legacy |-> y, gone |-> z] \in [Handles -> Handles]
  BY DEF Handles
<1>f. RenameToLegacy \/ RenameToHook \/ RemoveLegacy \/ (\E f \in FileStates : ReplaceHook(f)) =>
        hook' \in FileStates /\ legacy' \in FileStates /\ fd' \in [Commands -> Handles]
  BY <1>a, <1>d, <1>e DEF RenameToLegacy, RenameToHook, RemoveLegacy, ReplaceHook, FilesOK, Handles
<1>g. FilesKept => hook' \in FileStates /\ legacy' \in FileStates
                   /\ fd' \in [Commands -> Handles] /\ start' \in [Commands -> Starts]
  BY DEF FilesKept, scripts, FilesOK
<1>h. \A p \in Commands : \A place \in Places : Go(p, place) => pc' \in [Commands -> Places]
  BY DEF Go, FilesOK
<1>i. {"look", "open", "write", "chmod", "installed", "error", "clear", "move", "inspect", "remove",
       "skipped", "restore", "uninstalled", "unlegacy"} \subseteq Places
  BY DEF Places, InstallPlaces, RemovePlaces
<1>j. UNCHANGED forced => forced' \in [Commands -> BOOLEAN]
  BY DEF FilesOK
<1>1. ASSUME NEW p \in Commands, Begin(p) PROVE FilesOK'
  <2>1. pc' \in [Commands -> Places] /\ forced' \in [Commands -> BOOLEAN]
    BY <1>1, <1>h, <1>i DEF Begin, FilesOK
  <2>2. start' \in [Commands -> Starts] /\ fd' \in [Commands -> Handles] /\ UNCHANGED scripts
    BY <1>1 DEF Begin, FilesOK, Starts, Handles
  <2> QED
    BY <2>1, <2>2 DEF FilesOK, scripts
<1>2. ASSUME NEW p \in Commands, Look(p) \/ Inspect(p) PROVE FilesOK'
  <2>1. pc' \in [Commands -> Places]
    BY <1>2, <1>h, <1>i DEF Look, Inspect
  <2>2. UNCHANGED forced /\ FilesKept
    BY <1>2 DEF Look, Inspect
  <2> QED
    BY <1>g, <1>j, <2>1, <2>2 DEF FilesOK
<1>3. ASSUME NEW p \in Commands, Move(p) \/ Clear(p) \/ Unlegacy(p) \/ Remove(p) \/ Restore(p)
      PROVE  FilesOK'
  <2>1. pc' \in [Commands -> Places] /\ UNCHANGED forced
    BY <1>3, <1>h, <1>i DEF Move, Clear, Unlegacy, Remove, Restore
  <2>2. FilesKept \/ (ChangedBy(p) /\ (RenameToLegacy \/ RenameToHook \/ RemoveLegacy \/ ReplaceHook(NoFile)))
    BY <1>3 DEF Move, Clear, Unlegacy, Remove, Restore
  <2> QED
    BY <1>a, <1>c, <1>f, <1>g, <1>j, <2>1, <2>2 DEF FilesOK
<1>4. ASSUME NEW p \in Commands, Open(p) \/ Write(p) \/ Chmod(p) PROVE FilesOK'
  <2>1. pc' \in [Commands -> Places] /\ UNCHANGED forced
    BY <1>4, <1>h, <1>i DEF Open, Write, Chmod
  <2>2. fd' \in [Commands -> Handles]
    BY <1>4, <1>g DEF Open, Write, Chmod, FilesOK, Handles
  <2>3. start' \in [Commands -> Starts]
    BY <1>4, <1>c, <1>g DEF Open, Write, Chmod
  <2>4. \A f \in FileStates : \A s \in Scripts : [f EXCEPT !.script = s] \in FileStates
    <3> SUFFICES ASSUME NEW f \in FileStates, NEW s \in Scripts
                 PROVE  [f EXCEPT !.script = s] \in FileStates
      OBVIOUS
    <3>1. [f EXCEPT !.script = s] = [script |-> s, exec |-> f.exec] /\ f.exec \in BOOLEAN
      BY FileFacts
    <3> QED
      BY <1>a, <3>1
  <2>5. Exists(hook) => [hook EXCEPT !.exec = TRUE] \in FileStates
    <3> HAVE Exists(hook)
    <3>1. hook \in [script : Scripts, exec : BOOLEAN]
      BY DEF FilesOK, FileStates, Exists, NoFile
    <3> QED
      BY <3>1 DEF FileStates
  <2>6. {"shim", "torn"} \subseteq Scripts
    BY DEF Scripts
  <2>7. hook' \in FileStates /\ legacy' \in FileStates
    <3>1. CASE Open(p)
      BY <1>a, <1>b, <2>6, <3>1 DEF Open, FilesOK
    <3>2. CASE Write(p)
      <4>1. fd[p] \in Handles
        BY DEF FilesOK
      <4>2. [hook EXCEPT !.script = "shim"] \in FileStates
            /\ [legacy EXCEPT !.script = "shim"] \in FileStates
        BY <2>4, <2>6 DEF FilesOK
      <4>3. fd[p] = "hook" \/ fd[p] = "legacy" \/ fd[p] = "gone"
        BY <4>1 DEF Handles
      <4>4. hook' \in {hook, [hook EXCEPT !.script = "shim"]}
            /\ legacy' \in {legacy, [legacy EXCEPT !.script = "shim"]}
        BY <3>2, <4>3 DEF Write, scripts
      <4> QED
        BY <4>2, <4>4 DEF FilesOK
    <3>3. CASE Chmod(p)
      BY <1>g, <2>5, <3>3 DEF Chmod, FilesOK
    <3> QED
      BY <1>4, <3>1, <3>2, <3>3
  <2> QED
    BY <1>j, <2>1, <2>2, <2>3, <2>7 DEF FilesOK
<1>5. ASSUME NEW p \in Commands, Kill(p) PROVE FilesOK'
  BY <1>5, <1>g, <1>h, <1>i, <1>j DEF Kill, FilesOK
<1>6. CASE Others
  <2>1. UNCHANGED <<pc, forced>>
    BY <1>6 DEF Others, ForeignWrites, ForeignMigrates, UserDeletes, UserSetsHooksPath, Outside
  <2>2. CASE ForeignWrites \/ UserDeletes
    <3>1. RemoveLegacy \/ (\E f \in FileStates : ReplaceHook(f))
      <4>1. CASE ForeignWrites
        <5>1. PICK s \in Foreign : ReplaceHook(Original(s))
          BY <4>1 DEF ForeignWrites
        <5>2. Original(s) \in FileStates
          BY <5>1, OriginalFacts
        <5> QED
          BY <5>1, <5>2
      <4>2. CASE UserDeletes
        BY <1>a, <4>2 DEF UserDeletes
      <4> QED
        BY <2>2, <4>1, <4>2
    <3>2. ChangedBy("other")
      BY <2>2 DEF ForeignWrites, UserDeletes
    <3> QED
      BY <1>c, <1>f, <2>1, <3>1, <3>2 DEF FilesOK
  <2>3. CASE ForeignMigrates
    <3>1. hook' \in FileStates /\ legacy' \in FileStates
      <4>1. PICK s \in Migrating : hook' = Original(s)
        BY <2>3 DEF ForeignMigrates
      <4>2. hook' \in FileStates
        <5>1. s \in Foreign
          BY ForeignAssumption
        <5>2. Original(s) \in FileStates
          BY <5>1, OriginalFacts
        <5> QED
          BY <4>1, <5>2
      <4>3. legacy' \in {hook, legacy}
        BY <2>3 DEF ForeignMigrates
      <4> QED
        BY <4>2, <4>3 DEF FilesOK
    <3>2. fd' \in [Commands -> Handles]
      BY <1>d, <1>e, <2>3 DEF ForeignMigrates, FilesOK, Handles
    <3> QED
      BY <1>c, <2>1, <2>3, <3>1, <3>2 DEF ForeignMigrates, FilesOK
  <2>4. CASE UserSetsHooksPath
    BY <2>1, <2>4 DEF UserSetsHooksPath, scripts, FilesOK
  <2> QED
    BY <1>6, <2>2, <2>3, <2>4 DEF Others
<1>7. CASE Hook \/ UNCHANGED vars
  <2>1. UNCHANGED <<scripts, command>>
    BY <1>7 DEF vars, Hook, Git, RunsTorn, PlainRuns, MigratingStarts, MigratingChecks,
       ShimStarts, ShimChecks, ShimRuns, CallOnly
  <2> QED
    BY <2>1 DEF scripts, command, FilesOK
<1> QED
  BY <1>1, <1>2, <1>3, <1>4, <1>5, <1>6, <1>7 DEF Next, Prek, Install, Uninstall

(***************************************************************************)
(* What another command knows survives a step that leaves the files alone; *)
(* a step that changes them takes that knowledge away.                     *)
(***************************************************************************)
LEMMA Bystander ==
  ASSUME WorkInv, NEW q \in Commands,
         pc'[q] = pc[q], forced'[q] = forced[q],
         \/ ~start'[q].known
         \/ UNCHANGED scripts /\ start'[q] = start[q] /\ fd'[q] = fd[q]
  PROVE  Alone(q)' => InstallPart(q)' /\ UninstallPart(q)'
<1> HAVE Alone(q)'
<1>1. UNCHANGED scripts /\ start'[q] = start[q] /\ fd'[q] = fd[q] /\ Alone(q)
  BY DEF Alone
<1>2. InstallPart(q) /\ UninstallPart(q)
  BY <1>1 DEF WorkInv
<1>3. Preserves(q)' = Preserves(q) /\ Installing(q)' = Installing(q) /\ Keeping(q)' = Keeping(q)
      /\ AsFound(q)' = AsFound(q)
  BY <1>1 DEF Preserves, Installing, Keeping, AsFound, scripts, Exists, Ours
<1> QED
  BY <1>1, <1>2, <1>3 DEF InstallPart, UninstallPart, scripts, Ours

LEMMA WorkStep == FilesOK /\ WorkInv /\ [Next]_vars => WorkInv'
<1> SUFFICES ASSUME FilesOK, WorkInv, [Next]_vars PROVE WorkInv'
  OBVIOUS
<1> DEFINE Part(q) == Alone(q)' => InstallPart(q)' /\ UninstallPart(q)'
<1>b. \A f \in FileStates : ~Exists(f) => f = NoFile
  BY FileFacts
<1>c. \A p \in Commands : ChangedBy(p) =>
        start'[p] = start[p] /\ \A q \in Commands \ {p} : ~start'[q].known
  BY DEF ChangedBy, NoStart
<1>d. ChangedBy("other") => \A q \in Commands : ~start'[q].known
  BY CommandsAssumption DEF ChangedBy, NoStart
<1> USE DEF FilesOK
\* A step of a command p leaves the others as Bystander says.
<1>1. ASSUME NEW p \in Commands, NEW place, Go(p, place), UNCHANGED forced,
             FilesKept \/ ChangedBy(p), Part(p)
      PROVE  WorkInv'
  <2> SUFFICES ASSUME NEW q \in Commands, q # p PROVE Part(q)
    BY <1>1 DEF WorkInv
  <2>1. pc'[q] = pc[q] /\ forced'[q] = forced[q]
    BY <1>1 DEF Go
  <2>2. ~start'[q].known \/ (UNCHANGED scripts /\ start'[q] = start[q] /\ fd'[q] = fd[q])
    BY <1>1, <1>c DEF FilesKept
  <2> QED
    BY <2>1, <2>2, Bystander
\* A step that changes no file and ends, or goes on as it was found.
<1>2. ASSUME NEW p \in Commands, NEW place, Go(p, place), UNCHANGED forced, FilesKept
      PROVE  /\ pc'[p] = place /\ UNCHANGED <<hook, legacy>> /\ Alone(p)' = Alone(p)
             /\ fd'[p] = fd[p] /\ start'[p] = start[p] /\ forced'[p] = forced[p]
             /\ Preserves(p)' = Preserves(p) /\ Installing(p)' = Installing(p)
             /\ Keeping(p)' = Keeping(p) /\ AsFound(p)' = AsFound(p)
  BY <1>2 DEF Go, FilesKept, scripts, Alone, Preserves, Installing, Keeping, AsFound, Exists, Ours
<1>3. ASSUME NEW p \in Commands, NEW place, Go(p, place), UNCHANGED forced, ChangedBy(p)
      PROVE  /\ pc'[p] = place /\ Alone(p)' = Alone(p)
             /\ start'[p] = start[p] /\ forced'[p] = forced[p]
             /\ Preserves(p)' = Preserves(p) /\ Installing(p)' = Installing(p)
             /\ Keeping(p)' = Keeping(p)
  BY <1>3, <1>c DEF Go, Alone, Preserves, Installing, Keeping, Exists, Ours
<1>4. \A p \in Commands : Alone(p) => InstallPart(p) /\ UninstallPart(p)
  BY DEF WorkInv
<1>5. ASSUME NEW p \in Commands, Begin(p) PROVE WorkInv'
  <2>1. ASSUME NEW q \in Commands, q # p PROVE Part(q)
    <3>1. pc'[q] = pc[q] /\ forced'[q] = forced[q] /\ UNCHANGED scripts
          /\ start'[q] = start[q] /\ fd'[q] = fd[q]
      BY <1>5, <2>1 DEF Begin, Go
    <3> QED
      BY <3>1, <2>1, Bystander
  <2>2. Part(p)
    <3>1. pc'[p] \in {"error", "look", "unlegacy"} /\ UNCHANGED scripts
          /\ start'[p].hook = hook /\ start'[p].legacy = legacy
      BY <1>5 DEF Begin, Go
    <3> QED
      BY <3>1 DEF InstallPart, UninstallPart, AsFound, scripts
  <2> QED
    BY <2>1, <2>2 DEF WorkInv
<1>6. ASSUME NEW p \in Commands, Look(p) PROVE WorkInv'
  <2> DEFINE place == CASE ~Exists(hook) \/ forced[p] \/ Ours(hook) -> "clear"
             [] Exists(hook) /\ ~forced[p] /\ hook.script \in Unreadable -> "error"
             [] OTHER -> "move"
  <2>1. Go(p, place) /\ UNCHANGED forced /\ FilesKept /\ pc[p] = "look"
    BY <1>6 DEF Look
  <2>2. Alone(p) => AsFound(p)
    BY <1>4, <2>1 DEF InstallPart
  <2>3. place \in {"clear", "error", "move"}
    OBVIOUS
  <2>4. place = "move" => ~forced[p] /\ Exists(hook) /\ ~Ours(hook)
    OBVIOUS
  <2>5. place = "clear" => ~Exists(hook) \/ forced[p] \/ Ours(hook)
    OBVIOUS
  <2>6. Part(p)
    <3> HIDE DEF place
    <3> QED
      BY <1>2, <2>1, <2>2, <2>3, <2>4, <2>5 DEF InstallPart, UninstallPart, Preserves, AsFound
  <2> QED
    BY <1>1, <2>1, <2>6
<1>7. ASSUME NEW p \in Commands, Move(p) PROVE WorkInv'
  <2>1. CASE Go(p, "clear") /\ RenameToLegacy /\ ChangedBy(p) /\ UNCHANGED forced
    <3>1. Alone(p) => hook = start[p].hook /\ Preserves(p)
      BY <1>4, <1>7 DEF Move, InstallPart, AsFound
    <3>2. Part(p)
      BY <1>3, <2>1, <3>1 DEF InstallPart, UninstallPart, RenameToLegacy
    <3> QED
      BY <1>1, <2>1, <3>2
  <2>2. CASE Go(p, "error") /\ FilesKept /\ UNCHANGED forced
    <3>1. Part(p)
      BY <1>2, <2>2 DEF InstallPart, UninstallPart
    <3> QED
      BY <1>1, <2>2, <3>1
  <2> QED
    BY <1>7, <2>1, <2>2 DEF Move
<1>8. ASSUME NEW p \in Commands, Clear(p) PROVE WorkInv'
  <2>1. pc[p] = "clear" /\ Go(p, "open") /\ UNCHANGED forced
    BY <1>8 DEF Clear
  <2>2. Alone(p) => IF Preserves(p) THEN hook = NoFile /\ legacy = start[p].hook ELSE AsFound(p)
    BY <1>4, <2>1 DEF InstallPart
  <2>3. Alone(p) => forced[p] \/ hook = NoFile \/ Ours(hook)
    BY <1>b, <2>2 DEF Preserves, AsFound
  <2>4. Alone(p) /\ ~forced[p] => legacy = Installing(p)
    BY <2>2 DEF Installing, AsFound
  <2>5. CASE RemoveLegacy /\ ChangedBy(p) /\ forced[p]
    <3>1. Part(p)
      BY <1>3, <2>1, <2>3, <2>5 DEF RemoveLegacy, InstallPart, UninstallPart, Installing
    <3> QED
      BY <1>1, <2>1, <2>5, <3>1
  <2>6. CASE FilesKept /\ ~(forced[p] /\ Exists(legacy))
    <3>1. Alone(p) => legacy = Installing(p)
      BY <1>b, <2>4, <2>6 DEF Installing
    <3>2. Part(p)
      BY <1>2, <2>1, <2>3, <2>6, <3>1 DEF InstallPart, UninstallPart
    <3> QED
      BY <1>1, <2>1, <2>6, <3>2
  <2> QED
    BY <1>8, <2>5, <2>6 DEF Clear
<1>9. ASSUME NEW p \in Commands, Open(p) PROVE WorkInv'
  <2>1. pc[p] = "open" /\ Go(p, "write") /\ UNCHANGED forced /\ ChangedBy(p)
        /\ hook'.script = "torn" /\ legacy' = legacy /\ fd'[p] = "hook"
    BY <1>9 DEF Open
  <2>2. Alone(p) => legacy = Installing(p)
    BY <1>4, <2>1 DEF InstallPart
  <2>3. Part(p)
    BY <1>3, <2>1, <2>2 DEF InstallPart, UninstallPart
  <2> QED
    BY <1>1, <2>1, <2>3
<1>10. ASSUME NEW p \in Commands, Write(p) PROVE WorkInv'
  <2>1. pc[p] = "write" /\ Go(p, "chmod") /\ UNCHANGED forced /\ ChangedBy(p)
    BY <1>10 DEF Write
  <2>2. Alone(p) => legacy = Installing(p) /\ fd[p] = "hook"
    BY <1>4, <2>1 DEF InstallPart
  <2>3. Alone(p) => legacy' = legacy /\ hook' = [hook EXCEPT !.script = "shim"]
    BY <1>10, <2>2 DEF Write
  <2>4. Alone(p) => hook'.script = "shim"
    BY <2>3, FileFacts
  <2>5. Part(p)
    BY <1>3, <2>1, <2>2, <2>3, <2>4 DEF InstallPart, UninstallPart
  <2> QED
    BY <1>1, <2>1, <2>5
<1>11. ASSUME NEW p \in Commands, Chmod(p) PROVE WorkInv'
  <2>1. CASE Go(p, "installed") /\ hook' = [hook EXCEPT !.exec = TRUE] /\ legacy' = legacy
             /\ ChangedBy(p) /\ UNCHANGED forced
    <3>1. Alone(p) => legacy = Installing(p) /\ hook.script = "shim"
      BY <1>4, <1>11 DEF Chmod, InstallPart
    <3>2. Alone(p) => hook = [script |-> "shim", exec |-> hook.exec]
      BY <3>1, FileFacts
    <3>3. Alone(p) => hook' = Shim
      <4>1. Alone(p) => hook' = [script |-> hook.script, exec |-> TRUE]
        BY <2>1, <3>2
      <4> QED
        BY <3>1, <4>1 DEF Shim
    <3>4. Part(p)
      BY <1>3, <2>1, <3>1, <3>3 DEF InstallPart, UninstallPart
    <3> QED
      BY <1>1, <2>1, <3>4
  <2>2. CASE Go(p, "error") /\ FilesKept /\ UNCHANGED forced
    <3>1. Part(p)
      BY <1>2, <2>2 DEF InstallPart, UninstallPart
    <3> QED
      BY <1>1, <2>2, <3>1
  <2> QED
    BY <1>11, <2>1, <2>2 DEF Chmod
<1>12. ASSUME NEW p \in Commands, Unlegacy(p) PROVE WorkInv'
  <2>1. pc[p] = "unlegacy" /\ Go(p, "inspect") /\ UNCHANGED forced
    BY <1>12 DEF Unlegacy
  <2>2. Alone(p) => AsFound(p)
    BY <1>4, <2>1 DEF UninstallPart
  <2>3. CASE RemoveLegacy /\ ChangedBy(p) /\ Ours(legacy)
    <3>1. Part(p)
      BY <1>3, <2>1, <2>2, <2>3 DEF RemoveLegacy, InstallPart, UninstallPart, Keeping, AsFound
    <3> QED
      BY <1>1, <2>1, <2>3, <3>1
  <2>4. CASE FilesKept /\ ~Ours(legacy)
    <3>1. Part(p)
      BY <1>2, <2>1, <2>2, <2>4 DEF InstallPart, UninstallPart, Keeping, AsFound
    <3> QED
      BY <1>1, <2>1, <2>4, <3>1
  <2> QED
    BY <1>12, <2>3, <2>4 DEF Unlegacy
<1>13. ASSUME NEW p \in Commands, Inspect(p) PROVE WorkInv'
  <2> DEFINE place == CASE Ours(hook) -> "remove"
                        [] hook.script \in Unreadable -> "error"
                        [] OTHER -> "skipped"
  <2>1. Go(p, place) /\ UNCHANGED forced /\ FilesKept /\ pc[p] = "inspect"
    BY <1>13 DEF Inspect
  <2>2. Alone(p) => hook = start[p].hook /\ legacy = Keeping(p)
    BY <1>4, <2>1 DEF UninstallPart
  <2>3. place \in {"remove", "error", "skipped"} /\ (place = "remove" => Ours(hook))
    BY ForeignAssumption DEF Ours
  <2>4. Part(p)
    <3> HIDE DEF place
    <3> QED
      BY <1>2, <2>1, <2>2, <2>3 DEF InstallPart, UninstallPart
  <2> QED
    BY <1>1, <2>1, <2>4
<1>14. ASSUME NEW p \in Commands, Remove(p) PROVE WorkInv'
  <2>1. CASE Go(p, "restore") /\ ReplaceHook(NoFile) /\ ChangedBy(p) /\ UNCHANGED forced
    <3>1. Alone(p) => legacy = Keeping(p) /\ Ours(start[p].hook)
      BY <1>4, <1>14 DEF Remove, UninstallPart
    <3>2. Part(p)
      BY <1>3, <2>1, <3>1 DEF InstallPart, UninstallPart, ReplaceHook
    <3> QED
      BY <1>1, <2>1, <3>2
  <2>2. CASE Go(p, "error") /\ FilesKept /\ UNCHANGED forced
    <3>1. Part(p)
      BY <1>2, <2>2 DEF InstallPart, UninstallPart
    <3> QED
      BY <1>1, <2>2, <3>1
  <2> QED
    BY <1>14, <2>1, <2>2 DEF Remove
<1>15. ASSUME NEW p \in Commands, Restore(p) PROVE WorkInv'
  <2>1. pc[p] = "restore" /\ Go(p, "uninstalled") /\ UNCHANGED forced
    BY <1>15 DEF Restore
  <2>2. Alone(p) => hook = NoFile /\ legacy = Keeping(p) /\ Ours(start[p].hook)
    BY <1>4, <2>1 DEF UninstallPart
  <2>3. CASE RenameToHook /\ ChangedBy(p)
    <3>1. Part(p)
      BY <1>3, <2>1, <2>2, <2>3 DEF RenameToHook, InstallPart, UninstallPart
    <3> QED
      BY <1>1, <2>1, <2>3, <3>1
  <2>4. CASE FilesKept /\ ~Exists(legacy)
    <3>1. Part(p)
      BY <1>2, <1>b, <2>1, <2>2, <2>4 DEF InstallPart, UninstallPart
    <3> QED
      BY <1>1, <2>1, <2>4, <3>1
  <2> QED
    BY <1>15, <2>3, <2>4 DEF Restore
<1>16. ASSUME NEW p \in Commands, Kill(p) PROVE WorkInv'
  <2>1. Go(p, "error") /\ FilesKept /\ UNCHANGED forced
    BY <1>16 DEF Kill
  <2>2. Part(p)
    BY <1>2, <2>1 DEF InstallPart, UninstallPart
  <2> QED
    BY <1>1, <2>1, <2>2
\* No command moves.
<1>17. CASE Others \/ Hook \/ UNCHANGED vars
  <2>1. UNCHANGED <<pc, forced>>
    BY <1>17 DEF Others, ForeignWrites, ForeignMigrates, UserDeletes, UserSetsHooksPath, Outside,
       vars, command, Hook, Git, RunsTorn, PlainRuns, MigratingStarts, MigratingChecks,
       ShimStarts, ShimChecks, ShimRuns, CallOnly
  <2>2. ChangedBy("other") \/ UNCHANGED <<scripts, fd, start>>
    BY <1>17 DEF Others, ForeignWrites, ForeignMigrates, UserDeletes, UserSetsHooksPath,
       vars, command, Hook, Git, RunsTorn, PlainRuns, MigratingStarts, MigratingChecks,
       ShimStarts, ShimChecks, ShimRuns, CallOnly
  <2>3. ASSUME NEW q \in Commands PROVE Part(q)
    <3>1. ~start'[q].known \/ (UNCHANGED scripts /\ start'[q] = start[q] /\ fd'[q] = fd[q])
      BY <1>d, <2>2
    <3> QED
      BY <2>1, <3>1, Bystander
  <2> QED
    BY <2>3 DEF WorkInv
<1> QED
  BY <1>5, <1>6, <1>7, <1>8, <1>9, <1>10, <1>11, <1>12, <1>13, <1>14, <1>15, <1>16, <1>17
     DEF Next, Prek, Install, Uninstall

-----------------------------------------------------------------------------
LEMMA ShimInvariant == Spec => [](FilesOK /\ WorkInv /\ StackInv /\ FailureInv)
<1>1. Init => FilesOK /\ WorkInv /\ StackInv /\ FailureInv
  <2> SUFFICES ASSUME Init PROVE FilesOK /\ WorkInv /\ StackInv /\ FailureInv
    OBVIOUS
  <2>1. hook \in FileStates /\ legacy \in FileStates
    BY OriginalFacts DEF Init, FileStates
  <2>2. FilesOK
    BY <2>1 DEF Init, FilesOK, Places, Handles, Starts, NoStart, FileStates
  <2>3. WorkInv
    BY DEF Init, WorkInv, Alone, NoStart
  <2>4. StackInv /\ FailureInv
    <3>1. stack = <<>> /\ Len(stack) = 0 /\ stack \in Seq(Frames)
      BY DEF Init
    <3>2. \A i \in 1..Len(stack) : FALSE
      BY <3>1
    <3>3. StackInv
      BY <3>1, <3>2 DEF StackInv
    <3>4. FailureInv
      BY <3>1 DEF Init, FailureInv
    <3> QED
      BY <3>3, <3>4
  <2> QED
    BY <2>2, <2>3, <2>4
<1> QED
  BY <1>1, FilesStep, WorkStep, CallInv, PTL DEF Spec

(***************************************************************************)
(* Types, for any scripts, commands and pushes.                            *)
(***************************************************************************)
THEOREM ShimTyping == Spec => []TypeOK
<1> DEFINE Rest ==
      /\ external \in BOOLEAN /\ push \in Pushes \cup {NoPush}
      /\ outcome \in {"none", "accept", "reject"}
      /\ started \in Nat /\ outside \in Nat /\ calls \in Nat
<1>1. Init => Rest
  BY DEF Init
<1>2. Rest /\ [Next]_vars => Rest'
  <2> SUFFICES ASSUME Rest, [Next]_vars PROVE Rest'
    OBVIOUS
  <2>1. ASSUME NEW end, Return(end)
        PROVE  push' \in Pushes \cup {NoPush} /\ outcome' \in {"none", "accept", "reject"}
    BY <2>1 DEF Return
  <2>2. CASE Git
    BY <2>2 DEF Git, CallOnly
  <2>3. CASE RunsTorn \/ PlainRuns \/ MigratingChecks \/ ShimRuns
    BY <2>1, <2>3 DEF RunsTorn, PlainRuns, MigratingChecks, ShimRuns, CallOnly
  <2>4. CASE MigratingStarts \/ ShimStarts
    BY <2>1, <2>4 DEF MigratingStarts, ShimStarts, CallsLegacy, CallOnly
  <2>5. CASE ShimChecks
    BY <2>1, <2>5 DEF ShimChecks, CallOnly
  <2>6. ASSUME NEW p \in Commands, Prek(p) PROVE Rest'
    <3>1. CASE Begin(p)
      BY <3>1 DEF Begin, call
    <3>2. CASE Kill(p)
      BY <3>2 DEF Kill, call
    <3>3. CASE Install(p) \/ Uninstall(p)
      <4>1. NotCalled
        BY <3>3 DEF Install, Uninstall, Look, Move, Clear, Open, Write, Chmod,
           Unlegacy, Inspect, Remove, Restore
      <4> QED
        BY <4>1 DEF NotCalled, call
    <3> QED
      BY <2>6, <3>1, <3>2, <3>3 DEF Prek
  <2>7. CASE Others
    <3>1. Outside /\ external' \in {external, ~external}
      BY <2>7 DEF Others, ForeignWrites, ForeignMigrates, UserDeletes, UserSetsHooksPath
    <3>2. external' \in BOOLEAN
      BY <3>1
    <3> QED
      BY <3>1, <3>2 DEF Outside, call
  <2>8. CASE UNCHANGED vars
    BY <2>8 DEF vars, call
  <2> QED
    BY <2>2, <2>3, <2>4, <2>5, <2>6, <2>7, <2>8 DEF Next, Hook
<1>3. FilesOK /\ StackInv /\ FailureInv /\ Rest => TypeOK
  BY DEF FilesOK, StackInv, FailureInv, TypeOK
<1> QED
  BY <1>1, <1>2, <1>3, ShimInvariant, PTL DEF Spec


(***************************************************************************)
(* An install or an uninstall that nobody interfered with leaves what it   *)
(* is for, whatever scripts and flags it meets.                            *)
(***************************************************************************)
THEOREM PromisesHold == Spec => []PromiseKept
<1>1. WorkInv => PromiseKept
  BY DEF WorkInv, InstallPart, UninstallPart, PromiseKept, InstallKeepsPromise,
     UninstallKeepsPromise, Installing, Preserves, Keeping
<1> QED
  BY <1>1, ShimInvariant, PTL

(***************************************************************************)
(* prek's script never runs a third time in one call of the hook.          *)
(***************************************************************************)
THEOREM ShimsEnd == Spec => []NoEndlessShims
<1>1. StackInv => NoEndlessShims
  <2> SUFFICES ASSUME StackInv, NEW i \in Shims, NEW j \in Shims, NEW k \in Shims,
                      i # j, j # k, i # k
               PROVE  FALSE
    BY DEF NoEndlessShims
  <2>1. \A x \in Shims : x \in 1..Len(stack) /\ stack[x].script = "shim"
    BY DEF Shims, StackInv
  <2>2. \A x, y, z \in Shims : ~(x < y /\ y < z)
    BY <2>1 DEF StackInv
  <2>3. i \in Nat /\ j \in Nat /\ k \in Nat
    BY <2>1
  <2> QED
    BY <2>2, <2>3
<1> QED
  BY <1>1, ShimInvariant, PTL

(***************************************************************************)
(* No failure of a script that git's call has run is swallowed.            *)
(***************************************************************************)
THEOREM FailuresReachGit == Spec => []AcceptedMeansPassed
<1>1. FailureInv => AcceptedMeansPassed
  BY DEF FailureInv, AcceptedMeansPassed
<1> QED
  BY <1>1, ShimInvariant, PTL

(***************************************************************************)
(* No command that nobody interfered with loses a user's script, save one  *)
(* that makes way for another that it preserves.                           *)
(***************************************************************************)
THEOREM ScriptsStay == Spec => ScriptsKept
<1> DEFINE Kept ==
      \A p \in Commands : pc'[p] # pc[p] =>
        \A s \in Foreign : Lost(s) =>
          \/ forced[p]
          \/ ~Alone(p)
          \/ legacy.script = s /\ legacy' = hook /\ hook.script \in Foreign \cup {"torn"}
<1>1. FilesOK /\ WorkInv /\ [Next]_vars => [Kept]_vars
  <2> SUFFICES ASSUME FilesOK, WorkInv, Next, NEW p \in Commands, pc'[p] # pc[p],
                      NEW s \in Foreign, Lost(s), ~forced[p], Alone(p)
               PROVE  legacy.script = s /\ legacy' = hook /\ hook.script \in Foreign \cup {"torn"}
    OBVIOUS
  <2>1. ~(UNCHANGED scripts)
    BY DEF Lost, scripts
  <2>2. s \notin {"shim", "torn", "none"} /\ "none" \notin Scripts /\ NoFile.script = "none"
    BY ForeignAssumption DEF Scripts, NoFile
  <2>3. PICK q \in Commands : Prek(q)
    BY <2>1 DEF Next, Others, ForeignWrites, ForeignMigrates, UserDeletes, UserSetsHooksPath, Outside,
       Hook, Git, RunsTorn, PlainRuns, MigratingStarts, MigratingChecks,
       ShimStarts, ShimChecks, ShimRuns, CallOnly, command
  <2>4. \E place : Go(q, place)
    BY <2>3 DEF Prek, Begin, Install, Uninstall, Kill, Look, Move, Clear, Open, Write, Chmod,
       Unlegacy, Inspect, Remove, Restore
  <2>5. q = p
    BY <2>4 DEF Go, FilesOK
  <2>6. InstallPart(p) /\ UninstallPart(p)
    BY DEF WorkInv
  <2>7. CASE Move(p)
    <3>1. legacy' = hook /\ hook' = NoFile
      BY <2>1, <2>7 DEF Move, RenameToLegacy, FilesKept
    <3>2. legacy.script = s
      BY <3>1 DEF Lost
    <3>3. Exists(hook) /\ ~Ours(hook)
      BY <2>6, <2>7 DEF Move, InstallPart, AsFound, Preserves
    <3>4. hook.script \in Foreign \cup {"torn"}
      BY <3>3, FileFacts DEF FilesOK, Scripts, Ours
    <3> QED
      BY <3>1, <3>2, <3>4
  <2>8. CASE Open(p)
    <3>1. hook = NoFile \/ Ours(hook)
      BY <2>6, <2>8 DEF Open, InstallPart
    <3>2. legacy' = legacy
      BY <2>8 DEF Open
    <3> QED
      BY <2>2, <3>1, <3>2 DEF Lost, Ours
  <2>9. CASE Write(p)
    <3>1. hook.script = "torn" /\ fd[p] = "hook"
      BY <2>6, <2>9 DEF Write, InstallPart
    <3>2. legacy' = legacy
      BY <2>9, <3>1 DEF Write
    <3> QED
      BY <2>2, <3>1, <3>2 DEF Lost
  <2>10. CASE Chmod(p)
    <3>1. legacy' = legacy /\ hook' = [hook EXCEPT !.exec = TRUE]
      BY <2>1, <2>10 DEF Chmod, FilesKept, scripts
    <3>2. hook'.script = hook.script
      BY <3>1, FileFacts DEF FilesOK
    <3> QED
      BY <3>1, <3>2 DEF Lost
  <2>11. CASE Unlegacy(p)
    <3>1. hook' = hook /\ Ours(legacy)
      BY <2>1, <2>11 DEF Unlegacy, RemoveLegacy, FilesKept
    <3> QED
      BY <2>2, <3>1 DEF Lost, Ours
  <2>12. CASE Remove(p)
    <3>1. legacy' = legacy
      BY <2>1, <2>12 DEF Remove, ReplaceHook, FilesKept
    <3>2. Ours(hook)
      BY <2>6, <2>12 DEF Remove, UninstallPart
    <3> QED
      BY <2>2, <3>1, <3>2 DEF Lost, Ours
  <2>13. CASE Restore(p)
    <3>1. hook' = legacy
      BY <2>1, <2>13 DEF Restore, RenameToHook, FilesKept
    <3>2. hook = NoFile
      BY <2>6, <2>13 DEF Restore, UninstallPart
    <3> QED
      BY <2>2, <3>1, <3>2 DEF Lost
  <2>14. CASE Begin(p) \/ Look(p) \/ Clear(p) \/ Inspect(p) \/ Kill(p)
    BY <2>1, <2>14 DEF Begin, Look, Clear, Inspect, Kill, FilesKept
  <2> QED
    BY <2>3, <2>5, <2>7, <2>8, <2>9, <2>10, <2>11, <2>12, <2>13, <2>14 DEF Prek, Install, Uninstall
<1> QED
  BY <1>1, ShimInvariant, PTL DEF Spec, ScriptsKept

-----------------------------------------------------------------------------
(***************************************************************************)
(* Ancestors is reachability, in every history.                            *)
(***************************************************************************)
LEMMA Least ==
  ASSUME NEW some \in SUBSET Nat, some # {}
  PROVE  \E x \in some : \A y \in some : x <= y
<1>1. PICK x \in some : \A y \in some : ~(<<y, x>> \in OpToRel(<, Nat))
  BY NatLessThanWellFounded, WFMin
<1>2. ASSUME NEW y \in some PROVE x <= y
  <2>1. x \in Nat /\ y \in Nat
    OBVIOUS
  <2>2. y < x => <<y, x>> \in OpToRel(<, Nat)
    BY <2>1 DEF OpToRel
  <2>3. ~(y < x)
    BY <1>1, <2>2, Zenon
  <2> QED
    BY <2>1, <2>3
<1> QED
  BY <1>2

LEMMA HistoryFacts ==
  ASSUME NEW h, IsPush(h)
  PROVE  /\ Commits(h) \subseteq Nat
         /\ \A c \in Commits(h) : ParentsOf(h, c) \subseteq Commits(h) /\ \A p \in ParentsOf(h, c) : p < c
<1>1. Commits(h) = 1..Len(h.parents) /\ Len(h.parents) \in Nat
  BY DEF Commits, IsPush
<1>2. ASSUME NEW c \in Commits(h), NEW p \in ParentsOf(h, c) PROVE p \in 1..(c - 1)
  BY <1>2 DEF ParentsOf, IsPush
<1> QED
  BY <1>1, <1>2

LEMMA AncestorsStep ==
  ASSUME NEW h, IsPush(h), NEW c \in Commits(h)
  PROVE  Ancestors(h)[c] = {c} \cup UNION {Ancestors(h)[p] : p \in ParentsOf(h, c)}
<1> DEFINE Closed(S) == \A d \in S : ParentsOf(h, d) \subseteq S
           Reach == [d \in Commits(h) |->
                       {e \in Commits(h) : \A S \in SUBSET Commits(h) : d \in S /\ Closed(S) => e \in S}]
<1>1. ASSUME NEW d \in Commits(h)
      PROVE  Reach[d] = {d} \cup UNION {Reach[p] : p \in ParentsOf(h, d)}
  <2> DEFINE Above == {d} \cup UNION {Reach[p] : p \in ParentsOf(h, d)}
  <2>1. ParentsOf(h, d) \subseteq Commits(h)
    BY HistoryFacts
  <2>2. \A e \in Commits(h) : e \in Reach[e] /\ Reach[e] \subseteq Commits(h)
    OBVIOUS
  <2>3. ASSUME NEW e \in Commits(h) PROVE Closed(Reach[e])
    BY HistoryFacts
  <2>4. Above \subseteq Reach[d]
    BY <2>1
  <2>a. ASSUME NEW e \in Above PROVE e = d \/ \E p \in ParentsOf(h, d) : e \in Reach[p]
    BY <2>a
  <2>b. ASSUME NEW p \in ParentsOf(h, d), NEW e \in Reach[p] PROVE e \in Above
    BY <2>b
  <2> HIDE DEF Reach
  <2>5. Above \subseteq Commits(h)
    BY <2>1, <2>2, <2>a
  <2>6. Closed(Above)
    <3> SUFFICES ASSUME NEW e \in Above, NEW q \in ParentsOf(h, e) PROVE q \in Above
      OBVIOUS
    <3>1. CASE e = d
      <4>1. q \in ParentsOf(h, d) /\ q \in Reach[q]
        BY <2>1, <2>2, <3>1
      <4> QED
        BY <2>b, <4>1
    <3>2. CASE \E p \in ParentsOf(h, d) : e \in Reach[p]
      <4>1. PICK p \in ParentsOf(h, d) : e \in Reach[p]
        BY <3>2
      <4>2. q \in Reach[p]
        BY <2>1, <2>3, <4>1
      <4> QED
        BY <2>b, <4>2
    <3> QED
      BY <2>a, <3>1, <3>2
  <2>7. Reach[d] \subseteq Above
    <3>1. d \in Above
      OBVIOUS
    <3> HIDE DEF Above
    <3> QED
      BY <2>5, <2>6, <3>1 DEF Reach
  <2> QED
    BY <2>4, <2>7
<1>2. \A reach, d : {reach[h.parents[d][i]] : i \in DOMAIN h.parents[d]} = {reach[p] : p \in ParentsOf(h, d)}
  BY DEF ParentsOf
<1>3. Reach = [d \in Commits(h) |-> Reach[d]]
  OBVIOUS
<1> HIDE DEF Reach
<1>4. Reach = [d \in Commits(h) |-> {d} \cup UNION {Reach[h.parents[d][i]] : i \in DOMAIN h.parents[d]}]
  <2>1. ASSUME NEW d \in Commits(h)
        PROVE  Reach[d] = {d} \cup UNION {Reach[h.parents[d][i]] : i \in DOMAIN h.parents[d]}
    <3>1. {Reach[h.parents[d][i]] : i \in DOMAIN h.parents[d]} = {Reach[p] : p \in ParentsOf(h, d)}
      BY <1>2, Zenon
    <3> QED
      BY <1>1, <3>1
  <2> DEFINE G(d) == {d} \cup UNION {Reach[h.parents[d][i]] : i \in DOMAIN h.parents[d]}
  <2>2. \A d \in Commits(h) : Reach[d] = G(d)
    BY <2>1
  <2> HIDE DEF G
  <2>3. [d \in Commits(h) |-> Reach[d]] = [d \in Commits(h) |-> G(d)]
    BY <2>2
  <2> QED
    BY <1>3, <2>3 DEF G
<1>5. Ancestors(h) =
        [d \in Commits(h) |-> {d} \cup UNION {Ancestors(h)[h.parents[d][i]] : i \in DOMAIN h.parents[d]}]
  BY <1>4, Zenon DEF Ancestors
<1>6. Ancestors(h)[c] = {c} \cup UNION {Ancestors(h)[h.parents[c][i]] : i \in DOMAIN h.parents[c]}
  BY <1>5, Zenon
<1> QED
  BY <1>2, <1>6, Zenon

LEMMA AncestorsFacts ==
  ASSUME NEW h, IsPush(h)
  PROVE  /\ \A c \in Commits(h) : c \in Ancestors(h)[c] /\ Ancestors(h)[c] \subseteq Commits(h)
         /\ \A c \in Commits(h) : \A p \in ParentsOf(h, c) : p \in Ancestors(h)[c]
         /\ \A c \in Commits(h) : \A b \in Ancestors(h)[c] : Ancestors(h)[b] \subseteq Ancestors(h)[c]
         /\ \A b, c \in Commits(h) : b \in Ancestors(h)[c] /\ c \in Ancestors(h)[b] => b = c
<1> DEFINE Reached(c) == Ancestors(h)[c]
           Older(c) == \A b \in Reached(c) : b \in Commits(h) /\ b <= c
           Transitive(c) == \A b \in Reached(c) : Reached(b) \subseteq Reached(c)
<1>1. \A c \in Commits(h) : Reached(c) = {c} \cup UNION {Reached(p) : p \in ParentsOf(h, c)}
  BY AncestorsStep
<1> HIDE DEF Reached
<1>2. ASSUME NEW c \in Commits(h), ~(Older(c) /\ Transitive(c)) PROVE FALSE
  <2> DEFINE wrong == {d \in Commits(h) : ~(Older(d) /\ Transitive(d))}
  <2>1. wrong \in SUBSET Nat /\ wrong # {}
    BY <1>2, HistoryFacts
  <2>2. PICK d \in wrong : \A e \in wrong : d <= e
    BY <2>1, Least
  <2>3. \A p \in ParentsOf(h, d) : p \in Commits(h) /\ p < d /\ Older(p) /\ Transitive(p)
    BY <2>2, HistoryFacts
  <2>4. Older(d)
    BY <1>1, <2>2, <2>3, HistoryFacts
  <2>5. Transitive(d)
    <3> SUFFICES ASSUME NEW b \in Reached(d) PROVE Reached(b) \subseteq Reached(d)
      OBVIOUS
    <3>1. CASE b = d
      BY <3>1
    <3>2. CASE \E p \in ParentsOf(h, d) : b \in Reached(p)
      <4>1. PICK p \in ParentsOf(h, d) : b \in Reached(p)
        BY <3>2
      <4>2. Reached(b) \subseteq Reached(p) /\ Reached(p) \subseteq Reached(d)
        BY <1>1, <2>2, <2>3, <4>1
      <4> QED
        BY <4>2
    <3> QED
      BY <1>1, <2>2, <3>1, <3>2
  <2> QED
    BY <2>2, <2>4, <2>5
<1>3. \A c \in Commits(h) : c \in Reached(c) /\ (\A p \in ParentsOf(h, c) : p \in Reached(c))
  <2>1. \A c \in Commits(h) : c \in Reached(c)
    BY <1>1
  <2>2. ASSUME NEW c \in Commits(h), NEW p \in ParentsOf(h, c) PROVE p \in Reached(c)
    <3>1. p \in Commits(h)
      BY HistoryFacts
    <3>2. p \in Reached(p) /\ Reached(p) \subseteq Reached(c)
      BY <1>1, <2>1, <3>1
    <3> QED
      BY <3>2
  <2> QED
    BY <2>1, <2>2
<1>4. \A b, c \in Commits(h) : b \in Reached(c) /\ c \in Reached(b) => b = c
  BY <1>2, HistoryFacts
<1> QED
  BY <1>2, <1>3, <1>4 DEF Reached

(***************************************************************************)
(* What is checked for an update has every content that the remote lacks,  *)
(* but for files out of the index when the update brings a root.           *)
(***************************************************************************)
LEMMA OldestBase ==
  ASSUME NEW h, IsPush(h), NEW a \in Commits(h), NEW b \in Ancestors(h)[a]
  PROVE  b \in MergeBases(h, b, a)
BY AncestorsFacts DEF MergeBases

LEMMA DiffCovers ==
  ASSUME NEW h, IsPush(h), NEW i \in DOMAIN h.refs, h.refs[i].local \in Commits(h),
         NEW b \in Ancestors(h)[h.refs[i].local], b \in Held(h, i)
  PROVE  NewContents(h, i) \subseteq Selected(h, Diff(b, h.refs[i].local, i))
<1> DEFINE o == Diff(b, h.refs[i].local, i)
<1>1. o.kind = "diff" /\ o.from = b /\ o.to = h.refs[i].local
  BY DEF Diff
<1>2. b \in MergeBases(h, b, h.refs[i].local)
  BY OldestBase
<1> HIDE DEF o
<1>3. NewContents(h, i) \subseteq Selected(h, o)
  BY <1>1, <1>2 DEF Selected, NewContents
<1> QED
  BY <1>3 DEF o

LEMMA UpdateCovered ==
  ASSUME NEW h, IsPush(h), NEW i \in DOMAIN h.refs
  PROVE  \/ RefOptions(h, i) = {Skip} /\ NothingNew(h, i)
         \/ \A o \in RefOptions(h, i) :
              /\ o.kind \in {"all", "diff"} /\ o.ref = i
              /\ \A f \in NewContents(h, i) :
                   f \in Selected(h, o) \/ (BringsRoot(h, i) /\ f \notin h.index)
<1> DEFINE local == h.refs[i].local
           remote == h.refs[i].remote
<1>0. local \in Commits(h) \cup {0}
  <2> DEFINE Update == [local : Commits(h) \cup {0}, remote : Nat]
  <2>1. h.refs \in Seq(Update)
    BY DEF IsPush
  <2>2. h.refs[i] \in Update
    <3> HIDE DEF Update
    <3> QED
      BY <2>1
  <2> QED
    BY <2>2
<1>1. CASE local = 0
  BY <1>1 DEF RefOptions, NothingNew
<1>2. CASE local # 0 /\ FastForward(h, h.refs[i])
  <2>1. RefOptions(h, i) = {Diff(remote, local, i)}
    BY <1>2 DEF RefOptions
  <2>2. remote \in Ancestors(h)[local] /\ remote \in Commits(h)
    BY <1>2 DEF FastForward
  <2>3. remote \in Held(h, i)
    BY <2>2, AncestorsFacts DEF Held
  <2>4. NewContents(h, i) \subseteq Selected(h, Diff(remote, local, i))
    BY <1>0, <1>2, <2>2, <2>3, DiffCovers
  <2>5. Diff(remote, local, i).kind = "diff" /\ Diff(remote, local, i).ref = i
    BY DEF Diff
  <2> QED
    BY <2>1, <2>4, <2>5
<1>3. CASE local # 0 /\ ~FastForward(h, h.refs[i]) /\ Unknown(h, local) = {}
  BY <1>3 DEF RefOptions, NothingNew, Unknown
<1>4. CASE local # 0 /\ ~FastForward(h, h.refs[i]) /\ Unknown(h, local) # {}
  <2>1. RefOptions(h, i) = {IF d \in Roots(h, local) THEN All(local, i)
                            ELSE Diff(h.parents[d][1], local, i) : d \in FirstUnknown(h, local)}
    BY <1>4 DEF RefOptions
  <2>2. ASSUME NEW d \in FirstUnknown(h, local), d \in Roots(h, local)
        PROVE  All(local, i).kind = "all" /\ All(local, i).ref = i
               /\ BringsRoot(h, i) /\ Selected(h, All(local, i)) = h.index
    <3>1. d \in Roots(h, local) \cap Unknown(h, local)
      BY <2>2 DEF FirstUnknown
    <3>2. Selected(h, All(local, i)) = h.index
      BY DEF All, Selected
    <3> QED
      BY <3>1, <3>2 DEF All, BringsRoot
  <2>3. ASSUME NEW d \in FirstUnknown(h, local), d \notin Roots(h, local)
        PROVE  LET o == Diff(h.parents[d][1], local, i)
               IN  o.kind = "diff" /\ o.ref = i /\ NewContents(h, i) \subseteq Selected(h, o)
    <3>1. d \in Ancestors(h)[local] /\ d \in Commits(h) /\ local \in Commits(h)
      BY <1>0, <1>4, AncestorsFacts DEF FirstUnknown, Unknown
    <3>2. h.parents[d] \in Seq(Nat) /\ h.parents[d] # <<>>
      BY <2>3, <3>1 DEF Roots, IsPush, Commits
    <3>3. h.parents[d][1] \in ParentsOf(h, d)
      BY <3>2 DEF ParentsOf
    <3>4. h.parents[d][1] \in Ancestors(h)[local]
      BY <3>1, <3>3, AncestorsFacts
    <3>5. h.parents[d][1] \notin Unknown(h, local)
      BY <3>3 DEF FirstUnknown
    <3>6. h.parents[d][1] \in Held(h, i)
      BY <3>4, <3>5 DEF Unknown, Held
    <3>7. NewContents(h, i) \subseteq Selected(h, Diff(h.parents[d][1], local, i))
      BY <3>1, <3>4, <3>6, DiffCovers
    <3> QED
      BY <3>7 DEF Diff
  <2> QED
    BY <2>1, <2>2, <2>3
<1> QED
  BY <1>1, <1>2, <1>3, <1>4

LEMMA OptionsCover ==
  ASSUME NEW h, IsPush(h), NEW o \in Options(h)
  PROVE  Covered(h, o)
<1> DEFINE giving == {i \in DOMAIN h.refs : RefOptions(h, i) # {Skip}}
<1>1. DOMAIN h.refs = 1..Len(h.refs) /\ Len(h.refs) \in Nat
  BY DEF IsPush
<1>2. \A i \in (DOMAIN h.refs) \ giving : NothingNew(h, i)
  <2>1. \A i \in (DOMAIN h.refs) \ giving : Skip \in RefOptions(h, i)
    OBVIOUS
  <2>2. Skip.kind = "skip"
    BY DEF Skip
  <2> QED
    BY <2>1, <2>2, UpdateCovered
<1>3. CASE giving = {}
  <2>1. o = Skip /\ o.kind = "skip"
    BY <1>3 DEF Options, Skip
  <2> QED
    BY <1>2, <1>3, <2>1 DEF Covered
<1>4. CASE giving # {}
  <2> DEFINE k == CHOOSE i \in giving : \A j \in giving : i <= j
  <2>1. giving \in SUBSET Nat
    BY <1>1
  <2>2. k \in giving /\ \A j \in giving : k <= j
    BY <1>4, <2>1, Least
  <2>3. o \in RefOptions(h, k)
    BY <1>4 DEF Options
  <2> HIDE DEF k
  <2>4. /\ o.kind \in {"all", "diff"} /\ o.ref = k
        /\ \A f \in NewContents(h, k) :
             f \in Selected(h, o) \/ (BringsRoot(h, k) /\ f \notin h.index)
    BY <2>2, <2>3, UpdateCovered
  <2>5. \A j \in 1..(k - 1) : NothingNew(h, j)
    <3>1. ASSUME NEW j \in 1..(k - 1) PROVE j \in (DOMAIN h.refs) \ giving
      BY <1>1, <2>2
    <3> QED
      BY <1>2, <3>1
  <2> QED
    BY <2>4, <2>5 DEF Covered
<1> QED
  BY <1>3, <1>4

(***************************************************************************)
(* Before a push the hooks get every file whose contents the remote does   *)
(* not have, of the first update that brings any (PushCovered), whatever   *)
(* the history, the index, the remote's branches and the updates are; an   *)
(* update that brings a root is checked as far as the index has its files. *)
(***************************************************************************)
THEOREM PushesAreCovered == Spec => []PushCovered
<1> DEFINE Answered == chosen = Undecided \/ (push \in Pushes /\ chosen \in Options(push))
<1>1. Init => Answered
  BY DEF Init
<1>2. Answered /\ [Next]_vars => Answered'
  <2> SUFFICES ASSUME Answered, [Next]_vars PROVE Answered'
    OBVIOUS
  <2>1. CASE UNCHANGED <<push, chosen>>
    BY <2>1
  <2>2. CASE push' \in Pushes /\ chosen' \in Options(push')
    BY <2>2
  <2>3. ASSUME NEW end, Return(end), chosen' = Ended PROVE Answered'
    BY <2>3 DEF Return, Ended
  <2>4. CASE RunsTorn \/ PlainRuns \/ MigratingStarts \/ MigratingChecks \/ ShimStarts \/ ShimChecks \/ ShimRuns
    BY <2>1, <2>2, <2>3, <2>4 DEF RunsTorn, PlainRuns, MigratingStarts, MigratingChecks,
       ShimStarts, ShimChecks, ShimRuns, CallsLegacy
  <2>5. CASE Git
    BY <2>1, <2>5 DEF Git
  <2>6. CASE Others
    <3>1. UNCHANGED call
      BY <2>6 DEF Others, ForeignWrites, ForeignMigrates, UserDeletes, UserSetsHooksPath, Outside
    <3> QED
      BY <2>1, <3>1 DEF call
  <2>7. CASE \E p \in Commands : Prek(p)
    <3>1. UNCHANGED call
      BY <2>7 DEF Prek, Begin, Install, Uninstall, Kill, Look, Move, Clear, Open, Write, Chmod,
         Unlegacy, Inspect, Remove, Restore, NotCalled, FilesKept
    <3> QED
      BY <2>1, <3>1 DEF call
  <2>8. CASE UNCHANGED vars
    BY <2>1, <2>8 DEF vars, call
  <2> QED
    BY <2>4, <2>5, <2>6, <2>7, <2>8 DEF Next, Hook
<1>3. Answered => PushCovered
  <2>1. Undecided.kind = "undecided"
    BY DEF Undecided, Skip
  <2> QED
    BY <2>1, OptionsCover, PushesAssumption DEF PushCovered
<1> HIDE DEF Answered
<1> QED
  BY <1>1, <1>2, <1>3, PTL DEF Spec

=============================================================================
