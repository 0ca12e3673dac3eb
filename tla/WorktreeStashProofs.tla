------------------------- MODULE WorktreeStashProofs -------------------------
(***************************************************************************)
(* Proofs about WorktreeStash for any number of hunks and files.           *)
(***************************************************************************)
EXTENDS WorktreeStash, TLAPS

Critical == PreparePlaces \cup RestorePlaces

(***************************************************************************)
(* The mutex of the state: a thread is between two git commands exactly    *)
(* when it holds the lock.                                                 *)
(***************************************************************************)
LockInv ==
  /\ pc \in [Threads -> Places]
  /\ stateLock \in Threads \cup {"free"}
  /\ \A t \in Threads : pc[t] \in Critical => stateLock = t

(***************************************************************************)
(* Taking the state is what makes a restore unique.                        *)
(***************************************************************************)
OnceInv ==
  /\ attempts \in Nat
  /\ attempts <= 1
  /\ state # "taken" => attempts = 0
  /\ pc["main"] = "save" => state = "absent"

LEMMA LockStep == LockInv /\ [Next]_vars => LockInv'
<1> SUFFICES ASSUME LockInv, [Next]_vars PROVE LockInv'
  OBVIOUS
<1> USE DEF LockInv, Critical, PreparePlaces, RestorePlaces, Places, Threads, At, Go, exiting
<1>1. CASE Register
  BY <1>1 DEF Register
<1>2. CASE Enter
  BY <1>2 DEF Enter
<1>3. CASE ClearIntent
  BY <1>3 DEF ClearIntent
<1>4. CASE SavePatch
  BY <1>4 DEF SavePatch
<1>5. CASE Checkout
  BY <1>5 DEF Checkout
<1>6. CASE LeavePrepare
  BY <1>6 DEF LeavePrepare, LockAfterSave
<1>7. CASE HooksReturn \/ Returned \/ Return \/ HookWrites \/ Kill \/ Interrupt
  BY <1>7 DEF HooksReturn, Returned, Return, HookWrites, Kill, Interrupt
<1>8. ASSUME NEW t \in Threads, TakeState(t) PROVE LockInv'
  BY <1>8 DEF TakeState, After
<1>9. ASSUME NEW t \in Threads, Apply(t) \/ Reset(t) \/ Recheckout(t) \/ Reapply(t)
      PROVE  LockInv'
  BY <1>9 DEF Apply, Reset, Recheckout, Reapply
<1>10. ASSUME NEW t \in Threads, RestoreIntent(t) PROVE LockInv'
  BY <1>10 DEF RestoreIntent, After
<1>11. ASSUME NEW t \in Threads, LockExit(t) \/ Drain(t) \/ Exit(t) PROVE LockInv'
  BY <1>11 DEF LockExit, Drain, Exit
<1>12. CASE UNCHANGED vars
  BY <1>12 DEF vars
<1> QED
  BY <1>1, <1>2, <1>3, <1>4, <1>5, <1>6, <1>7, <1>8, <1>9, <1>10, <1>11, <1>12
     DEF Next, Main, Restore, Ended

LEMMA LockInvariant == Spec => []LockInv
<1>1. Init => LockInv
  BY DEF Init, LockInv, Critical, PreparePlaces, RestorePlaces, Places, Threads
<1> QED
  BY <1>1, LockStep, PTL DEF Spec

(***************************************************************************)
(* Preparation and restoration never overlap, whatever commands fail and   *)
(* whenever the interrupt comes.                                           *)
(***************************************************************************)
THEOREM Exclusive == Spec => []MutationsExclusive
<1>1. LockInv => MutationsExclusive
  BY DEF LockInv, MutationsExclusive, Critical
<1> QED
  BY <1>1, LockInvariant, PTL

(***************************************************************************)
(* The patch is restored at most once.                                     *)
(***************************************************************************)
THEOREM Once == Spec => []RestoredOnce
<1>1. Init => OnceInv
  BY DEF Init, OnceInv
<1>2. LockInv /\ OnceInv /\ [Next]_vars => OnceInv'
  <2> SUFFICES ASSUME LockInv, OnceInv, [Next]_vars PROVE OnceInv'
    OBVIOUS
  <2> USE DEF OnceInv, LockInv, Threads, At, Go
  <2>1. CASE Register
    BY <2>1 DEF Register
  <2>2. ASSUME NEW t \in Threads, TakeState(t) PROVE OnceInv'
    BY <2>2 DEF TakeState, StateTaken, After
  <2>3. ASSUME UNCHANGED <<state, attempts>>, pc'["main"] = "save" => pc["main"] = "save"
        PROVE  OnceInv'
    BY <2>3
  <2>4. CASE Enter \/ ClearIntent \/ SavePatch \/ Checkout \/ LeavePrepare
    BY <2>3, <2>4 DEF Enter, ClearIntent, SavePatch, Checkout, LeavePrepare, stash
  <2>5. CASE HooksReturn \/ Returned \/ Return
    BY <2>3, <2>5 DEF HooksReturn, Returned, Return, stash
  <2>6. ASSUME NEW t \in Threads, Apply(t) \/ Reset(t) \/ Recheckout(t) \/ Reapply(t)
        PROVE  OnceInv'
    BY <2>3, <2>6 DEF Apply, Reset, Recheckout, Reapply, stash
  <2>7. ASSUME NEW t \in Threads, RestoreIntent(t) PROVE OnceInv'
    BY <2>3, <2>7 DEF RestoreIntent, After, stash
  <2>8. ASSUME NEW t \in Threads, LockExit(t) \/ Drain(t) \/ Exit(t) PROVE OnceInv'
    BY <2>3, <2>8 DEF LockExit, Drain, Exit, stash
  <2>9. CASE HookWrites \/ Kill \/ Interrupt \/ UNCHANGED vars
    BY <2>3, <2>9 DEF HookWrites, Kill, Interrupt, stash, vars
  <2> QED
    BY <2>1, <2>2, <2>4, <2>5, <2>6, <2>7, <2>8, <2>9 DEF Next, Main, Restore, Ended
<1>3. OnceInv => RestoredOnce
  BY DEF OnceInv, RestoredOnce
<1> QED
  BY <1>1, <1>2, <1>3, LockInvariant, PTL DEF Spec

-----------------------------------------------------------------------------
(***************************************************************************)
(* Before the patch exists nothing has touched the user's text: no command *)
(* runs, and no restore has a patch to apply.                              *)
(***************************************************************************)
Untouched ==
  /\ ~saved
  /\ ~live
  /\ \A h \in user : work[h] = "user"
  /\ \A h \in user : index[h] = "staged"
  /\ \A t \in Threads : pc[t] \notin {"apply", "reset", "recheckout", "reapply"}
  /\ pc["main"] \notin {"checkout", "hooks"}
  /\ pc["main"] = "leave" => result = "error"

SafeInv ==
  /\ user \subseteq Hunks
  /\ work \in [Hunks -> Texts]
  /\ index \in [Hunks -> Texts]
  /\ pc["main"] \in {"save", "enter", "rm", "patch"} \/ ~ (user \subseteq patch) => Untouched

LEMMA SafeStep == LockInv /\ SafeInv /\ [Next]_vars => SafeInv'
<1> SUFFICES ASSUME LockInv, SafeInv, [Next]_vars PROVE SafeInv'
  OBVIOUS
<1> USE DEF SafeInv, LockInv, Untouched, Threads, At, Go, Texts
\* The three steps that matter: the patch, the checkout and the restore's choice.
<1>1. CASE SavePatch
  <2>1. Untouched /\ user \subseteq Dirty
    BY <1>1 DEF SavePatch, Dirty
  <2>2. pc'["main"] \in {"checkout", "leave"} /\ pc'["handler"] = pc["handler"]
    BY <1>1 DEF SavePatch
  <2>3. UNCHANGED <<user, work, index, live>>
    BY <1>1 DEF SavePatch, history, files, hooks
  <2>4. user' \subseteq patch' \/ (~saved' /\ pc'["main"] = "leave" /\ result' = "error")
    BY <1>1, <2>1, <2>3 DEF SavePatch
  <2> QED
    BY <2>1, <2>2, <2>3, <2>4
<1>2. CASE Checkout
  BY <1>2 DEF Checkout, CheckedOut, history
<1>3. ASSUME NEW t \in Threads, TakeState(t) PROVE SafeInv'
  BY <1>3 DEF TakeState, After, history, files, hooks
<1>4. CASE LeavePrepare
  BY <1>4 DEF LeavePrepare, LockAfterSave, history, files, stash
<1>5. CASE Register \/ Enter \/ ClearIntent
  BY <1>5 DEF Register, Enter, ClearIntent, history, files, hooks, stash
<1>6. CASE HooksReturn \/ Returned \/ Return \/ Kill \/ Interrupt \/ UNCHANGED vars
  BY <1>6 DEF HooksReturn, Returned, Return, Kill, Interrupt, vars, history, files, hooks, stash
<1>7. CASE HookWrites
  BY <1>7 DEF HookWrites, history, files, stash
<1>8. ASSUME NEW t \in Threads, Apply(t) \/ Reapply(t) PROVE SafeInv'
  <2>1. ~Untouched
    BY <1>8 DEF Apply, Reapply
  <2>2. user' \subseteq patch' /\ index' = index
    BY <1>8, <2>1 DEF Apply, Reapply, history, stash
  <2>3. work' \in [Hunks -> Texts]
    BY <1>8 DEF Apply, Reapply, Patched
  <2>4. pc'["main"] \notin {"save", "enter", "rm", "patch"}
    BY <1>8, <2>1 DEF Apply, Reapply
  <2>5. user' \subseteq Hunks
    BY <1>8 DEF Apply, Reapply, history
  <2> QED
    BY <2>2, <2>3, <2>4, <2>5
<1>9. ASSUME NEW t \in Threads, Reset(t) \/ Recheckout(t) PROVE SafeInv'
  <2>1. ~Untouched
    BY <1>9 DEF Reset, Recheckout
  <2>2. user' \subseteq patch' /\ user' \subseteq Hunks
    BY <1>9, <2>1 DEF Reset, Recheckout, history, stash
  <2>3. work' \in [Hunks -> Texts] /\ index' \in [Hunks -> Texts]
    BY <1>9 DEF Reset, Recheckout, CheckedOut, IndexReset
  <2>4. pc'["main"] \notin {"save", "enter", "rm", "patch"}
    BY <1>9, <2>1 DEF Reset, Recheckout
  <2> QED
    BY <2>2, <2>3, <2>4
\* A thread goes somewhere where nothing is read or written.
<1>a. ASSUME UNCHANGED <<user, work, index, patch, saved, live, result>>,
             NEW t \in Threads, NEW place \in {"take", "drain", "exit", "returned"},
             pc' = [pc EXCEPT ![t] = place] \/ pc' = pc
      PROVE  SafeInv'
  BY <1>a
<1>10. ASSUME NEW t \in Threads, RestoreIntent(t) PROVE SafeInv'
  <2>1. UNCHANGED <<user, work, index, patch, saved, live, result>>
    BY <1>10 DEF RestoreIntent, history, stash, hooks
  <2> QED
    BY <1>10, <1>a, <2>1 DEF RestoreIntent, After
<1>11. ASSUME NEW t \in Threads, LockExit(t) \/ Drain(t) \/ Exit(t) PROVE SafeInv'
  <2>1. UNCHANGED <<user, work, index, patch, saved, live, result>>
    BY <1>11 DEF LockExit, Drain, Exit, history, files, stash, hooks
  <2>2. PICK place \in {"take", "drain", "exit", "returned"} :
          pc' = [pc EXCEPT ![t] = place] \/ pc' = pc
    BY <1>11 DEF LockExit, Drain, Exit
  <2> QED
    BY <1>a, <2>1, <2>2
<1> QED
  BY <1>1, <1>2, <1>3, <1>4, <1>5, <1>6, <1>7, <1>8, <1>9, <1>10, <1>11
     DEF Next, Main, Restore, Ended

LEMMA SafeInvariant == Spec => []SafeInv
<1>1. Init => SafeInv
  <2> SUFFICES ASSUME Init PROVE SafeInv
    OBVIOUS
  <2>1. user \subseteq Hunks /\ \A h \in user : work[h] = "user" /\ index[h] = "staged"
    BY DEF Init
  <2>2. work \in [Hunks -> Texts] /\ index \in [Hunks -> Texts]
    BY DEF Init, Texts
  <2>3. pc["main"] = "save" /\ pc["handler"] = "idle"
    BY DEF Init, Threads
  <2>4. ~saved /\ ~live
    BY DEF Init
  <2> QED
    BY <2>1, <2>2, <2>3, <2>4 DEF SafeInv, Untouched, Threads
<1> QED
  BY <1>1, SafeStep, LockInvariant, PTL DEF Spec

(***************************************************************************)
(* No unstaged change is ever lost, not even when the process is killed.   *)
(***************************************************************************)
THEOREM NothingLost == Spec => []Recoverable
<1>1. SafeInv => Recoverable
  BY DEF SafeInv, Untouched, Recoverable
<1> QED
  BY <1>1, SafeInvariant, PTL

-----------------------------------------------------------------------------
(***************************************************************************)
(* The end of a run with stashed changes: what is back in the worktree,    *)
(* and what the process may return.                                        *)
(***************************************************************************)

\* Somebody took the state and no restore is under way any more.
Settled ==
  /\ state = "taken"
  /\ \A t \in Threads : pc[t] \notin RestorePlaces

(***************************************************************************)
(* Where the threads are, as far as the state of the stash tells.          *)
(***************************************************************************)
FlowInv ==
  /\ pc["main"] = "save" <=> state = "absent"
  /\ pc["main"] \in PreparePlaces => state = "pending"
  /\ \A t \in Threads :
       /\ pc[t] \in RestorePlaces => state = "taken"
       /\ pc[t] = "take" => state # "absent"
       /\ pc[t] \in {"returned", "return"} => Settled
       /\ pc[t] \in {"drain", "exit"} => exitLock = t
       /\ pc[t] = "exit" => registered \/ state = "absent" \/ Settled
  /\ listLock = "free" \/ exitLock = listLock
  /\ exitLock = "free" \/ pc[exitLock] = "drain" => (registered <=> state # "absent")
  /\ exit \in {"success", "failure", "error"} => Settled
  /\ exit = "interrupted" => registered \/ state = "absent" \/ Settled

(***************************************************************************)
(* What the threads report, and what the main thread makes of it.          *)
(***************************************************************************)
NothingThrownAway == \A t \in Threads : report[t] \notin {"Reverted", "Error"}

ReportInv ==
  /\ ~interrupted => pc["handler"] = "idle"
  /\ pc["handler"] = "idle" => report["handler"] = "none"
  /\ pc["main"] = "return" /\ result = "success" => NothingThrownAway
  /\ exit = "success" => NothingThrownAway

(***************************************************************************)
(* Where the user's text is until it is back.                              *)
(***************************************************************************)
ContentInv ==
  /\ saved => user \subseteq patch
  /\ ~saved => patch = {}
  /\ state = "absent" => ChangesBack
  /\ \A t \in Threads : pc[t] = "mark" /\ report[t] # "Error" =>
       \A h \in user \ late : work[h] = "user"
  /\ Settled /\ ~RestoreFailed => ChangesBack

(***************************************************************************)
(* How far a restore that reverts the hooks has come.                      *)
(***************************************************************************)
AsReverted ==
  \A h \in Hunks \ late : index[h] = "staged" /\ work[h] = IF h \in patch THEN "user" ELSE "staged"

RevertInv ==
  \A t \in Threads :
    /\ pc[t] \in {"recheckout", "reapply"} => \A h \in Hunks \ late : index[h] = "staged"
    /\ pc[t] = "reapply" => \A h \in Hunks \ late : work[h] = "staged"
    /\ report[t] = "Reverted" => /\ pc[t] = "mark" \/ Settled
                                 /\ AsReverted

-----------------------------------------------------------------------------
LEMMA TypeStep == TypeOK /\ [Next]_vars => TypeOK'
<1> SUFFICES ASSUME TypeOK, [Next]_vars PROVE TypeOK'
  OBVIOUS
<1> USE DEF TypeOK, Texts, Markers, Reports, Results, Threads, At, Go, Report,
            history, files, stash, exiting, hooks
<1> USE DEF Places, RestorePlaces, PreparePlaces
<1>1. CASE Register
  BY <1>1 DEF Register
<1>19. CASE Enter
  BY <1>19 DEF Enter
<1>14. CASE LeavePrepare
  BY <1>14 DEF LeavePrepare, LockAfterSave
<1>15. CASE HooksReturn
  <2>1. result' \in Results /\ live' \in BOOLEAN
    BY <1>15 DEF HooksReturn
  <2> QED
    BY <1>15, <2>1 DEF HooksReturn
<1>2. CASE ClearIntent
  BY <1>2 DEF ClearIntent
<1>3. CASE SavePatch
  <2>1. patch' \subseteq Hunks /\ saved' \in BOOLEAN /\ result' \in Results
    BY <1>3 DEF SavePatch, Dirty
  <2>2. pc' \in [Threads -> Places]
    BY <1>3 DEF SavePatch
  <2> QED
    BY <1>3, <2>1, <2>2 DEF SavePatch
<1>4. CASE Checkout
  BY <1>4 DEF Checkout, CheckedOut, SavedAcrossCheckout
<1>5. CASE Returned
  BY <1>5 DEF Returned, FinalResult
<1>16. CASE Return
  BY <1>16 DEF Return
<1>17. CASE Kill
  BY <1>17 DEF Kill
<1>18. CASE Interrupt
  BY <1>18 DEF Interrupt
<1>6. CASE HookWrites
  <2>1. work' \in [Hunks -> Texts] /\ index' \in [Hunks -> Texts]
    BY <1>6 DEF HookWrites
  <2>2. marker' \in [Intents -> Markers] /\ live' \in BOOLEAN
    BY <1>6 DEF HookWrites
  <2>3. late' \subseteq Hunks \cup Intents
    <3>1. late' = late \/ \E thing \in Hunks \cup Intents : late' = Late(thing)
      BY <1>6 DEF HookWrites
    <3> QED
      BY <3>1 DEF Late
  <2> QED
    BY <1>6, <2>1, <2>2, <2>3 DEF HookWrites
<1>7. ASSUME NEW t \in Threads, TakeState(t) PROVE TypeOK'
  BY <1>7 DEF TakeState, StateTaken, After, ListLockAfter
<1>8. ASSUME NEW t \in Threads, Apply(t) \/ Reapply(t) PROVE TypeOK'
  BY <1>8 DEF Apply, Reapply, Patched
<1>9. ASSUME NEW t \in Threads, Reset(t) PROVE TypeOK'
  BY <1>9 DEF Reset, IndexReset
<1>10. ASSUME NEW t \in Threads, Recheckout(t) PROVE TypeOK'
  BY <1>10 DEF Recheckout, CheckedOut
<1>11. ASSUME NEW t \in Threads, RestoreIntent(t) PROVE TypeOK'
  BY <1>11 DEF RestoreIntent, After, ListLockAfter
<1>12. ASSUME NEW t \in Threads, LockExit(t) \/ Drain(t) \/ Exit(t) PROVE TypeOK'
  <2>1. CASE LockExit(t)
    BY <2>1 DEF LockExit
  <2>2. CASE Drain(t) /\ registered
    BY <2>2 DEF Drain
  <2>4. CASE Drain(t) /\ ~registered
    BY <2>4 DEF Drain
  <2>3. CASE Exit(t)
    BY <2>3 DEF Exit
  <2> QED
    BY <1>12, <2>1, <2>2, <2>3, <2>4
<1>13. CASE UNCHANGED vars
  BY <1>13 DEF vars
<1> QED
  BY <1>1, <1>2, <1>3, <1>4, <1>5, <1>6, <1>7, <1>8, <1>9, <1>10, <1>11, <1>12, <1>13,
     <1>14, <1>15, <1>16, <1>17, <1>18, <1>19 DEF Next, Main, Restore, Ended

(***************************************************************************)
(* Types, for any number of hunks and files.                               *)
(***************************************************************************)
THEOREM StashTyping == Spec => []TypeOK
<1>1. Init => TypeOK
  <2> SUFFICES ASSUME Init PROVE TypeOK
    OBVIOUS
  <2> USE DEF Init, Texts, Markers, Reports, Results, Threads, Places
  <2>1. user \subseteq Hunks /\ intent \subseteq Intents /\ patch \subseteq Hunks
    OBVIOUS
  <2>2. work \in [Hunks -> Texts] /\ index \in [Hunks -> Texts] /\ marker \in [Intents -> Markers]
    OBVIOUS
  <2>3. pc \in [Threads -> Places] /\ report \in [Threads -> Reports]
    OBVIOUS
  <2> QED
    BY <2>1, <2>2, <2>3 DEF TypeOK
<1> QED
  BY <1>1, TypeStep, PTL DEF Spec

-----------------------------------------------------------------------------
LEMMA FlowStep == TypeOK /\ LockInv /\ FlowInv /\ [Next]_vars => FlowInv'
<1> SUFFICES ASSUME TypeOK, LockInv, FlowInv, [Next]_vars PROVE FlowInv'
  OBVIOUS
<1> USE DEF FlowInv, Settled, Threads, At, Go, history, files, stash, exiting, hooks
<1>a. pc \in [Threads -> Places] /\ exitLock \in Threads \cup {"free"} /\ registered \in BOOLEAN
     /\ listLock \in Threads \cup {"free"}
  BY DEF TypeOK
<1>b. \A t \in Threads : pc[t] \in PreparePlaces \cup RestorePlaces => stateLock = t
  BY DEF LockInv, Critical
<1> USE <1>a, <1>b DEF RestorePlaces, PreparePlaces
<1>1. CASE Register
  BY <1>1 DEF Register
<1>2. CASE Enter
  BY <1>2, state \in {"absent", "pending", "taken"} DEF Enter, TypeOK
<1>3. CASE ClearIntent
  BY <1>3 DEF ClearIntent
<1>4. CASE SavePatch
  BY <1>4 DEF SavePatch
<1>5. CASE Checkout
  BY <1>5 DEF Checkout
<1>6. CASE LeavePrepare
  BY <1>6 DEF LeavePrepare
<1>7. CASE HooksReturn \/ HookWrites
  BY <1>7 DEF HooksReturn, HookWrites
<1>8. CASE Returned \/ Return \/ Kill \/ Interrupt
  BY <1>8 DEF Returned, Return, Kill, Interrupt
<1>9. ASSUME NEW t \in Threads, TakeState(t) PROVE FlowInv'
  BY <1>9, state \in {"absent", "pending", "taken"} DEF TakeState, StateTaken, After, ListLockAfter, TypeOK
<1>10. ASSUME NEW t \in Threads, Apply(t) \/ Reset(t) \/ Recheckout(t) \/ Reapply(t)
       PROVE  FlowInv'
  BY <1>10 DEF Apply, Reset, Recheckout, Reapply
<1>11. ASSUME NEW t \in Threads, RestoreIntent(t) PROVE FlowInv'
  BY <1>11 DEF RestoreIntent, After, ListLockAfter
<1>12. ASSUME NEW t \in Threads, LockExit(t) \/ Drain(t) \/ Exit(t) PROVE FlowInv'
  <2>1. CASE LockExit(t)
    BY <2>1 DEF LockExit
  <2>2. CASE Drain(t) /\ registered
    BY <2>2 DEF Drain
  <2>4. CASE Drain(t) /\ ~registered
    BY <2>4 DEF Drain
  <2>3. CASE Exit(t)
    BY <2>3 DEF Exit
  <2> QED
    BY <1>12, <2>1, <2>2, <2>3, <2>4
<1>13. CASE UNCHANGED vars
  BY <1>13 DEF vars
<1> QED
  BY <1>1, <1>2, <1>3, <1>4, <1>5, <1>6, <1>7, <1>8, <1>9, <1>10, <1>11, <1>12, <1>13
     DEF Next, Main, Restore, Ended

LEMMA ReportStep ==
  TypeOK /\ LockInv /\ FlowInv /\ ReportInv /\ [Next]_vars => ReportInv'
<1> SUFFICES ASSUME TypeOK, LockInv, FlowInv, ReportInv, [Next]_vars PROVE ReportInv'
  OBVIOUS
<1> USE DEF ReportInv, NothingThrownAway, FlowInv, Settled, Threads, At, Go, Report,
            history, files, stash, exiting, hooks
<1>a. pc \in [Threads -> Places] /\ report \in [Threads -> Reports]
  BY DEF TypeOK
<1> USE <1>a DEF RestorePlaces
<1>1. CASE Register \/ Enter \/ ClearIntent \/ SavePatch \/ Checkout \/ LeavePrepare
  BY <1>1 DEF Register, Enter, ClearIntent, SavePatch, Checkout, LeavePrepare
<1>2. CASE HooksReturn \/ HookWrites
  BY <1>2 DEF HooksReturn, HookWrites
<1>3. CASE Returned
  BY <1>3 DEF Returned, FinalResult
<1>4. CASE Return \/ Kill \/ Interrupt
  BY <1>4 DEF Return, Kill, Interrupt
<1>5. ASSUME NEW t \in Threads, TakeState(t) PROVE ReportInv'
  BY <1>5 DEF TakeState, After
<1>6. ASSUME NEW t \in Threads, Apply(t) \/ Reset(t) \/ Recheckout(t) \/ Reapply(t)
      PROVE  ReportInv'
  BY <1>6 DEF Apply, Reset, Recheckout, Reapply
<1>7. ASSUME NEW t \in Threads, RestoreIntent(t) PROVE ReportInv'
  BY <1>7 DEF RestoreIntent, After
<1>8. ASSUME NEW t \in Threads, LockExit(t) \/ Drain(t) \/ Exit(t) PROVE ReportInv'
  BY <1>8 DEF LockExit, Drain, Exit
<1>9. CASE UNCHANGED vars
  BY <1>9 DEF vars
<1> QED
  BY <1>1, <1>2, <1>3, <1>4, <1>5, <1>6, <1>7, <1>8, <1>9 DEF Next, Main, Restore, Ended
-----------------------------------------------------------------------------
\* Text that is not touched, and what the hooks do to it, once a restore began.
LEMMA HookTouches ==
  ASSUME TypeOK, HookWrites, state = "taken"
  PROVE  /\ late \subseteq late'
         /\ \A h \in Hunks \ late' : work'[h] = work[h] /\ index'[h] = index[h]
         /\ \A f \in Intents \ late' : marker'[f] = marker[f]
<1>1. late \subseteq late'
  BY DEF HookWrites, Late
<1>2. CASE \E h \in Hunks : /\ late' = late \cup {h}
                           /\ \/ work' = [work EXCEPT ![h] = "hook"] /\ UNCHANGED index
                              \/ index' = [index EXCEPT ![h] = work[h]] /\ UNCHANGED work
                           /\ UNCHANGED marker
  BY <1>1, <1>2 DEF TypeOK
<1>3. CASE \E f \in intent : /\ late' = late \cup {f}
                            /\ marker' = [marker EXCEPT ![f] = "added"]
                            /\ UNCHANGED <<work, index>>
  BY <1>1, <1>3 DEF TypeOK
<1>4. CASE UNCHANGED <<work, index, marker>>
  BY <1>1, <1>4
<1> QED
  BY <1>2, <1>3, <1>4 DEF HookWrites, Late, files

LEMMA ContentStep ==
  /\ TypeOK /\ LockInv /\ SafeInv /\ FlowInv /\ ContentInv
  /\ [Next]_vars
  => ContentInv'
<1> SUFFICES ASSUME TypeOK, LockInv, SafeInv, FlowInv, ContentInv, [Next]_vars
             PROVE  ContentInv'
  OBVIOUS
<1> USE DEF ContentInv, ChangesBack, RestoreFailed, Settled, Threads, At, Go, Report,
            history, files, stash, exiting, hooks
<1>a. /\ pc \in [Threads -> Places] /\ report \in [Threads -> Reports]
      /\ work \in [Hunks -> Texts] /\ user \subseteq Hunks
      /\ marker \in [Intents -> Markers] /\ intent \subseteq Intents
  BY DEF TypeOK
<1>b. \A t \in Threads : pc[t] \in RestorePlaces => state = "taken" /\ stateLock = t
  BY DEF FlowInv, LockInv, Critical
<1>c. pc["main"] \in PreparePlaces => state = "pending"
  BY DEF FlowInv
<1>d. pc["main"] # "save" => state # "absent"
  BY DEF FlowInv
<1>e. ~saved /\ user # {} => Untouched
  BY DEF SafeInv
<1> USE <1>a, <1>b DEF RestorePlaces
\* Before a restore begins only the main thread acts, and ChangesBack is not promised.
<1>1. CASE Register \/ Enter
  BY <1>1, <1>d DEF Register, Enter
<1>2. CASE ClearIntent
  BY <1>2, <1>c DEF ClearIntent, PreparePlaces
<1>3. CASE SavePatch
  <2>1. user \subseteq Dirty
    BY <1>3 DEF SavePatch, Dirty, SafeInv, Untouched
  <2> QED
    BY <1>3, <1>c, <2>1 DEF SavePatch, PreparePlaces
<1>4. CASE Checkout
  BY <1>4, <1>c DEF Checkout, SavedAcrossCheckout, PreparePlaces
<1>5. CASE LeavePrepare \/ HooksReturn \/ Returned \/ Return \/ Kill \/ Interrupt
  BY <1>5 DEF LeavePrepare, HooksReturn, Returned, Return, Kill, Interrupt
<1>6. CASE HookWrites
  <2>1. CASE state = "taken"
    BY <1>6, <2>1, HookTouches DEF HookWrites, Markers
  <2>2. CASE state = "absent"
    BY <1>6, <2>2 DEF HookWrites, FlowInv, SafeInv, Untouched
  <2>3. CASE state = "pending"
    BY <1>6, <2>3 DEF HookWrites
  <2> QED
    BY <2>1, <2>2, <2>3 DEF TypeOK
<1>7. ASSUME NEW t \in Threads, TakeState(t) PROVE ContentInv'
  <2>1. state \in {"absent", "pending", "taken"} /\ state # "absent"
    BY <1>7 DEF TakeState, TypeOK, FlowInv
  <2>2. CASE state = "pending"
    BY <1>7, <1>e, <2>2 DEF TakeState, StateTaken, Untouched
  <2>3. CASE state = "taken"
    BY <1>7, <2>3 DEF TakeState, After
  <2> QED
    BY <2>1, <2>2, <2>3
<1>8. ASSUME NEW t \in Threads, Apply(t) PROVE ContentInv'
  <2>1. user \subseteq patch
    BY <1>8, <1>e DEF Apply, Untouched
  <2> QED
    BY <1>8, <2>1 DEF Apply, Patched
<1>9. ASSUME NEW t \in Threads, Reset(t) \/ Recheckout(t) PROVE ContentInv'
  BY <1>9 DEF Reset, Recheckout
<1>10. ASSUME NEW t \in Threads, Reapply(t) PROVE ContentInv'
  BY <1>10, <1>e DEF Reapply, Patched, Untouched
<1>11. ASSUME NEW t \in Threads, RestoreIntent(t) PROVE ContentInv'
  BY <1>11 DEF RestoreIntent, After, Markers
<1>12. ASSUME NEW t \in Threads, LockExit(t) \/ Drain(t) \/ Exit(t) PROVE ContentInv'
  BY <1>12 DEF LockExit, Drain, Exit
<1>13. CASE UNCHANGED vars
  BY <1>13 DEF vars
<1> QED
  BY <1>1, <1>2, <1>3, <1>4, <1>5, <1>6, <1>7, <1>8, <1>9, <1>10, <1>11, <1>12, <1>13
     DEF Next, Main, Restore, Ended

LEMMA RevertStep ==
  TypeOK /\ LockInv /\ FlowInv /\ RevertInv /\ [Next]_vars => RevertInv'
<1> SUFFICES ASSUME TypeOK, LockInv, FlowInv, RevertInv, [Next]_vars PROVE RevertInv'
  OBVIOUS
<1> USE DEF RevertInv, AsReverted, Settled, Threads, At, Go, Report,
            history, files, stash, exiting, hooks
<1>a. /\ pc \in [Threads -> Places] /\ report \in [Threads -> Reports]
      /\ work \in [Hunks -> Texts] /\ index \in [Hunks -> Texts]
  BY DEF TypeOK
<1>b. \A t \in Threads : pc[t] \in RestorePlaces => state = "taken" /\ stateLock = t
  BY DEF FlowInv, LockInv, Critical
<1>c. pc["main"] \in PreparePlaces => state = "pending"
  BY DEF FlowInv
<1> USE <1>a, <1>b DEF RestorePlaces
<1>1. CASE Register \/ Enter
  BY <1>1 DEF Register, Enter, FlowInv
<1>12. CASE ClearIntent \/ SavePatch \/ Checkout \/ LeavePrepare
  <2>1. state = "pending" /\ state' = "pending"
    BY <1>12, <1>c DEF ClearIntent, SavePatch, Checkout, LeavePrepare, PreparePlaces
  <2>2. \A t \in Threads : pc[t] \notin RestorePlaces /\ report[t] # "Reverted"
    BY <2>1
  <2>3. report' = report
    BY <1>12 DEF ClearIntent, SavePatch, Checkout, LeavePrepare
  <2>4. \A t \in Threads : pc'[t] \notin RestorePlaces
    BY <1>12, <2>2 DEF ClearIntent, SavePatch, Checkout, LeavePrepare
  <2> QED
    BY <2>2, <2>3, <2>4
<1>2. CASE HooksReturn \/ Returned \/ Return \/ Kill \/ Interrupt
  BY <1>2 DEF HooksReturn, Returned, Return, Kill, Interrupt
<1>3. CASE HookWrites
  <2>1. CASE state = "taken"
    BY <1>3, <2>1, HookTouches DEF HookWrites
  <2>2. CASE state # "taken"
    BY <1>3, <2>2 DEF HookWrites
  <2> QED
    BY <2>1, <2>2
<1>4. ASSUME NEW t \in Threads, TakeState(t) PROVE RevertInv'
  BY <1>4 DEF TakeState, StateTaken, After
<1>5. ASSUME NEW t \in Threads, Apply(t) PROVE RevertInv'
  BY <1>5 DEF Apply
<1>6. ASSUME NEW t \in Threads, Reset(t) PROVE RevertInv'
  BY <1>6 DEF Reset, IndexReset
<1>7. ASSUME NEW t \in Threads, Recheckout(t) PROVE RevertInv'
  BY <1>7 DEF Recheckout, CheckedOut
<1>8. ASSUME NEW t \in Threads, Reapply(t) PROVE RevertInv'
  BY <1>8 DEF Reapply, Patched
<1>9. ASSUME NEW t \in Threads, RestoreIntent(t) PROVE RevertInv'
  BY <1>9 DEF RestoreIntent, After
<1>10. ASSUME NEW t \in Threads, LockExit(t) \/ Drain(t) \/ Exit(t) PROVE RevertInv'
  BY <1>10 DEF LockExit, Drain, Exit
<1>11. CASE UNCHANGED vars
  BY <1>11 DEF vars
<1> QED
  BY <1>1, <1>2, <1>3, <1>4, <1>5, <1>6, <1>7, <1>8, <1>9, <1>10, <1>11, <1>12
     DEF Next, Main, Restore, Ended

-----------------------------------------------------------------------------
\* Everything together: no two of the parts disturb each other.
LEMMA RestoreInvariant ==
  Spec => [](TypeOK /\ LockInv /\ SafeInv /\ FlowInv /\ ReportInv /\ ContentInv /\ RevertInv)
<1>1. Init => FlowInv /\ ReportInv /\ ContentInv /\ RevertInv
  <2> SUFFICES ASSUME Init PROVE FlowInv /\ ReportInv /\ ContentInv /\ RevertInv
    OBVIOUS
  <2> USE DEF Init, Threads
  <2>1. pc["main"] = "save" /\ pc["handler"] = "idle" /\ \A t \in Threads : report[t] = "none"
    OBVIOUS
  <2>2. FlowInv
    BY <2>1 DEF FlowInv, RestorePlaces, PreparePlaces
  <2>3. ReportInv
    BY <2>1 DEF ReportInv
  <2>4. ContentInv
    BY <2>1 DEF ContentInv, Settled, ChangesBack
  <2>5. RevertInv
    BY <2>1 DEF RevertInv
  <2> QED
    BY <2>2, <2>3, <2>4, <2>5
<1> QED
  BY <1>1, StashTyping, LockInvariant, SafeInvariant, FlowStep, ReportStep, ContentStep,
     RevertStep, PTL DEF Spec

(***************************************************************************)
(* A process that ends in an orderly way and reported no failed restore    *)
(* has put the user's changes back.                                        *)
(***************************************************************************)
THEOREM ChangesReturn == Spec => []RestoredAtExit
<1>1. FlowInv /\ ContentInv => RestoredAtExit
  BY DEF FlowInv, ContentInv, RestoredAtExit
<1> QED
  BY <1>1, RestoreInvariant, PTL

(***************************************************************************)
(* After a restore that threw the hooks' fixes away, or failed, the        *)
(* process does not return success.                                        *)
(***************************************************************************)
THEOREM NoSuccessAfterRevert == Spec => []RevertNeverSucceeds
<1>1. ReportInv => RevertNeverSucceeds
  BY DEF ReportInv, NothingThrownAway, RevertNeverSucceeds
<1> QED
  BY <1>1, RestoreInvariant, PTL

(***************************************************************************)
(* What a reverted run leaves is the index and the worktree of its start.  *)
(***************************************************************************)
THEOREM NothingKept == Spec => []RevertIsComplete
<1>1. RevertInv => RevertIsComplete
  BY DEF RevertInv, AsReverted, RevertIsComplete
<1> QED
  BY <1>1, RestoreInvariant, PTL
=============================================================================
