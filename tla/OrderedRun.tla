----------------------------- MODULE OrderedRun -----------------------------
(***************************************************************************)
(* What `prek run` promises about the order of hooks, without projects,    *)
(* permits, diffs or fail-fast: a hook runs at most once, after everything *)
(* that precedes it is over, and only while the run is open; a run that    *)
(* returns without an error leaves no hook active.                         *)
(***************************************************************************)
CONSTANTS
  Hooks,
  MustPrecede(_, _)   \* MustPrecede(g, h): h may not start before g is over

VARIABLES
  phase,     \* [Hooks -> Phases]
  verdict    \* "open" until the run returns

Phases == {"idle", "active", "over", "lost"}

Ready(h) ==
  /\ verdict = "open"
  /\ phase[h] = "idle"
  /\ \A g \in Hooks : MustPrecede(g, h) => phase[g] = "over"

Init ==
  /\ phase = [h \in Hooks |-> "idle"]
  /\ verdict = "open"

Begin(h) ==
  /\ Ready(h)
  /\ phase' = [phase EXCEPT ![h] = "active"]
  /\ UNCHANGED verdict

\* Hooks reported without running: skipped, without files, or a dry run.
PassOver(hooks) ==
  /\ \A h \in hooks : Ready(h)
  /\ phase' = [h \in Hooks |-> IF h \in hooks THEN "over" ELSE phase[h]]
  /\ UNCHANGED verdict

End(h) ==
  /\ verdict = "open"
  /\ phase[h] = "active"
  /\ phase' = [phase EXCEPT ![h] = "over"]
  /\ UNCHANGED verdict

\* A run may fail early, but it succeeds only when every hook is over.
Return ==
  /\ verdict = "open"
  /\ \A h \in Hooks : phase[h] # "active"
  /\ \/ verdict' = "failure"
     \/ verdict' = "success" /\ \A h \in Hooks : phase[h] = "over"
  /\ UNCHANGED phase

\* An error loses sight of everything that has not ended.
Fail(hooks) ==
  /\ verdict = "open"
  /\ verdict' = "error"
  /\ \A h \in hooks : phase[h] # "over"
  /\ phase' = [h \in Hooks |-> IF h \in hooks \/ phase[h] = "active"
                               THEN "lost" ELSE phase[h]]

Next ==
  \/ \E h \in Hooks : Begin(h) \/ End(h)
  \/ \E hooks \in SUBSET Hooks : PassOver(hooks) \/ Fail(hooks)
  \/ Return

Spec == Init /\ [][Next]_<<phase, verdict>>
=============================================================================
