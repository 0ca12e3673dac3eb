------------------------------ MODULE MCStore ------------------------------
(***************************************************************************)
(* Instances of Store for TLC.                                             *)
(***************************************************************************)
EXTENDS Store

CONSTANTS run, other, gc, c1, c2, r1, r2, e1, e2, v1

\* A `prek run` and an `install --prepare-hooks` of another configuration.
RunAndPrepare == [p \in {run, other} |-> IF p = run THEN "run" ELSE "prepare"]

OwnConfigs == [p \in {run, other} |-> IF p = run THEN c1 ELSE c2]

(***************************************************************************)
(* Both configurations name the repository; the store is empty or holds    *)
(* what one earlier installation left.                                     *)
(***************************************************************************)
SomeInit ==
  /\ Init
  /\ file = [c \in Configs |-> "good"]
  /\ \A c \in Configs : refs[c] # {}
  /\ r1 \in refs[c1]
  /\ scratch = FALSE
  /\ tracked = {c2}
  /\ \A r \in Repos \ {r1} : repo[r] = "absent"
  /\ \A e \in Envs \ {e1} : env[e] = "absent"
  /\ repo[r1] \in {"absent", "marked"}
  /\ repo[r1] = "absent" => env[e1] = "absent"
  /\ purpose = [e \in Envs |-> r1]
  /\ tools = {}
  /\ toolchain = [e \in Envs |-> "system"]

SomeFairSpec == SomeInit /\ [][Next]_vars /\ \A p \in Processes : WF_vars(Step(p))
=============================================================================
