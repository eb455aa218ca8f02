------------------------------- MODULE PlanRun -------------------------------
(***************************************************************************)
(* What an automatic run over an implementation guide promises: the        *)
(* sessions of the plan are worked on one at a time and in their order,    *)
(* none is skipped or finished twice, and the run calls itself complete    *)
(* only when every one of them is done. How sessions are built, verified   *)
(* and fixed, and who asks for it, is no concern of this module; SelfDrive *)
(* implements it.                                                          *)
(***************************************************************************)
EXTENDS Naturals

CONSTANT N          \* the number of sessions of the plan

VARIABLES run, plan

planVars == <<run, plan>>

Sessions == 1..N

RunStates == {"idle", "running", "paused", "completed"}
SessionStates == {"pending", "active", "done"}

\* A new guide: the first session is active, the others wait.
NewPlan == [s \in Sessions |-> IF s = 1 THEN "active" ELSE "pending"]

\* s is done, and the one after it, if any, is next.
Finished(p, s) ==
  [x \in Sessions |-> IF x = s THEN "done" ELSE IF x = s + 1 THEN "active" ELSE p[x]]

AllDone(p) == \A s \in Sessions : p[s] = "done"

Init == run = "idle" /\ plan = NewPlan

Begin == run # "paused" /\ ~AllDone(plan) /\ run' = "running" /\ UNCHANGED plan

Hold == run' \in {"idle", "paused"} /\ UNCHANGED plan

Resume == run = "paused" /\ run' = "running" /\ UNCHANGED plan

Finish(s) ==
  /\ plan[s] = "active"
  /\ plan' = Finished(plan, s)
  /\ \/ run' \in {run, "idle", "paused"}
     \/ run' = "completed" /\ s = N

Complete == AllDone(plan) /\ run' = "completed" /\ UNCHANGED plan

Next == Begin \/ Hold \/ Resume \/ Complete \/ \E s \in Sessions : Finish(s)

Spec == Init /\ [][Next]_planVars
=============================================================================
