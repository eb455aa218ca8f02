------------------------- MODULE SelfDrivePlanProofs -------------------------
(***************************************************************************)
(* SelfDrive implements PlanRun, and finishes no session with an open      *)
(* check, for every length of the guide, set of checks and decisions, any  *)
(* number of waiting handlers and whatever the user does, but for clicks   *)
(* while start awaits its preflight ("preflight" not in Acts): there the   *)
(* guide may be set back to what start has read.                           *)
(***************************************************************************)
EXTENDS SelfDriveProofs

\* Up to k the sessions are done, k is worked on, and the others wait.
OrderedAt(p, k) ==
  \A s \in Plan : p[s] = IF s < k THEN "done" ELSE IF s = k THEN "active" ELSE "pending"

Ordered(p) == \E k \in 1..(N + 1) : OrderedAt(p, k)

Starting(t) == tasks[t].op = "start"

\* What is needed of a waiting start: nothing has happened since it read.
ReadIsCurrent(t) ==
  /\ run \in {"idle", "completed"} /\ plan[tasks[t].sess] = "active"
  /\ tasks[t].read = <<plan, sent, asked, ticked>>
  /\ \A u \in Slots : Starting(u) => u = t

InOrder ==
  /\ Ordered(plan)
  /\ cur \in Plan => plan[cur] # "pending"
  /\ \A t \in Slots : tasks[t].op = "parity" => plan[tasks[t].sess] # "pending"
  /\ \A t \in Slots : Starting(t) => ReadIsCurrent(t)

\* What every step but the click on Start does to the plan, to the session
\* worked on and to the waiting handlers.
HandlersKept ==
  \A u \in Slots :
    /\ tasks'[u].op # "start"
    /\ tasks'[u].op = "parity" => tasks'[u] = tasks[u] \/ plan'[tasks'[u].sess] # "pending"

Kept ==
  /\ [PlanRuns!Next]_(PlanRuns!planVars)
  /\ cur' \in {0, cur} \/ plan'[cur'] # "pending"
  /\ HandlersKept

NoStart == \A t \in Slots : ~Starting(t)

----------------------------------------------------------------------------
\* The plan.

\* markSessionComplete finishes the active session and opens the next one.
LEMMA CompletedIs ==
  ASSUME NEW p \in Plans, Ordered(p), NEW s \in Plan, p[s] = "active"
  PROVE  Completed(p, s) = PlanRuns!Finished(p, s) /\ OrderedAt(Completed(p, s), s + 1)
<1>1. PICK k \in 1..(N + 1) : OrderedAt(p, k)
  BY DEF Ordered
<1>2. k = s
  BY <1>1, SelfDriveAssumption DEF OrderedAt, Plan
<1>3. \A x \in Plan : x < s => p[x] = "done"
  BY <1>1, <1>2 DEF OrderedAt
<1>4. \A x \in Plan : x > s => p[x] = "pending"
  BY <1>1, <1>2, SelfDriveAssumption DEF OrderedAt, Plan
<1>5. \A x \in Plan :
        Completed(p, s)[x] = IF x = s THEN "done" ELSE IF x = s + 1 THEN "active" ELSE p[x]
  <2> SUFFICES ASSUME NEW x \in Plan
               PROVE  Completed(p, s)[x] =
                        IF x = s THEN "done" ELSE IF x = s + 1 THEN "active" ELSE p[x]
    OBVIOUS
  <2>1. CASE x <= s
    BY <1>3, <2>1, SelfDriveAssumption DEF Completed, Plan
  <2>2. CASE x = s + 1
    <3>1. p[x] = "pending" /\ \A y \in Plan : y < x /\ y # s => p[y] # "pending"
      BY <1>3, <1>4, <2>2, SelfDriveAssumption DEF Plan
    <3> QED
      BY <2>2, <3>1, SelfDriveAssumption DEF Completed, Plan
  <2>3. CASE x > s + 1
    <3>1. s + 1 \in Plan /\ s + 1 < x /\ s + 1 # s /\ p[s + 1] = "pending"
      BY <1>4, <2>3, SelfDriveAssumption DEF Plan
    <3> QED
      BY <2>3, <3>1, SelfDriveAssumption DEF Completed, Plan
  <2> QED
    BY <2>1, <2>2, <2>3, SelfDriveAssumption DEF Plan
<1>6. Completed(p, s) = PlanRuns!Finished(p, s)
  BY <1>5 DEF Completed, PlanRuns!Finished, PlanRuns!Sessions, Plan
<1>7. OrderedAt(Completed(p, s), s + 1)
  BY <1>3, <1>4, <1>5, SelfDriveAssumption DEF OrderedAt, Plan
<1> QED
  BY <1>6, <1>7

LEMMA FinishedKeepsOrder ==
  ASSUME NEW p \in Plans, Ordered(p), NEW s \in Plan, p[s] = "active"
  PROVE  /\ Ordered(PlanRuns!Finished(p, s))
         /\ \A x \in Plan : p[x] # "pending" => PlanRuns!Finished(p, s)[x] # "pending"
<1>1. s + 1 \in 1..(N + 1)
  BY SelfDriveAssumption DEF Plan
<1>2. Ordered(PlanRuns!Finished(p, s))
  BY <1>1, CompletedIs DEF Ordered
<1> QED
  BY <1>2 DEF PlanRuns!Finished, PlanRuns!Sessions, Plan

\* Without an active session the plan is through.
LEMMA NoneActive ==
  ASSUME NEW p \in Plans, NEW k \in 1..(N + 1), OrderedAt(p, k), \A s \in Plan : p[s] # "active"
  PROVE  PlanRuns!AllDone(p) /\ k = N + 1
<1>1. k = N + 1
  <2>1. k \in Plan => p[k] = "active"
    BY SelfDriveAssumption DEF OrderedAt, Plan
  <2> QED
    BY <2>1, SelfDriveAssumption DEF Plan
<1> QED
  BY <1>1, SelfDriveAssumption DEF OrderedAt, Plan, PlanRuns!AllDone, PlanRuns!Sessions

\* The steps of PlanRun keep the order, and no session is put back.
LEMMA PlanStepKeepsOrder ==
  ASSUME plan \in Plans, Ordered(plan), [PlanRuns!Next]_(PlanRuns!planVars)
  PROVE  Ordered(plan') /\ \A x \in Plan : plan[x] # "pending" => plan'[x] # "pending"
<1>1. CASE plan' = plan
  BY <1>1
<1>2. CASE \E s \in Plan : PlanRuns!Finish(s)
  BY <1>2, FinishedKeepsOrder DEF PlanRuns!Finish
<1> QED
  BY <1>1, <1>2 DEF PlanRuns!Next, PlanRuns!planVars, PlanRuns!Begin, PlanRuns!Hold,
     PlanRuns!Resume, PlanRuns!Complete, PlanRuns!Sessions, Plan

LEMMA KeptKeepsOrder ==
  ASSUME Held, InOrder, NoStart, Kept
  PROVE  InOrder'
<1>1. plan \in Plans /\ Ordered(plan)
  BY DEF Held, InOrder
<1>2. Ordered(plan') /\ \A x \in Plan : plan[x] # "pending" => plan'[x] # "pending"
  BY <1>1, PlanStepKeepsOrder DEF Kept
<1>3. cur' \in Plan => plan'[cur'] # "pending"
  BY <1>2, SelfDriveAssumption DEF Kept, InOrder, Plan
<1>4. ASSUME NEW t \in Slots, tasks'[t].op = "parity"
      PROVE  plan'[tasks'[t].sess] # "pending"
  <2>1. CASE tasks'[t] = tasks[t]
    <3>1. tasks[t].sess \in Plan /\ plan[tasks[t].sess] # "pending"
      BY <1>4, <2>1 DEF Held, Handlers, Fit, InOrder
    <3> QED
      BY <1>2, <2>1, <3>1
  <2> QED
    BY <1>4, <2>1 DEF Kept, HandlersKept
<1>5. \A t \in Slots : tasks'[t].op # "start"
  BY DEF Kept, HandlersKept
<1> QED
  BY <1>2, <1>3, <1>4, <1>5 DEF InOrder, Starting

----------------------------------------------------------------------------
\* What handlers are made of.

LEMMA DoneKept ==
  ASSUME Held, NoStart, NEW t \in Slots, Done(t)
  PROVE  HandlersKept
BY DEF Held, Handlers, HandlersKept, NoStart, Starting, Done, Free, Task

LEMMA AwaitKept ==
  ASSUME Held, NoStart, NEW t \in Slots, NEW op \in Ops \ {"start"}, NEW ph, NEW s,
         op = "parity" => plan'[s] # "pending", Await(t, op, ph, s)
  PROVE  HandlersKept
BY DEF Held, Handlers, HandlersKept, NoStart, Starting, Await, Task

LEMMA HoldKept ==
  ASSUME UNCHANGED plan, run' \in {run, "paused", "idle"}
  PROVE  [PlanRuns!Next]_(PlanRuns!planVars)
BY DEF PlanRuns!Next, PlanRuns!Hold, PlanRuns!planVars

LEMMA SendKept ==
  ASSUME NEW b, Send(b)
  PROVE  run' \in {run, "paused", "idle"}
BY DEF Send

LEMMA PauseKept ==
  ASSUME Held, NoStart, NEW t \in Slots, HandlePause(t)
  PROVE  Kept
BY DoneKept, HoldKept DEF HandlePause, Kept, guide

LEMMA PromptKept ==
  ASSUME Held, NoStart, NEW t \in Slots, NEW ph, Prompt(t, ph)
  PROVE  Kept
BY DoneKept, HoldKept, SendKept DEF Prompt, Kept, guide

LEMMA VerifyKept ==
  ASSUME Held, NoStart, NEW t \in Slots, HandleVerify(t)
  PROVE  Kept
<1>1. CASE ~(pinned /\ cur \in Plan)
  BY <1>1, PauseKept DEF HandleVerify
<1>2. CASE pinned /\ cur \in Plan
  BY <1>2, DoneKept, HoldKept, SendKept DEF HandleVerify, Kept
<1> QED
  BY <1>1, <1>2

LEMMA RepairKept ==
  ASSUME Held, NoStart, NEW t \in Slots, NEW b, Repair(t, b)
  PROVE  Kept
<1>1. CASE ~(fixes < MaxFix)
  BY <1>1, PauseKept DEF Repair
<1>2. CASE fixes < MaxFix
  BY <1>2, DoneKept, HoldKept, SendKept DEF Repair, Kept, guide
<1> QED
  BY <1>1, <1>2

LEMMA RecheckKept ==
  ASSUME Held, NoStart, NEW t \in Slots, HandleRecheck(t)
  PROVE  Kept
<1>1. CASE HandlePause(t) \/ HandleVerify(t)
  BY <1>1, PauseKept, VerifyKept
<1>2. CASE Send(FALSE) /\ Done(t) /\ UNCHANGED <<cur, pins, fixes, guide>>
  BY <1>2, DoneKept, HoldKept, SendKept DEF Kept, guide
<1> QED
  BY <1>1, <1>2 DEF HandleRecheck

\* The plan handleAdvance goes on with: as it was, or with a session done.
Marked(p) == p = plan \/ \E s \in Plan : plan[s] = "active" /\ p = Completed(plan, s)

LEMMA MarkedIs ==
  ASSUME Held, InOrder, NEW p, Marked(p)
  PROVE  /\ p \in Plans /\ Ordered(p)
         /\ \/ p = plan
            \/ \E s \in Plan : /\ plan[s] = "active" /\ p = PlanRuns!Finished(plan, s)
                               /\ OrderedAt(p, s + 1)
<1>1. plan \in Plans /\ Ordered(plan)
  BY DEF Held, InOrder
<1>2. CASE p = plan
  BY <1>1, <1>2
<1>3. ASSUME NEW s \in Plan, plan[s] = "active", p = Completed(plan, s)
      PROVE  /\ p \in Plans /\ Ordered(p)
             /\ p = PlanRuns!Finished(plan, s) /\ OrderedAt(p, s + 1)
  <2>1. p = PlanRuns!Finished(plan, s) /\ OrderedAt(p, s + 1)
    BY <1>1, <1>3, CompletedIs
  <2>2. s + 1 \in 1..(N + 1)
    BY SelfDriveAssumption DEF Plan
  <2> QED
    BY <1>1, <1>3, <2>1, <2>2, CompletedPlan DEF Ordered
<1> QED
  BY <1>2, <1>3 DEF Marked

LEMMA MarkedStep ==
  ASSUME Held, InOrder, NEW p, Marked(p), plan' = p, run' \in {run, "paused"}
  PROVE  [PlanRuns!Next]_(PlanRuns!planVars)
<1>1. CASE p = plan
  BY <1>1, HoldKept
<1>2. ASSUME NEW s \in Plan, plan[s] = "active", p = PlanRuns!Finished(plan, s)
      PROVE  PlanRuns!Finish(s)
  BY <1>2 DEF PlanRuns!Finish
<1> QED
  BY <1>1, <1>2, MarkedIs DEF PlanRuns!Next, PlanRuns!Sessions, Plan

\* startNextSession calls the run complete only if the plan is through.
LEMMA NextSessionKept ==
  ASSUME Held, InOrder, NoStart, NEW t \in Slots, NEW p, Marked(p), plan' = p, NextSession(t, p)
  PROVE  Kept
<1> DEFINE open == {s \in Plan : p[s] = "active"}
<1>1. p \in Plans /\ Ordered(p)
  BY MarkedIs
<1>2. CASE open = {}
  <2>1. run' = "completed" /\ Await(t, "finish", "none", 0) /\ UNCHANGED cur
    BY <1>2 DEF NextSession
  <2>2. \A s \in Plan : p[s] # "active"
    BY <1>2
  <2>3. CASE p = plan
    <3>1. PlanRuns!AllDone(plan)
      BY <1>1, <2>2, <2>3, NoneActive DEF Ordered
    <3> QED
      BY <2>1, <2>3, <3>1, AwaitKept DEF Kept, Ops, PlanRuns!Next, PlanRuns!Complete
  <2>4. ASSUME NEW s \in Plan, plan[s] = "active", p = PlanRuns!Finished(plan, s),
               OrderedAt(p, s + 1)
        PROVE  Kept
    <3>1. s + 1 \in 1..(N + 1)
      BY SelfDriveAssumption DEF Plan
    <3>2. s + 1 = N + 1
      BY <1>1, <2>2, <2>4, <3>1, NoneActive
    <3>3. PlanRuns!Finish(s)
      BY <2>1, <2>4, <3>2, SelfDriveAssumption DEF PlanRuns!Finish, Plan
    <3> QED
      BY <2>1, <3>3, AwaitKept DEF Kept, Ops, PlanRuns!Next, PlanRuns!Sessions, Plan
  <2> QED
    BY <2>3, <2>4, MarkedIs
<1>3. CASE open # {}
  <2>1. Least(open) \in open
    BY <1>3, LeastIs
  <2>2. cur' = Least(open) /\ Await(t, "gate", "none", Least(open)) /\ UNCHANGED run
    BY <1>3 DEF NextSession
  <2>3. plan'[cur'] # "pending"
    BY <2>1, <2>2
  <2> QED
    BY <2>2, <2>3, MarkedStep, AwaitKept DEF Kept, Ops
<1> QED
  BY <1>2, <1>3

LEMMA StartNextKept ==
  ASSUME Held, InOrder, NoStart, NEW t \in Slots, StartNextSession(t)
  PROVE  Kept
<1>1. CASE ~pinned
  BY <1>1, PauseKept DEF StartNextSession
<1>2. CASE pinned
  BY <1>2, NextSessionKept DEF StartNextSession, Marked, guide
<1> QED
  BY <1>1, <1>2 DEF Held

LEMMA MarkKept ==
  ASSUME Held, InOrder, NoStart, NEW t \in Slots, NEW prev, NEW p, Marked(p), AfterMark(t, prev, p)
  PROVE  Kept
<1>1. plan' = p
  BY DEF AfterMark
<1>2. CASE NextSession(t, p)
  BY <1>1, <1>2, NextSessionKept
<1>3. CASE Send(FALSE) /\ Done(t) /\ UNCHANGED <<cur, fixes>>
  <2>1. run' \in {run, "paused"}
    BY <1>3 DEF Send
  <2> QED
    BY <1>1, <1>3, <2>1, MarkedStep, DoneKept DEF Kept
<1> QED
  BY <1>2, <1>3 DEF AfterMark

LEMMA AttemptKept ==
  ASSUME Held, InOrder, NoStart, NEW t \in Slots, cur \in Plan, NEW prev, NEW now,
         AttemptMark(t, prev, now)
  PROVE  Kept
<1>1. plan[cur] # "pending" /\ plan[cur] \in {"pending", "active", "done"}
  BY DEF InOrder, Held, Plans
<1>2. CASE AfterMark(t, prev, plan)
  BY <1>2, MarkKept DEF Marked
<1>3. CASE plan[cur] # "done" /\ AfterMark(t, prev, Completed(plan, cur))
  BY <1>1, <1>3, MarkKept DEF Marked
<1>4. CASE HandlePause(t)
  BY <1>4, PauseKept
<1>5. CASE /\ Await(t, "parity", prev, cur)
           /\ UNCHANGED <<run, phase, cur, pins, fixes, rounds, injected, guide, queue>>
  BY <1>1, <1>5, AwaitKept, HoldKept DEF Kept, Ops, guide
<1> QED
  BY <1>2, <1>3, <1>4, <1>5 DEF AttemptMark

LEMMA AdvanceKept ==
  ASSUME Held, InOrder, NoStart, NEW t \in Slots, NEW prev, HandleAdvance(t, prev)
  PROVE  Kept
<1>1. CASE HandlePause(t)
  BY <1>1, PauseKept
<1>2. ASSUME cur \in Plan, NEW ok \in SUBSET Checks, JudgeChecks(t, prev, ok)
      PROVE  Kept
  <2>1. HandlePause(t) \/ HandleRecheck(t) \/ AttemptMark(t, prev, ticked[cur] \cup ok)
    BY <1>2 DEF JudgeChecks
  <2> QED
    BY <1>2, <2>1, PauseKept, RecheckKept, AttemptKept
<1>3. CASE cur \in Plan /\ AttemptMark(t, prev, ticked[cur])
  BY <1>3, AttemptKept
<1> QED
  BY <1>1, <1>2, <1>3 DEF HandleAdvance

LEMMA ContinueKept ==
  ASSUME Held, InOrder, NoStart, NEW t \in Slots, NEW s, Continue(t, s)
  PROVE  Kept
<1>1. CASE HandlePause(t) \/ StartNextSession(t) \/ HandleBuildCheck(t) \/ HandleVerify(t)
  BY <1>1, PauseKept, StartNextKept, PromptKept, VerifyKept DEF HandleBuildCheck
<1>2. CASE Send(FALSE) /\ Done(t) /\ UNCHANGED <<cur, pins, rounds, plan, asked>>
  BY <1>2, DoneKept, HoldKept, SendKept DEF Kept
<1> QED
  BY <1>1, <1>2 DEF Continue

LEMMA DecisionKept ==
  ASSUME Held, InOrder, NoStart, NEW t \in Slots, NEW d, NEW prev, ExecuteDecision(t, d, prev)
  PROVE  Kept
<1>1. CASE \/ HandleAdvance(t, prev) \/ HandlePause(t) \/ HandleVerify(t) \/ Repair(t, FALSE)
           \/ HandleBuildCheck(t) \/ Prompt(t, "testing") \/ StartNextSession(t) \/ HandleRecheck(t)
  BY <1>1, AdvanceKept, PauseKept, VerifyKept, RepairKept, PromptKept, StartNextKept, RecheckKept
  DEF HandleBuildCheck
<1>2. CASE HandleAdvanceRecovery(t)
  <2>1. HandleAdvance(t, "fixing") \/ HandlePause(t) \/ Continue(t, blocker.of)
    BY <1>2 DEF HandleAdvanceRecovery
  <2> QED
    BY <2>1, AdvanceKept, PauseKept, ContinueKept
<1>3. CASE HandleAbort(t)
  BY <1>3, DoneKept, HoldKept DEF HandleAbort, Kept, guide
<1> QED
  BY <1>1, <1>2, <1>3 DEF ExecuteDecision

----------------------------------------------------------------------------
\* The actions.

LEMMA ParityKept ==
  ASSUME Held, InOrder, NoStart, NEW t \in Slots, ParityReturns(t)
  PROVE  Kept
<1> DEFINE s == tasks[t].sess
<1>1. s \in Plan /\ plan[s] # "pending" /\ plan[s] \in {"pending", "active", "done"}
  BY DEF ParityReturns, InOrder, Held, Handlers, Fit, Plans
<1>2. CASE HandlePause(t) \/ Repair(t, TRUE)
  BY <1>2, PauseKept, RepairKept
<1>3. CASE AfterMark(t, tasks[t].phase, plan)
  BY <1>3, MarkKept DEF Marked
<1>4. CASE plan[s] # "done" /\ AfterMark(t, tasks[t].phase, Completed(plan, s))
  <2>1. Marked(Completed(plan, s))
    BY <1>1, <1>4 DEF Marked
  <2> QED
    BY <1>4, <2>1, MarkKept
<1> QED
  BY <1>2, <1>3, <1>4 DEF ParityReturns

LEMMA GoOnKept ==
  ASSUME Held, InOrder, NoStart, NEW t \in Slots, GoOn(t)
  PROVE  Kept
<1>1. CASE EvaluationFails(t)
  BY <1>1, PauseKept DEF EvaluationFails
<1>2. CASE Evaluated(t)
  <2>1. \/ HandlePause(t)
        \/ Done(t) /\ UNCHANGED <<run, cur, guide>>
        \/ \E d \in Decisions : ExecuteDecision(t, d, tasks[t].phase)
    BY <1>2 DEF Evaluated
  <2> QED
    BY <2>1, PauseKept, DoneKept, HoldKept, DecisionKept DEF Kept, guide
<1>3. CASE ParityReturns(t)
  BY <1>3, ParityKept
<1>4. CASE GateReturns(t)
  <2>1. HandlePause(t) \/ (Send(FALSE) /\ Done(t) /\ UNCHANGED <<cur, plan>>)
    BY <1>4 DEF GateReturns
  <2> QED
    BY <2>1, PauseKept, DoneKept, HoldKept, SendKept DEF Kept
<1>5. CASE Finishes(t) \/ FirstGateReturns(t) \/ Stopped(t) \/ WasReset(t)
  <2>1. Done(t) /\ UNCHANGED plan /\ run' \in {run, "paused", "idle"} /\ cur' \in {0, cur}
    BY <1>5 DEF Finishes, FirstGateReturns, Stopped, WasReset, Quiet, guide
  <2> QED
    BY <2>1, DoneKept, HoldKept DEF Kept
<1>6. CASE Begun(t)
  BY <1>6, AwaitKept, HoldKept DEF Begun, Kept, Quiet, guide, Ops
<1>7. CASE Listens(t)
  <2>1. HandlersKept
    BY <1>7 DEF Listens, Held, Handlers, TaskType, HandlersKept, NoStart, Starting, Free, Task
  <2> QED
    BY <1>7, <2>1, HoldKept DEF Listens, Kept, Quiet, guide
<1>8. CASE Resumed(t)
  <2>1. CASE run' = "paused" /\ Done(t) /\ UNCHANGED <<cur, guide>>
    BY <2>1, DoneKept, HoldKept DEF Kept, guide
  <2>2. CASE Prompt(t, "recovering")
    BY <2>2, PromptKept
  <2>3. CASE ResumeSession(t, tasks[t].view)
    <3>1. CASE HandlePause(t) \/ StartNextSession(t) \/ HandleBuildCheck(t) \/ HandleVerify(t)
      BY <3>1, PauseKept, StartNextKept, PromptKept, VerifyKept DEF HandleBuildCheck
    <3>2. CASE /\ Await(t, "gate", "none", tasks[t].sess)
               /\ UNCHANGED <<run, cur, pins, rounds, injected, guide, queue>>
      BY <3>2, AwaitKept, HoldKept DEF Kept, Ops, guide
    <3> QED
      BY <2>3, <3>1, <3>2 DEF ResumeSession
  <2> QED
    BY <1>8, <2>1, <2>2, <2>3 DEF Resumed
<1> QED
  BY <1>1, <1>2, <1>3, <1>4, <1>5, <1>6, <1>7, <1>8 DEF GoOn

LEMMA TurnKept ==
  ASSUME Held, InOrder, NoStart, NEW t \in Slots, TurnCompletes(t)
  PROVE  Kept
<1>1. run' \in {run, "paused"} /\ UNCHANGED <<cur, plan>>
  BY DEF TurnCompletes, guide
<1>2. CASE UNCHANGED tasks
  BY <1>1, <1>2, HoldKept DEF Kept, HandlersKept, NoStart, Starting
<1>3. CASE Await(t, "evaluate", phase, cur)
  BY <1>1, <1>3, HoldKept, AwaitKept DEF Kept, Ops
<1> QED
  BY <1>2, <1>3 DEF TurnCompletes

LEMMA ResumeKept ==
  ASSUME Held, InOrder, NoStart, NEW t \in Slots, NEW b, ResumeWith(t, b)
  PROVE  Kept
<1>1. PlanRuns!Resume
  BY DEF ResumeWith, PlanRuns!Resume
<1>2. HandlersKept
  BY DEF ResumeWith, Held, Handlers, HandlersKept, NoStart, Starting, Task
<1> QED
  BY <1>1, <1>2 DEF ResumeWith, Kept, PlanRuns!Next

\* The clicks but the one on Start, which changes none of this.
LEMMA ClickKept ==
  ASSUME Held, InOrder, NoStart, NEW t \in Slots,
         Resume(t) \/ PickOption(t) \/ Stop(t) \/ ForceReset(t) \/ Attach(t)
  PROVE  Kept
<1>1. CASE \E b : ResumeWith(t, b)
  BY <1>1, ResumeKept
<1>2. CASE PickOption(t) /\ ~(\E b : ResumeWith(t, b))
  BY <1>2, HoldKept DEF PickOption, Kept, HandlersKept, NoStart, Starting, Quiet, guide
<1>3. CASE Stop(t) \/ ForceReset(t) \/ Attach(t)
  <2>1. /\ UNCHANGED plan /\ run' \in {run, "paused", "idle"} /\ cur' \in {0, cur}
        /\ \E op \in {"stop", "reset", "attach"} : Await(t, op, "none", 0)
    BY <1>3 DEF Stop, ForceReset, Attach, Quiet, guide
  <2> QED
    BY <2>1, AwaitKept, HoldKept DEF Kept, Ops
<1> QED
  BY <1>1, <1>2, <1>3 DEF Resume, PickOption

LEMMA UserKept ==
  ASSUME Held, InOrder, NoStart, Pause \/ Type \/ ToggleCheck \/ ProcessExits
  PROVE  Kept
<1>1. /\ UNCHANGED <<plan, cur, tasks>> /\ run' \in {run, "paused", "idle"}
  BY DEF Pause, Type, ToggleCheck, ProcessExits, Quiet, guide
<1> QED
  BY <1>1, HoldKept DEF Kept, HandlersKept, NoStart, Starting

LEMMA MarkCompleteKept ==
  ASSUME Held, InOrder, NoStart, MarkComplete
  PROVE  Kept
<1>1. PICK s \in Plan : plan[s] = "active" /\ plan' = Completed(plan, s)
  BY DEF MarkComplete
<1>2. plan' = PlanRuns!Finished(plan, s)
  BY <1>1, CompletedIs DEF Held, InOrder
<1>3. PlanRuns!Finish(s)
  BY <1>1, <1>2 DEF MarkComplete, PlanRuns!Finish
<1>4. UNCHANGED <<cur, tasks>>
  BY DEF MarkComplete
<1> QED
  BY <1>3, <1>4 DEF Kept, HandlersKept, NoStart, Starting, PlanRuns!Next, PlanRuns!Sessions, Plan

LEMMA RestartKept ==
  ASSUME Held, InOrder, Restart
  PROVE  Kept
<1>1. HandlersKept
  BY DEF Restart, HandlersKept, Free, Task
<1>2. UNCHANGED plan /\ run' \in {run, "paused", "idle"} /\ cur' \in {0, cur}
  BY DEF Restart, guide
<1> QED
  BY <1>1, <1>2, HoldKept DEF Kept

LEMMA StartKeeps ==
  ASSUME Held, InOrder, NoStart, NEW t \in Slots, Start(t)
  PROVE  InOrder' /\ [PlanRuns!Next]_(PlanRuns!planVars)
<1>1. PICK s \in Plan :
        /\ plan[s] = "active"
        /\ tasks' = [tasks EXCEPT ![t] = [Task("start", "none", s, "missing") EXCEPT
                                         !.read = <<plan, sent, asked, ticked>>]]
  BY DEF Start
<1>2. UNCHANGED <<run, cur, plan, sent, asked, ticked>> /\ run \in {"idle", "completed"}
  BY DEF Start, Quiet, guide
<1>3. tasks'[t] = [op |-> "start", phase |-> "none", sess |-> s, view |-> "missing",
                   read |-> <<plan, sent, asked, ticked>>]
  BY <1>1 DEF Held, Handlers, Task
<1>4. \A u \in Slots \ {t} : tasks'[u] = tasks[u]
  BY <1>1 DEF Held, Handlers
<1>5. \A u \in Slots : Starting(u)' => u = t
  BY <1>4 DEF NoStart, Starting
<1>6. ReadIsCurrent(t)'
  BY <1>1, <1>2, <1>3, <1>5 DEF ReadIsCurrent
<1>7. \A u \in Slots : tasks'[u].op = "parity" => plan'[tasks'[u].sess] # "pending"
  BY <1>2, <1>3, <1>4 DEF InOrder
<1>8. InOrder'
  BY <1>2, <1>5, <1>6, <1>7 DEF InOrder
<1> QED
  BY <1>2, <1>7, <1>8 DEF PlanRuns!planVars

LEMMA StartedKeeps ==
  ASSUME Held, InOrder, NEW t \in Slots, Started(t)
  PROVE  InOrder' /\ [PlanRuns!Next]_(PlanRuns!planVars)
<1>1. Starting(t) /\ ReadIsCurrent(t) /\ tasks[t].sess \in Plan
  BY DEF Started, Starting, InOrder, Held, Handlers, Fit
<1>2. plan' = plan
  BY <1>1 DEF Started, ReadIsCurrent, guide
<1>3. /\ tasks'[t].op \in {"free", "begin"} /\ \A u \in Slots \ {t} : tasks'[u] = tasks[u]
  BY DEF Started, Done, Await, Task, Free, Held, Handlers
<1>4. \A u \in Slots : tasks'[u].op # "start"
  BY <1>1, <1>3 DEF ReadIsCurrent, Starting
<1>5. \A u \in Slots : tasks'[u].op = "parity" => plan'[tasks'[u].sess] # "pending"
  BY <1>2, <1>3 DEF InOrder
<1>6. cur' \in Plan => plan'[cur'] # "pending"
  BY <1>1, <1>2 DEF Started, ReadIsCurrent, InOrder
<1>7. InOrder'
  BY <1>2, <1>4, <1>5, <1>6 DEF InOrder, Starting
<1>8. CASE run' = run
  BY <1>2, <1>7, <1>8 DEF PlanRuns!planVars
<1>9. CASE run' = "running"
  <2>1. run # "paused" /\ ~PlanRuns!AllDone(plan)
    BY <1>1 DEF ReadIsCurrent, PlanRuns!AllDone, PlanRuns!Sessions, Plan
  <2> QED
    BY <1>2, <1>7, <1>9, <2>1 DEF PlanRuns!Next, PlanRuns!Begin
<1> QED
  BY <1>7, <1>8, <1>9 DEF Started

LEMMA StepKeeps ==
  ASSUME "preflight" \notin Acts, Held, InOrder, [Next]_vars
  PROVE  InOrder' /\ [PlanRuns!Next]_(PlanRuns!planVars)
<1>1. CASE UNCHANGED vars
  BY <1>1 DEF vars, pins, guide, InOrder, Starting, ReadIsCurrent, PlanRuns!planVars
<1>2. CASE \E t \in Slots : Started(t)
  BY <1>2, StartedKeeps
<1>3. CASE NoStart /\ \E t \in Slots : Start(t)
  BY <1>3, StartKeeps
<1>4. ASSUME NoStart, Kept
      PROVE  InOrder' /\ [PlanRuns!Next]_(PlanRuns!planVars)
  BY <1>4, KeptKeepsOrder DEF Kept
<1>5. CASE NoStart /\ \E t \in Slots : GoOn(t)
  BY <1>4, <1>5, GoOnKept
<1>6. CASE NoStart /\ \E t \in Slots : TurnCompletes(t)
  BY <1>4, <1>6, TurnKept
<1>7. CASE NoStart /\ \E t \in Slots : Clicked(t)
  BY <1>3, <1>4, <1>7, ClickKept DEF Clicked
<1>8. CASE NoStart /\ (Pause \/ Type \/ ToggleCheck \/ MarkComplete \/ ProcessExits \/ Restart)
  BY <1>4, <1>8, UserKept, MarkCompleteKept, RestartKept
<1> QED
  BY <1>1, <1>2, <1>3, <1>5, <1>6, <1>7, <1>8 DEF Next, Calm, NoStart, Starting

LEMMA InitOrder ==
  ASSUME Init
  PROVE  InOrder /\ PlanRuns!Init
<1>1. OrderedAt(plan, 1) /\ 1 \in 1..(N + 1)
  BY SelfDriveAssumption DEF Init, OrderedAt, Plan
<1>2. cur \notin Plan
  BY DEF Init, Plan
<1> QED
  BY <1>1, <1>2 DEF Init, InOrder, Ordered, Starting, Free, Task, PlanRuns!Init, PlanRuns!NewPlan,
     PlanRuns!Sessions, Plan

\* The run works on the sessions of the guide in their order and is complete
\* only when all of them are done (start, startNextSession, markSessionComplete,
\* handleAdvance, resume, clearPause), unless clicks come during the preflight.
THEOREM ImplementsPlan ==
  ASSUME "preflight" \notin Acts
  PROVE  Spec => Implements
<1>1. Init => Held /\ Told /\ InOrder /\ PlanRuns!Init
  BY InitHolds, InitOrder
<1>2. (Held /\ Told /\ InOrder) /\ [Next]_vars
        => (Held /\ Told /\ InOrder)' /\ [PlanRuns!Next]_(PlanRuns!planVars)
  BY StepHolds, StepKeeps
<1> QED
  BY <1>1, <1>2, PTL DEF Spec, Implements, PlanRuns!Spec

----------------------------------------------------------------------------
\* Sessions are finished with their checks ticked.

Checked == \A s \in Plan : plan[s] # "done" /\ plan'[s] = "done" => ticked'[s] = Checks

LEMMA MarkChecked ==
  ASSUME plan \in Plans, NEW t, NEW prev, NEW s \in Plan, ticked'[s] = Checks,
         AfterMark(t, prev, plan) \/ AfterMark(t, prev, Completed(plan, s))
  PROVE  Checked
BY DEF AfterMark, Completed, Checked, Plans

LEMMA AttemptChecked ==
  ASSUME plan \in Plans, NEW t, NEW prev, NEW now, cur \in Plan, now = Checks => ticked'[cur] = Checks,
         AttemptMark(t, prev, now)
  PROVE  Checked
<1>1. CASE UNCHANGED plan
  BY <1>1 DEF Checked
<1>2. CASE now = Checks /\ AfterMark(t, prev, Completed(plan, cur))
  BY <1>2, MarkChecked
<1> QED
  BY <1>1, <1>2 DEF AttemptMark, HandlePause, AfterMark, guide

LEMMA PlanUnchanged ==
  ASSUME NEW t,
         \/ HandlePause(t) \/ HandleVerify(t) \/ HandleBuildCheck(t) \/ Prompt(t, "testing")
         \/ HandleRecheck(t) \/ Repair(t, FALSE) \/ Repair(t, TRUE) \/ StartNextSession(t)
         \/ HandleAbort(t) \/ Prompt(t, "recovering")
  PROVE  plan' = plan
BY DEF HandlePause, HandleVerify, HandleBuildCheck, Prompt, HandleRecheck, Repair,
   StartNextSession, HandleAbort, guide

LEMMA AdvanceChecked ==
  ASSUME Held, Told, NEW t, NEW prev, HandleAdvance(t, prev)
  PROVE  Checked
<1>1. plan \in Plans
  BY DEF Held
<1>2. CASE HandlePause(t)
  BY <1>2, PlanUnchanged DEF Checked
<1>3. ASSUME cur \in Plan, NEW ok \in SUBSET Checks, JudgeChecks(t, prev, ok)
      PROVE  Checked
  <2>1. CASE HandlePause(t) \/ HandleRecheck(t)
    BY <2>1, PlanUnchanged DEF Checked
  <2>2. CASE /\ ticked' = [ticked EXCEPT ![cur] = ticked[cur] \cup ok]
             /\ AttemptMark(t, prev, ticked[cur] \cup ok)
    <3>1. ticked'[cur] = ticked[cur] \cup ok
      BY <1>3, <2>2 DEF Told, Ticks
    <3> QED
      BY <1>1, <1>3, <2>2, <3>1, AttemptChecked
  <2> QED
    BY <1>3, <2>1, <2>2 DEF JudgeChecks
<1>4. CASE cur \in Plan /\ AttemptMark(t, prev, ticked[cur]) /\ UNCHANGED ticked
  BY <1>1, <1>4, AttemptChecked
<1> QED
  BY <1>2, <1>3, <1>4 DEF HandleAdvance

LEMMA GoOnChecked ==
  ASSUME Held, Told, NEW t \in Slots, GoOn(t)
  PROVE  Checked
<1>1. CASE UNCHANGED plan
  BY <1>1 DEF Checked
<1>2. CASE \E d \in Decisions : ExecuteDecision(t, d, tasks[t].phase)
  <2>1. CASE HandleAdvance(t, tasks[t].phase) \/ HandleAdvance(t, "fixing")
    BY <2>1, AdvanceChecked
  <2>2. CASE Continue(t, blocker.of)
    BY <1>1, <2>2, PlanUnchanged DEF Continue
  <2> QED
    BY <1>1, <1>2, <2>1, <2>2, PlanUnchanged DEF ExecuteDecision, HandleAdvanceRecovery
<1>3. CASE ParityReturns(t)
  <2>1. tasks[t].sess \in Plan /\ plan \in Plans
    BY <1>3 DEF ParityReturns, Held, Handlers, Fit
  <2>2. CASE HandlePause(t) \/ Repair(t, TRUE) \/ AfterMark(t, tasks[t].phase, plan)
    BY <1>1, <2>2, PlanUnchanged DEF AfterMark
  <2>3. CASE ticked'[tasks[t].sess] = Checks /\ AfterMark(t, tasks[t].phase, Completed(plan, tasks[t].sess))
    BY <2>1, <2>3, MarkChecked
  <2> QED
    BY <1>3, <2>2, <2>3 DEF ParityReturns
<1>4. CASE Resumed(t)
  BY <1>1, <1>4, PlanUnchanged DEF Resumed, ResumeSession, guide
<1>5. CASE EvaluationFails(t) \/ GateReturns(t) \/ Finishes(t) \/ Begun(t) \/ FirstGateReturns(t)
           \/ Listens(t) \/ Stopped(t) \/ WasReset(t)
  BY <1>1, <1>5, PlanUnchanged
  DEF EvaluationFails, GateReturns, Finishes, Begun, FirstGateReturns, Listens, Stopped, WasReset,
      Quiet, guide
<1>6. CASE Evaluated(t)
  BY <1>1, <1>2, <1>6, PlanUnchanged DEF Evaluated, guide
<1> QED
  BY <1>3, <1>4, <1>5, <1>6 DEF GoOn

LEMMA StepChecked ==
  ASSUME "preflight" \notin Acts, Held, Told, InOrder, [Next]_vars
  PROVE  Checked
<1>1. CASE UNCHANGED plan
  BY <1>1 DEF Checked
<1>2. CASE \E t \in Slots : Started(t)
  BY <1>1, <1>2 DEF Started, InOrder, Starting, ReadIsCurrent, guide
<1>3. CASE \E t \in Slots : GoOn(t)
  BY <1>3, GoOnChecked
<1>4. CASE \/ \E t \in Slots : TurnCompletes(t) \/ Clicked(t)
           \/ Pause \/ Type \/ ToggleCheck \/ ProcessExits \/ Restart \/ UNCHANGED vars
  BY <1>1, <1>4 DEF TurnCompletes, Clicked, Start, Resume, PickOption, ResumeWith, Stop, ForceReset,
     Attach, Pause, Type, ToggleCheck, ProcessExits, Restart, vars, Quiet, guide
<1>5. CASE MarkComplete
  BY <1>5 DEF MarkComplete, Completed, Checked, Held, Plans
<1> QED
  BY <1>2, <1>3, <1>4, <1>5 DEF Next

\* A session becomes done only with all its checks ticked at that moment: by
\* attemptMarkSessionComplete before or after the parity gate, or by the card.
THEOREM SessionsDoneAreChecked ==
  ASSUME "preflight" \notin Acts
  PROVE  Spec => DoneIsChecked
<1>1. Init => Held /\ Told /\ InOrder
  BY InitHolds, InitOrder
<1>2. (Held /\ Told /\ InOrder) /\ [Next]_vars => (Held /\ Told /\ InOrder)'
  BY StepHolds, StepKeeps
<1>3. (Held /\ Told /\ InOrder) /\ [Next]_vars => [Checked]_vars
  BY StepChecked
<1> QED
  BY <1>1, <1>2, <1>3, PTL DEF Spec, DoneIsChecked, Checked
=============================================================================
