--------------------------- MODULE SelfDriveProofs ---------------------------
(***************************************************************************)
(* Proofs about the automatic run of module SelfDrive, for every length of *)
(* the guide, set of checks, bound and instance of the environment.        *)
(***************************************************************************)
EXTENDS SelfDrive, WellFoundedInduction, TLAPS

----------------------------------------------------------------------------
(* Type correctness. The state is split the way the operators of SelfDrive *)
(* are: Held is what handlers are made of, Told is left to the actions.     *)

TaskType == [op : Ops, phase : Phases, sess : 0..N, view : Views, read : {<<>>} \cup Reads]

\* What a waiting handler needs in order to go on.
Fit(x) ==
  /\ x \in TaskType
  /\ x.op \in {"start", "begin", "firstGate", "gate", "evaluate", "parity"} => x.sess \in Plan
  /\ x.view = "unsent" => x.sess \in Plan
  /\ x.op = "start" => x.read \in Reads

Handlers == tasks \in [Slots -> TaskType] /\ \A t \in Slots : Fit(tasks[t])

Held ==
  /\ run \in RunStates /\ phase \in Phases /\ cur \in 0..N /\ pinned \in BOOLEAN
  /\ attach \in {"live", "lost", "fresh"} /\ listening \in BOOLEAN /\ row \in BOOLEAN
  /\ mode \in [now : {"user", "auto"}, saved : {"none", "user", "auto"}]
  /\ fixes \in 0..MaxFix /\ rounds \in 0..MaxRounds /\ injected \in BOOLEAN
  /\ plan \in Plans /\ sent \subseteq Plan /\ asked \subseteq Plan /\ queue \in 0..MaxQueue
  /\ Handlers

Told ==
  /\ blocker \in [is : {"none", "open", "decided", "verifying"}, of : 0..N]
  /\ unsure \in 0..MaxUnsure /\ ticked \in Ticks

\* The least session of a set of sessions is one of them, below all others.
LEMMA LeastIs ==
  ASSUME NEW S \in SUBSET Plan, S # {}
  PROVE  Least(S) \in S /\ \A x \in S : Least(S) <= x
<1>1. S \subseteq Nat
  BY DEF Plan
<1>2. PICK m \in S : \A y \in S : ~ (<<y, m>> \in OpToRel(<, Nat))
  BY <1>1, NatLessThanWellFounded, WFMin
<1>3. \A y \in S : ~ (y < m)
  BY <1>1, <1>2 DEF OpToRel
<1>4. \A y \in S : m <= y
  BY <1>1, <1>3
<1> QED
  BY <1>4 DEF Least

LEMMA FreeFits == Fit(Free)
BY SelfDriveAssumption DEF Fit, Free, Task, TaskType, Ops, Phases, Views

LEMMA TaskFits ==
  ASSUME NEW op \in Ops \ {"start"}, NEW ph \in Phases, NEW s \in 0..N, NEW v \in Views,
         op \in {"begin", "firstGate", "gate", "evaluate", "parity"} => s \in Plan,
         v = "unsent" => s \in Plan
  PROVE  Fit(Task(op, ph, s, v))
BY DEF Fit, Task, TaskType

LEMMA OneTask ==
  ASSUME Handlers, NEW t \in Slots, NEW x, Fit(x), tasks' = [tasks EXCEPT ![t] = x]
  PROVE  Handlers'
BY DEF Handlers, Fit

LEMMA DoneFits ==
  ASSUME Handlers, NEW t \in Slots, Done(t)
  PROVE  Handlers'
BY FreeFits, OneTask DEF Done

LEMMA AwaitFits ==
  ASSUME Handlers, NEW t \in Slots, NEW op \in Ops \ {"start"}, NEW ph \in Phases, NEW s \in 0..N,
         op \in {"begin", "firstGate", "gate", "evaluate", "parity"} => s \in Plan,
         Await(t, op, ph, s)
  PROVE  Handlers'
<1>1. Fit(Task(op, ph, s, "missing"))
  BY TaskFits DEF Views
<1> QED
  BY <1>1, OneTask DEF Await

\* The scalars a handler changes, for Held': each lemma below gives its own.
LEMMA PauseHolds ==
  ASSUME Held, NEW t \in Slots, HandlePause(t)
  PROVE  Held'
<1>1. Handlers'
  BY DoneFits DEF Held, HandlePause
<1> QED
  BY <1>1 DEF Held, HandlePause, RunStates, pins, guide

LEMMA SendHolds ==
  ASSUME Held, NEW b \in BOOLEAN, Send(b)
  PROVE  run' \in RunStates /\ injected' \in BOOLEAN /\ queue' \in 0..MaxQueue
<1>1. MaxQueue \in Nat
  BY SelfDriveAssumption
<1> QED
  BY <1>1 DEF Held, Send, RunStates

LEMMA PromptHolds ==
  ASSUME Held, NEW t \in Slots, NEW ph \in Phases, Prompt(t, ph)
  PROVE  Held'
<1>1. Handlers'
  BY DoneFits DEF Held, Prompt
<1>2. run' \in RunStates /\ injected' \in BOOLEAN /\ queue' \in 0..MaxQueue
  BY SendHolds DEF Prompt
<1> QED
  BY <1>1, <1>2 DEF Held, Prompt, pins, guide

LEMMA BuildCheckHolds ==
  ASSUME Held, NEW t \in Slots, HandleBuildCheck(t)
  PROVE  Held'
<1>1. "build-checking" \in Phases
  BY DEF Phases
<1> QED
  BY <1>1, PromptHolds DEF HandleBuildCheck

LEMMA VerifyHolds ==
  ASSUME Held, NEW t \in Slots, HandleVerify(t)
  PROVE  Held'
<1>1. CASE ~(pinned /\ cur \in Plan)
  BY <1>1, PauseHolds DEF HandleVerify
<1>2. CASE pinned /\ cur \in Plan
  <2>1. Handlers'
    BY <1>2, DoneFits DEF Held, HandleVerify
  <2>2. run' \in RunStates /\ injected' \in BOOLEAN /\ queue' \in 0..MaxQueue
    BY <1>2, SendHolds DEF HandleVerify
  <2> QED
    BY <1>2, <2>1, <2>2 DEF Held, HandleVerify, Phases, pins
<1> QED
  BY <1>1, <1>2

LEMMA RepairHolds ==
  ASSUME Held, NEW t \in Slots, NEW b \in BOOLEAN, Repair(t, b)
  PROVE  Held'
<1>1. CASE ~(fixes < MaxFix)
  BY <1>1, PauseHolds DEF Repair
<1>2. CASE fixes < MaxFix
  <2>1. Handlers'
    BY <1>2, DoneFits DEF Held, Repair
  <2>2. run' \in RunStates /\ injected' \in BOOLEAN /\ queue' \in 0..MaxQueue
    BY <1>2, SendHolds DEF Repair
  <2>3. fixes' \in 0..MaxFix /\ rounds' \in 0..MaxRounds /\ phase' \in Phases
    BY <1>2, SelfDriveAssumption DEF Held, Repair, Phases
  <2> QED
    BY <1>2, <2>1, <2>2, <2>3 DEF Held, Repair, pins, guide
<1> QED
  BY <1>1, <1>2

LEMMA RecheckHolds ==
  ASSUME Held, NEW t \in Slots, HandleRecheck(t)
  PROVE  Held'
<1>1. CASE HandlePause(t) \/ HandleVerify(t)
  BY <1>1, PauseHolds, VerifyHolds
<1>2. CASE /\ rounds < MaxRounds
           /\ rounds' = rounds + 1 /\ phase' = "rechecking" /\ Send(FALSE) /\ Done(t)
           /\ UNCHANGED <<cur, pins, fixes, guide>>
  <2>1. Handlers'
    BY <1>2, DoneFits DEF Held
  <2>2. run' \in RunStates /\ injected' \in BOOLEAN /\ queue' \in 0..MaxQueue
    BY <1>2, SendHolds
  <2>3. rounds' \in 0..MaxRounds
    BY <1>2, SelfDriveAssumption DEF Held
  <2> QED
    BY <1>2, <2>1, <2>2, <2>3 DEF Held, Phases, pins, guide
<1> QED
  BY <1>1, <1>2 DEF HandleRecheck

LEMMA NextSessionHolds ==
  ASSUME Held, NEW t \in Slots, NEW p \in Plans, NextSession(t, p)
  PROVE  /\ run' \in RunStates /\ phase' \in Phases /\ cur' \in 0..N /\ fixes' \in 0..MaxFix
         /\ Handlers'
<1> DEFINE open == {s \in Plan : p[s] = "active"}
<1>1. CASE open = {}
  <2>1. Await(t, "finish", "none", 0)
    BY <1>1 DEF NextSession
  <2>2. Handlers'
    BY <2>1, AwaitFits, SelfDriveAssumption DEF Held, Ops, Phases
  <2> QED
    BY <1>1, <2>2 DEF Held, NextSession, RunStates, Phases
<1>2. CASE open # {}
  <2>1. Least(open) \in Plan
    BY <1>2, LeastIs
  <2>2. Least(open) \in 0..N
    BY <2>1, SelfDriveAssumption DEF Plan
  <2>3. Await(t, "gate", "none", Least(open))
    BY <1>2 DEF NextSession
  <2>4. Handlers'
    BY <2>1, <2>2, <2>3, AwaitFits DEF Held, Ops, Phases
  <2> QED
    BY <1>2, <2>2, <2>4, SelfDriveAssumption DEF Held, NextSession, Phases
<1> QED
  BY <1>1, <1>2

LEMMA StartNextHolds ==
  ASSUME Held, NEW t \in Slots, StartNextSession(t)
  PROVE  Held'
<1>1. CASE ~pinned
  BY <1>1, PauseHolds DEF StartNextSession
<1>2. CASE pinned
  <2>1. NextSession(t, plan) /\ plan \in Plans
    BY <1>2 DEF StartNextSession, Held
  <2> QED
    BY <1>2, <2>1, NextSessionHolds DEF Held, StartNextSession, pins, guide
<1> QED
  BY <1>1, <1>2 DEF Held

LEMMA CompletedPlan ==
  ASSUME NEW p \in Plans, NEW s
  PROVE  Completed(p, s) \in Plans
BY DEF Completed, Plans

LEMMA MarkHolds ==
  ASSUME Held, NEW t \in Slots, NEW prev, NEW p \in Plans, AfterMark(t, prev, p)
  PROVE  Held'
<1>1. plan' \in Plans /\ rounds' \in 0..MaxRounds
  BY SelfDriveAssumption DEF AfterMark
<1>2. CASE NextSession(t, p) /\ UNCHANGED <<injected, queue>>
  BY <1>1, <1>2, NextSessionHolds DEF Held, AfterMark, pins
<1>3. CASE /\ phase' \in {"testing", "committing"} /\ Send(FALSE) /\ Done(t)
           /\ UNCHANGED <<cur, fixes>>
  <2>1. Handlers'
    BY <1>3, DoneFits DEF Held
  <2>2. run' \in RunStates /\ injected' \in BOOLEAN /\ queue' \in 0..MaxQueue
    BY <1>3, SendHolds
  <2> QED
    BY <1>1, <1>3, <2>1, <2>2 DEF Held, AfterMark, Phases, pins
<1> QED
  BY <1>2, <1>3 DEF AfterMark

LEMMA AttemptHolds ==
  ASSUME Held, NEW t \in Slots, cur \in Plan, NEW prev \in Phases, NEW now,
         AttemptMark(t, prev, now)
  PROVE  Held'
<1>1. plan \in Plans /\ Completed(plan, cur) \in Plans
  BY CompletedPlan DEF Held
<1>2. CASE HandlePause(t)
  BY <1>2, PauseHolds
<1>3. CASE \E p \in Plans : AfterMark(t, prev, p)
  BY <1>3, MarkHolds
<1>4. CASE /\ Await(t, "parity", prev, cur)
           /\ UNCHANGED <<run, phase, cur, pins, fixes, rounds, injected, guide, queue>>
  <2>1. Handlers'
    BY <1>4, AwaitFits DEF Held, Ops
  <2> QED
    BY <1>4, <2>1 DEF Held, pins, guide
<1> QED
  BY <1>1, <1>2, <1>3, <1>4 DEF AttemptMark

LEMMA JudgeHolds ==
  ASSUME Held, Told, NEW t \in Slots, cur \in Plan, NEW prev \in Phases, NEW ok \in SUBSET Checks,
         JudgeChecks(t, prev, ok)
  PROVE  Held' /\ ticked' \in Ticks
<1>1. ticked[cur] \cup ok \in SUBSET Checks
  BY DEF Told, Ticks
<1>2. HandlePause(t) \/ HandleRecheck(t) \/ AttemptMark(t, prev, ticked[cur] \cup ok)
  BY DEF JudgeChecks
<1>3. Held'
  BY <1>2, PauseHolds, RecheckHolds, AttemptHolds
<1>4. ticked' = ticked \/ ticked' = [ticked EXCEPT ![cur] = ticked[cur] \cup ok]
  BY DEF JudgeChecks
<1> QED
  BY <1>1, <1>3, <1>4 DEF Told, Ticks

LEMMA AdvanceHolds ==
  ASSUME Held, Told, NEW t \in Slots, NEW prev \in Phases, HandleAdvance(t, prev)
  PROVE  Held' /\ ticked' \in Ticks
<1>1. CASE HandlePause(t) /\ UNCHANGED ticked
  BY <1>1, PauseHolds DEF Told
<1>2. CASE cur \in Plan /\ \E ok \in SUBSET Checks : JudgeChecks(t, prev, ok)
  BY <1>2, JudgeHolds
<1>3. CASE cur \in Plan /\ AttemptMark(t, prev, ticked[cur]) /\ UNCHANGED ticked
  BY <1>3, AttemptHolds DEF Told
<1> QED
  BY <1>1, <1>2, <1>3 DEF HandleAdvance

LEMMA ContinueHolds ==
  ASSUME Held, NEW t \in Slots, NEW s, Continue(t, s)
  PROVE  Held'
<1>1. CASE HandlePause(t) \/ StartNextSession(t) \/ HandleBuildCheck(t) \/ HandleVerify(t)
  BY <1>1, PauseHolds, StartNextHolds, BuildCheckHolds, VerifyHolds
<1>2. CASE /\ s \in Plan
           /\ phase' = "building" /\ fixes' = 0 /\ Send(FALSE) /\ Done(t)
           /\ sent' = sent \cup {s}
           /\ UNCHANGED <<cur, pins, rounds, plan, asked>>
  <2>1. Handlers'
    BY <1>2, DoneFits DEF Held
  <2>2. run' \in RunStates /\ injected' \in BOOLEAN /\ queue' \in 0..MaxQueue
    BY <1>2, SendHolds
  <2> QED
    BY <1>2, <2>1, <2>2, SelfDriveAssumption DEF Held, Phases, pins
<1> QED
  BY <1>1, <1>2 DEF Continue

LEMMA AdvanceRecoveryHolds ==
  ASSUME Held, Told, NEW t \in Slots, HandleAdvanceRecovery(t)
  PROVE  Held' /\ ticked' \in Ticks /\ blocker' \in {blocker, NoBlocker}
<1>1. CASE HandleAdvance(t, "fixing") /\ UNCHANGED blocker
  BY <1>1, AdvanceHolds DEF Phases
<1>2. CASE HandlePause(t) /\ UNCHANGED <<blocker, ticked>>
  BY <1>2, PauseHolds DEF Told
<1>3. CASE blocker' = NoBlocker /\ Continue(t, blocker.of) /\ UNCHANGED ticked
  BY <1>3, ContinueHolds DEF Told
<1> QED
  BY <1>1, <1>2, <1>3 DEF HandleAdvanceRecovery

LEMMA AbortHolds ==
  ASSUME Held, NEW t \in Slots, HandleAbort(t)
  PROVE  Held'
<1>1. Handlers'
  BY DoneFits DEF Held, HandleAbort
<1>2. GivenBack \subseteq {"user", "auto"}
  BY DEF Held, GivenBack, Synced
<1> QED
  BY <1>1, <1>2 DEF Held, HandleAbort, RunStates, guide

LEMMA DecisionHolds ==
  ASSUME Held, Told, NEW t \in Slots, NEW d, NEW prev \in Phases, ExecuteDecision(t, d, prev)
  PROVE  Held' /\ ticked' \in Ticks /\ blocker' \in {blocker, NoBlocker, Blocker("open", cur)}
<1>1. CASE HandleAdvance(t, prev) /\ UNCHANGED blocker
  BY <1>1, AdvanceHolds
<1>2. CASE HandleAdvanceRecovery(t)
  BY <1>2, AdvanceRecoveryHolds
<1>3. CASE HandlePause(t) /\ blocker' = Blocker("open", cur) /\ UNCHANGED ticked
  BY <1>3, PauseHolds DEF Told
<1>4. CASE /\ \/ HandleVerify(t) \/ Repair(t, FALSE) \/ HandleBuildCheck(t) \/ Prompt(t, "testing")
              \/ StartNextSession(t) \/ HandlePause(t) \/ HandleAbort(t) \/ HandleRecheck(t)
           /\ UNCHANGED <<blocker, ticked>>
  <2>1. "testing" \in Phases
    BY DEF Phases
  <2> QED
    BY <1>4, <2>1, VerifyHolds, RepairHolds, BuildCheckHolds, PromptHolds, StartNextHolds,
       PauseHolds, AbortHolds, RecheckHolds DEF Told
<1> QED
  BY <1>1, <1>2, <1>3, <1>4 DEF ExecuteDecision

LEMMA BlockerHolds ==
  ASSUME NEW s \in 0..N
  PROVE  Blocker("open", s) \in [is : {"none", "open", "decided", "verifying"}, of : 0..N]
BY DEF Blocker

LEMMA FreshHolds ==
  /\ NoBlocker \in [is : {"none", "open", "decided", "verifying"}, of : 0..N]
  /\ 0 \in 0..N /\ 0 \in 0..MaxFix /\ 0 \in 0..MaxRounds /\ 0 \in 0..MaxUnsure
  /\ 0 \in 0..MaxQueue
BY SelfDriveAssumption DEF Blocker, NoBlocker

LEMMA EvaluatedHolds ==
  ASSUME Held, Told, NEW t \in Slots, Evaluated(t)
  PROVE  Held' /\ Told'
<1>1. PICK d \in Decisions, low \in BOOLEAN :
        /\ unsure' = IF ~low THEN 0
                     ELSE IF d \in {"advance", "abort"} \/ unsure = MaxUnsure THEN unsure
                     ELSE unsure + 1
        /\ \/ HandlePause(t) /\ UNCHANGED <<blocker, ticked>>
           \/ /\ Done(t)
              /\ UNCHANGED <<run, phase, cur, pins, blocker, fixes, rounds, injected, guide,
                             ticked, queue>>
           \/ ExecuteDecision(t, d, tasks[t].phase)
  BY DEF Evaluated
<1>2. unsure' \in 0..MaxUnsure
  BY <1>1, SelfDriveAssumption DEF Told
<1>3. CASE HandlePause(t) /\ UNCHANGED <<blocker, ticked>>
  BY <1>2, <1>3, PauseHolds DEF Told
<1>4. CASE /\ Done(t)
           /\ UNCHANGED <<run, phase, cur, pins, blocker, fixes, rounds, injected, guide,
                          ticked, queue>>
  <2>1. Handlers'
    BY <1>4, DoneFits DEF Held
  <2> QED
    BY <1>2, <1>4, <2>1 DEF Held, Told, pins, guide
<1>5. CASE ExecuteDecision(t, d, tasks[t].phase)
  <2>1. tasks[t].phase \in Phases /\ cur \in 0..N
    BY DEF Held, Handlers, TaskType
  <2>2. Held' /\ ticked' \in Ticks /\ blocker' \in {blocker, NoBlocker, Blocker("open", cur)}
    BY <1>5, <2>1, DecisionHolds
  <2> QED
    BY <1>2, <2>1, <2>2, BlockerHolds, FreshHolds DEF Told
<1> QED
  BY <1>1, <1>3, <1>4, <1>5

LEMMA ParityHolds ==
  ASSUME Held, Told, NEW t \in Slots, ParityReturns(t)
  PROVE  Held' /\ Told'
<1>1. tasks[t].phase \in Phases /\ plan \in Plans /\ Completed(plan, tasks[t].sess) \in Plans
  BY CompletedPlan DEF Held, Handlers, TaskType
<1>2. \/ HandlePause(t) \/ Repair(t, TRUE) \/ AfterMark(t, tasks[t].phase, plan)
      \/ AfterMark(t, tasks[t].phase, Completed(plan, tasks[t].sess))
  BY DEF ParityReturns
<1>3. Held'
  BY <1>1, <1>2, PauseHolds, RepairHolds, MarkHolds
<1> QED
  BY <1>3 DEF ParityReturns, Told

LEMMA GateHolds ==
  ASSUME Held, Told, NEW t \in Slots, GateReturns(t)
  PROVE  Held' /\ Told'
<1>1. tasks[t].sess \in Plan /\ tasks[t].sess \in 0..N
  BY DEF GateReturns, Held, Handlers, Fit, TaskType
<1>2. CASE HandlePause(t) /\ blocker' = Blocker("open", tasks[t].sess)
  BY <1>1, <1>2, PauseHolds, BlockerHolds DEF GateReturns, Told
<1>3. CASE /\ Send(FALSE) /\ Done(t)
           /\ sent' = IF pinned THEN sent \cup {tasks[t].sess} ELSE sent
           /\ UNCHANGED <<phase, cur, pins, blocker, fixes, rounds, plan, asked>>
  <2>1. Handlers'
    BY <1>3, DoneFits DEF Held
  <2>2. run' \in RunStates /\ injected' \in BOOLEAN /\ queue' \in 0..MaxQueue
    BY <1>3, SendHolds
  <2>3. sent' \subseteq Plan
    BY <1>1, <1>3 DEF Held
  <2> QED
    BY <1>3, <2>1, <2>2, <2>3 DEF GateReturns, Held, Told, pins
<1> QED
  BY <1>2, <1>3 DEF GateReturns

LEMMA FinishHolds ==
  ASSUME Held, Told, NEW t \in Slots, Finishes(t)
  PROVE  Held' /\ Told'
<1>1. Handlers' /\ GivenBack \subseteq {"user", "auto"}
  BY DoneFits DEF Held, Finishes, GivenBack, Synced
<1> QED
  BY <1>1 DEF Finishes, Held, Told, guide

LEMMA TurnHolds ==
  ASSUME Held, Told, NEW t \in Slots, TurnCompletes(t)
  PROVE  Held' /\ Told'
<1>1. queue' \in 0..MaxQueue
  BY SelfDriveAssumption DEF TurnCompletes, Held
<1>2. CASE UNCHANGED tasks
  BY <1>1, <1>2 DEF TurnCompletes, Held, Told, Handlers, pins, guide, RunStates, Phases
<1>3. CASE cur \in Plan /\ Await(t, "evaluate", phase, cur) /\ phase' = "evaluating" /\ UNCHANGED run
  <2>1. Handlers'
    BY <1>3, AwaitFits DEF Held, Ops
  <2> QED
    BY <1>1, <1>3, <2>1 DEF TurnCompletes, Held, Told, pins, guide, Phases
<1> QED
  BY <1>2, <1>3 DEF TurnCompletes

LEMMA ExitHolds ==
  ASSUME Held, Told, ProcessExits
  PROVE  Held' /\ Told'
BY SelfDriveAssumption DEF ProcessExits, Held, Told, Handlers, pins, guide, RunStates

LEMMA StartHolds ==
  ASSUME Held, Told, NEW t \in Slots, Start(t)
  PROVE  Held' /\ Told'
<1>1. PICK s \in Plan :
        tasks' = [tasks EXCEPT ![t] = [Task("start", "none", s, "missing") EXCEPT
                                         !.read = <<plan, sent, asked, ticked>>]]
  BY DEF Start
<1> DEFINE x == [Task("start", "none", s, "missing") EXCEPT !.read = <<plan, sent, asked, ticked>>]
<1>2. <<plan, sent, asked, ticked>> \in Reads
  BY DEF Held, Told, Reads
<1> s \in 0..N
  BY SelfDriveAssumption DEF Plan
<1>3. Fit(x)
  BY <1>2 DEF Fit, TaskType, Task, Ops, Phases, Views
<1>4. Handlers'
  BY <1>1, <1>3, OneTask DEF Held
<1> QED
  BY <1>4 DEF Start, Quiet, Held, Told, pins, guide

LEMMA StartedHolds ==
  ASSUME Held, Told, NEW t \in Slots, Started(t)
  PROVE  Held' /\ Told'
<1>1. tasks[t].sess \in Plan /\ tasks[t].sess \in 0..N /\ tasks[t].read \in Reads
  BY DEF Started, Held, Handlers, Fit, TaskType
<1>2. CASE Done(t) /\ UNCHANGED <<run, phase, cur, pins, blocker, fixes, rounds, unsure, guide, ticked>>
  <2>1. Handlers'
    BY <1>2, DoneFits DEF Held
  <2> QED
    BY <1>2, <2>1 DEF Started, Held, Told, pins, guide
<1>3. CASE /\ run' = "running" /\ phase' = "preparing" /\ cur' = tasks[t].sess
           /\ plan' = tasks[t].read[1] /\ sent' = tasks[t].read[2]
           /\ asked' = tasks[t].read[3] /\ ticked' = tasks[t].read[4]
           /\ pinned' = TRUE /\ mode' = [mode EXCEPT !.saved = mode.now]
           /\ blocker' = NoBlocker /\ fixes' = 0 /\ rounds' = 0 /\ unsure' = 0
           /\ Await(t, "begin", "none", tasks[t].sess)
           /\ UNCHANGED <<attach, listening, row>>
  <2>1. Handlers'
    BY <1>1, <1>3, AwaitFits DEF Held, Ops, Phases
  <2>2. plan' \in Plans /\ sent' \subseteq Plan /\ asked' \subseteq Plan /\ ticked' \in Ticks
    BY <1>1, <1>3 DEF Reads
  <2>3. mode' \in [now : {"user", "auto"}, saved : {"none", "user", "auto"}]
    BY <1>3 DEF Held
  <2>4. fixes' \in 0..MaxFix /\ rounds' \in 0..MaxRounds /\ unsure' \in 0..MaxUnsure
    BY <1>3, SelfDriveAssumption
  <2>5. Held'
    BY <1>1, <1>3, <2>1, <2>2, <2>3, <2>4 DEF Started, Held, RunStates, Phases
  <2> QED
    BY <1>3, <2>2, <2>4, <2>5, FreshHolds DEF Told
<1> QED
  BY <1>2, <1>3 DEF Started

LEMMA BegunHolds ==
  ASSUME Held, Told, NEW t \in Slots, Begun(t)
  PROVE  Held' /\ Told'
<1>1. tasks[t].sess \in Plan /\ tasks[t].sess \in 0..N
  BY DEF Begun, Held, Handlers, Fit, TaskType
<1>2. Handlers'
  BY <1>1, AwaitFits DEF Begun, Held, Ops, Phases
<1>3. mode' \in [now : {"user", "auto"}, saved : {"none", "user", "auto"}]
  BY DEF Begun, Held, Synced
<1> QED
  BY <1>2, <1>3 DEF Begun, Quiet, Held, Told, guide

LEMMA FirstGateHolds ==
  ASSUME Held, Told, NEW t \in Slots, FirstGateReturns(t)
  PROVE  Held' /\ Told'
<1>1. tasks[t].sess \in Plan /\ tasks[t].sess \in 0..N
  BY DEF FirstGateReturns, Held, Handlers, Fit, TaskType
<1>2. Handlers'
  BY DoneFits DEF FirstGateReturns, Held
<1>3. queue' \in 0..MaxQueue
  BY SelfDriveAssumption DEF FirstGateReturns, Held
<1>4. sent' \subseteq Plan /\ run' \in RunStates /\ phase' \in Phases
  BY <1>1 DEF FirstGateReturns, Held, RunStates, Phases
<1>5. blocker' \in {blocker, Blocker("open", tasks[t].sess)}
  BY DEF FirstGateReturns
<1> QED
  BY <1>1, <1>2, <1>3, <1>4, <1>5, BlockerHolds DEF FirstGateReturns, Held, Told, pins

LEMMA PauseActionHolds ==
  ASSUME Held, Told, Pause
  PROVE  Held' /\ Told'
BY DEF Pause, Quiet, Held, Told, Handlers, pins, guide, RunStates

LEMMA ResumeHolds ==
  ASSUME Held, Told, NEW t \in Slots, NEW b, ResumeWith(t, b),
         b \in [is : {"none", "open", "decided", "verifying"}, of : 0..N]
  PROVE  Held' /\ Told'
<1>1. ViewOf(attach) \in Views /\ (ViewOf(attach) = "unsent" => cur \in Plan)
  BY DEF ViewOf, Views
<1>2. Fit(Task("resume", "none", cur, ViewOf(attach)))
  BY <1>1, TaskFits DEF Held, Ops, Phases
<1>3. Handlers'
  BY <1>2, OneTask DEF Held, ResumeWith
<1> QED
  BY <1>3 DEF ResumeWith, Held, Told, RunStates

LEMMA PickHolds ==
  ASSUME Held, Told, NEW t \in Slots, PickOption(t)
  PROVE  Held' /\ Told'
<1>1. [blocker EXCEPT !.is = "decided"] \in [is : {"none", "open", "decided", "verifying"}, of : 0..N]
  BY DEF Told
<1>2. CASE ResumeWith(t, [blocker EXCEPT !.is = "decided"])
  BY <1>1, <1>2, ResumeHolds
<1>3. CASE /\ blocker' = [blocker EXCEPT !.is = "decided"]
           /\ UNCHANGED <<run, phase, cur, pins, fixes, rounds, tasks>> /\ Quiet
  BY <1>1, <1>3 DEF Quiet, Held, Told, Handlers, pins, guide
<1> QED
  BY <1>2, <1>3 DEF PickOption

LEMMA ListensHolds ==
  ASSUME Held, Told, NEW t \in Slots, Listens(t)
  PROVE  Held' /\ Told'
<1> DEFINE x == IF tasks[t].op = "attach" THEN Free ELSE [tasks[t] EXCEPT !.op = "resumed"]
<1>1. tasks[t] \in TaskType /\ Fit(tasks[t])
  BY DEF Held, Handlers
<1>2. Fit([tasks[t] EXCEPT !.op = "resumed"])
  BY <1>1 DEF Fit, TaskType, Ops
<1>3. Fit(x) /\ tasks' = [tasks EXCEPT ![t] = x]
  BY <1>2, FreeFits DEF Listens, Held, Handlers
<1>4. Handlers'
  BY <1>3, OneTask DEF Held
<1>5. mode' \in [now : {"user", "auto"}, saved : {"none", "user", "auto"}]
  BY DEF Listens, Held, Synced
<1> QED
  BY <1>4, <1>5 DEF Listens, Quiet, Held, Told, guide

LEMMA ResumedHolds ==
  ASSUME Held, Told, NEW t \in Slots, Resumed(t)
  PROVE  Held' /\ Told'
<1>1. tasks[t] \in TaskType /\ Fit(tasks[t])
  BY DEF Held, Handlers
<1>2. CASE /\ blocker.is = "open" /\ run' = "paused" /\ Done(t)
           /\ UNCHANGED <<phase, cur, pins, blocker, fixes, rounds, injected, guide, queue>>
  <2>1. Handlers'
    BY <1>2, DoneFits DEF Held
  <2> QED
    BY <1>2, <2>1 DEF Resumed, Held, Told, pins, guide, RunStates
<1>3. CASE Prompt(t, "recovering") /\ blocker' = [blocker EXCEPT !.is = "verifying"]
  <2>1. Held'
    BY <1>3, PromptHolds DEF Phases
  <2> QED
    BY <1>3, <2>1 DEF Resumed, Told
<1>4. CASE UNCHANGED blocker /\ ResumeSession(t, tasks[t].view)
  <2>1. CASE HandlePause(t) \/ StartNextSession(t) \/ HandleBuildCheck(t) \/ HandleVerify(t)
    BY <2>1, <1>4, PauseHolds, StartNextHolds, BuildCheckHolds, VerifyHolds DEF Resumed, Told
  <2>2. CASE /\ tasks[t].view = "unsent" /\ phase' = "building" /\ fixes' = 0
             /\ Await(t, "gate", "none", tasks[t].sess)
             /\ UNCHANGED <<run, cur, pins, rounds, injected, guide, queue>>
    <3>1. tasks[t].sess \in Plan /\ tasks[t].sess \in 0..N
      BY <1>1, <2>2 DEF Fit, TaskType
    <3>2. Handlers'
      BY <2>2, <3>1, AwaitFits DEF Held, Ops, Phases
    <3> QED
      BY <1>4, <2>2, <3>2, SelfDriveAssumption DEF Resumed, Held, Told, pins, guide, Phases
  <2> QED
    BY <1>4, <2>1, <2>2 DEF ResumeSession
<1> QED
  BY <1>2, <1>3, <1>4 DEF Resumed

LEMMA StopHolds ==
  ASSUME Held, Told, NEW t \in Slots, Stop(t)
  PROVE  Held' /\ Told'
<1>1. Handlers'
  BY AwaitFits, SelfDriveAssumption DEF Stop, Held, Ops, Phases
<1>2. mode' \in [now : {"user", "auto"}, saved : {"none", "user", "auto"}]
  BY DEF Stop, Held, GivenBack, Synced
<1> QED
  BY <1>1, <1>2, FreshHolds
  DEF Stop, Quiet, Held, Told, guide, RunStates, Phases

LEMMA StoppedHolds ==
  ASSUME Held, Told, NEW t \in Slots, Stopped(t)
  PROVE  Held' /\ Told'
<1>1. Handlers'
  BY DoneFits DEF Stopped, Held
<1>2. mode' \in [now : {"user", "auto"}, saved : {"none", "user", "auto"}]
  BY DEF Stopped, Held
<1> QED
  BY <1>1, <1>2 DEF Stopped, Quiet, Held, Told, guide

LEMMA ForceResetHolds ==
  ASSUME Held, Told, NEW t \in Slots, ForceReset(t)
  PROVE  Held' /\ Told'
<1>1. Handlers'
  BY AwaitFits, SelfDriveAssumption DEF ForceReset, Held, Ops, Phases
<1> QED
  BY <1>1 DEF ForceReset, Quiet, Held, Told, guide

LEMMA WasResetHolds ==
  ASSUME Held, Told, NEW t \in Slots, WasReset(t)
  PROVE  Held' /\ Told'
<1>1. Handlers'
  BY DoneFits DEF WasReset, Held
<1>2. mode' \in [now : {"user", "auto"}, saved : {"none", "user", "auto"}]
  BY DEF WasReset, Held
<1> QED
  BY <1>1, <1>2, FreshHolds
  DEF WasReset, Held, Told, guide, RunStates, Phases

LEMMA UserHolds ==
  ASSUME Held, Told, Type \/ ToggleCheck \/ MarkComplete
  PROVE  Held' /\ Told'
<1>1. CASE Type
  BY <1>1, SelfDriveAssumption DEF Type, Held, Told, Handlers, pins, guide
<1>2. CASE ToggleCheck
  <2>1. ticked' \in Ticks
    BY <1>2 DEF ToggleCheck, Told, Ticks
  <2> QED
    BY <1>2, <2>1 DEF ToggleCheck, Held, Told, Handlers, pins, guide
<1>3. CASE MarkComplete
  <2>1. plan' \in Plans
    BY <1>3, CompletedPlan DEF MarkComplete, Held
  <2> QED
    BY <1>3, <2>1, FreshHolds DEF MarkComplete, Held, Told, Handlers, pins, RunStates
<1> QED
  BY <1>1, <1>2, <1>3

LEMMA RestartHolds ==
  ASSUME Held, Told, Restart
  PROVE  Held' /\ Told'
<1>1. Handlers'
  BY FreeFits DEF Restart, Handlers, Fit
<1> QED
  BY <1>1, FreshHolds
  DEF Restart, Held, Told, guide, RunStates, Phases

LEMMA AttachHolds ==
  ASSUME Held, Told, NEW t \in Slots, Attach(t)
  PROVE  Held' /\ Told'
<1>1. Handlers'
  BY AwaitFits, SelfDriveAssumption DEF Attach, Held, Ops, Phases
<1>2. mode' \in [now : {"user", "auto"}, saved : {"none", "user", "auto"}]
  BY DEF Attach, Held
<1> QED
  BY <1>1, <1>2 DEF Attach, Quiet, Held, Told, guide

LEMMA StepHolds ==
  ASSUME Held, Told, [Next]_vars
  PROVE  Held' /\ Told'
<1>1. CASE UNCHANGED vars
  BY <1>1 DEF vars, Held, Told, Handlers, pins, guide
<1>2. CASE \E t \in Slots : Started(t)
  BY <1>2, StartedHolds
<1>3. CASE \E t \in Slots : GoOn(t)
  <2>1. PICK t \in Slots : GoOn(t)
    BY <1>3
  <2>2. CASE EvaluationFails(t)
    BY <2>2, PauseHolds DEF EvaluationFails, Told
  <2>3. CASE Resumed(t)
    BY <2>3, ResumedHolds
  <2> QED
    BY <2>1, <2>2, <2>3, EvaluatedHolds, ParityHolds, GateHolds, FinishHolds, BegunHolds,
       FirstGateHolds, ListensHolds, StoppedHolds, WasResetHolds DEF GoOn
<1>4. CASE \E t \in Slots : TurnCompletes(t)
  BY <1>4, TurnHolds
<1>5. CASE \E t \in Slots : Clicked(t)
  <2>1. PICK t \in Slots : Clicked(t)
    BY <1>5
  <2>2. CASE Resume(t)
    BY <2>2, ResumeHolds DEF Resume, Told
  <2> QED
    BY <2>1, <2>2, StartHolds, PickHolds, StopHolds, ForceResetHolds, AttachHolds DEF Clicked
<1>6. CASE Pause \/ Type \/ ToggleCheck \/ MarkComplete \/ ProcessExits \/ Restart
  BY <1>6, PauseActionHolds, UserHolds, ExitHolds, RestartHolds
<1> QED
  BY <1>1, <1>2, <1>3, <1>4, <1>5, <1>6 DEF Next

LEMMA InitHolds ==
  ASSUME Init
  PROVE  Held /\ Told
<1>1. Handlers
  BY FreeFits DEF Init, Handlers, Fit
<1> QED
  BY <1>1, FreshHolds DEF Init, Held, Told, RunStates, Phases, Plans, Ticks

\* Every state of every run is well typed and within the settings' budgets of
\* fixes and rechecks (handleFix, handleParityRecovery, handleRecheck).
THEOREM TypeCorrect == Spec => []TypeOK
<1>1. Init => Held /\ Told
  BY InitHolds
<1>2. (Held /\ Told) /\ [Next]_vars => (Held /\ Told)'
  BY StepHolds
<1>3. Held /\ Told => TypeOK
  BY DEF Held, Told, TypeOK, Handlers, TaskType
<1> QED
  BY <1>1, <1>2, <1>3, PTL DEF Spec
=============================================================================
