------------------------ MODULE SelfDriveAliveProofs ------------------------
(***************************************************************************)
(* A run of SelfDrive that shows as running has something coming: for      *)
(* every bound and whatever the user does, as long as he lets a handler    *)
(* end before he clicks again ("overlap" and "preflight" not in Acts).     *)
(***************************************************************************)
EXTENDS SelfDriveProofs

Op(t) == tasks[t].op

NoStart == \A t \in Slots : Op(t) # "start"

\* A start that waits is alone, and the run does not run yet.
StartIsAlone ==
  \A t \in Slots : Op(t) = "start" =>
    run # "running" /\ \A u \in Slots \ {t} : tasks[u] = Free

\* Nobody calls a run running that is being stopped, ended or attached.
EndingIsStill ==
  \A t \in Slots : Op(t) \in {"stop", "finish", "attach"} => run # "running"

\* The listeners are off only while a handler is about to put them back, or
\* to reset the run.
HeardAgain == run = "running" => listening \/ \E t \in Slots : Op(t) \in {"begin", "resume", "reset"}

Coming == run = "running" => queue > 0 \/ Waiting

Live ==
  /\ StartIsAlone /\ EndingIsStill /\ HeardAgain /\ Coming
  /\ run = "running" => pinned

\* What a handler does that goes on: the run stops, or something is on its way.
Settles(t) ==
  /\ run' # "running" \/ (run' = run /\ (queue' > 0 \/ tasks'[t] # Free)
                          /\ UNCHANGED <<pinned, listening>>)
  /\ \A u \in Slots \ {t} : tasks'[u] = tasks[u]
  /\ tasks'[t].op \in {"free", "firstGate", "gate", "evaluate", "parity", "resumed", "finish"}
  /\ tasks'[t].op = "finish" => run' # "running"

----------------------------------------------------------------------------
\* What handlers are made of.

LEMMA SettlesLive ==
  ASSUME Held, Live, NoStart, NEW t \in Slots, Op(t) \notin {"begin", "resume", "reset"}, Settles(t)
  PROVE  Live'
<1>1. StartIsAlone'
  BY DEF StartIsAlone, NoStart, Op, Settles
<1>2. EndingIsStill'
  BY DEF Live, EndingIsStill, Op, Settles
<1>3. HeardAgain'
  BY DEF Live, HeardAgain, Op, Settles
<1>4. Coming'
  BY DEF Coming, Waiting, Settles
<1> QED
  BY <1>1, <1>2, <1>3, <1>4 DEF Live, Settles

LEMMA DoneSettles ==
  ASSUME Held, NEW t \in Slots, Done(t)
  PROVE  tasks'[t].op = "free" /\ \A u \in Slots \ {t} : tasks'[u] = tasks[u]
BY DEF Held, Handlers, Done, Free, Task

LEMMA AwaitSettles ==
  ASSUME Held, NEW t \in Slots, NEW op \in Ops \ {"free"}, NEW ph, NEW s, Await(t, op, ph, s)
  PROVE  /\ tasks'[t].op = op /\ tasks'[t] # Free
         /\ \A u \in Slots \ {t} : tasks'[u] = tasks[u]
<1>1. tasks'[t] = Task(op, ph, s, "missing") /\ \A u \in Slots \ {t} : tasks'[u] = tasks[u]
  BY DEF Held, Handlers, Await
<1>2. tasks'[t].op = op
  BY <1>1 DEF Task
<1>3. Free.op = "free"
  BY DEF Free, Task
<1> QED
  BY <1>1, <1>2, <1>3

LEMMA SendSettles ==
  ASSUME Held, NEW b, Send(b)
  PROVE  run' = "paused" \/ (run' = run /\ queue' > 0)
BY SelfDriveAssumption DEF Held, Send

LEMMA PauseSettles ==
  ASSUME Held, NEW t \in Slots, HandlePause(t)
  PROVE  Settles(t)
BY DoneSettles DEF HandlePause, Settles

\* A handler that ends with a prompt.
LEMMA SentSettles ==
  ASSUME Held, NEW t \in Slots, NEW b, Send(b), Done(t), UNCHANGED pins
  PROVE  Settles(t)
BY DoneSettles, SendSettles DEF Settles, pins

LEMMA PromptSettles ==
  ASSUME Held, NEW t \in Slots, NEW ph, Prompt(t, ph)
  PROVE  Settles(t)
BY SentSettles DEF Prompt

LEMMA VerifySettles ==
  ASSUME Held, NEW t \in Slots, HandleVerify(t)
  PROVE  Settles(t)
BY SentSettles, PauseSettles DEF HandleVerify

LEMMA RepairSettles ==
  ASSUME Held, NEW t \in Slots, NEW b, Repair(t, b)
  PROVE  Settles(t)
BY SentSettles, PauseSettles DEF Repair

LEMMA RecheckSettles ==
  ASSUME Held, NEW t \in Slots, HandleRecheck(t)
  PROVE  Settles(t)
BY SentSettles, PauseSettles, VerifySettles DEF HandleRecheck

LEMMA NextSessionSettles ==
  ASSUME Held, NEW t \in Slots, NEW p, NextSession(t, p), UNCHANGED pins
  PROVE  Settles(t)
<1>1. CASE run' = "completed" /\ Await(t, "finish", "none", 0)
  BY <1>1, AwaitSettles DEF Settles, Ops
<1>2. CASE UNCHANGED run /\ \E s : Await(t, "gate", "none", s)
  BY <1>2, AwaitSettles DEF Settles, Ops, pins
<1> QED
  BY <1>1, <1>2 DEF NextSession

LEMMA StartNextSettles ==
  ASSUME Held, NEW t \in Slots, StartNextSession(t)
  PROVE  Settles(t)
BY PauseSettles, NextSessionSettles DEF StartNextSession

LEMMA MarkSettles ==
  ASSUME Held, NEW t \in Slots, NEW prev, NEW p, AfterMark(t, prev, p)
  PROVE  Settles(t)
BY SentSettles, NextSessionSettles DEF AfterMark

LEMMA AttemptSettles ==
  ASSUME Held, NEW t \in Slots, NEW prev, NEW now, AttemptMark(t, prev, now)
  PROVE  Settles(t)
<1>1. CASE /\ Await(t, "parity", prev, cur)
           /\ UNCHANGED <<run, phase, cur, pins, fixes, rounds, injected, guide, queue>>
  BY <1>1, AwaitSettles DEF Settles, Ops, pins
<1>2. CASE HandlePause(t) \/ AfterMark(t, prev, plan) \/ AfterMark(t, prev, Completed(plan, cur))
  BY <1>2, PauseSettles, MarkSettles
<1> QED
  BY <1>1, <1>2 DEF AttemptMark

LEMMA AdvanceSettles ==
  ASSUME Held, NEW t \in Slots, NEW prev, HandleAdvance(t, prev)
  PROVE  Settles(t)
BY PauseSettles, RecheckSettles, AttemptSettles DEF HandleAdvance, JudgeChecks

LEMMA ContinueSettles ==
  ASSUME Held, NEW t \in Slots, NEW s, Continue(t, s)
  PROVE  Settles(t)
BY PauseSettles, StartNextSettles, SentSettles, PromptSettles, VerifySettles
DEF Continue, HandleBuildCheck

LEMMA AbortSettles ==
  ASSUME Held, NEW t \in Slots, HandleAbort(t)
  PROVE  Settles(t)
BY DoneSettles DEF HandleAbort, Settles

LEMMA DecisionSettles ==
  ASSUME Held, NEW t \in Slots, NEW d, NEW prev, ExecuteDecision(t, d, prev)
  PROVE  Settles(t)
<1>1. CASE HandleAdvanceRecovery(t)
  BY <1>1, AdvanceSettles, PauseSettles, ContinueSettles DEF HandleAdvanceRecovery
<1> QED
  BY <1>1, AdvanceSettles, PauseSettles, VerifySettles, RepairSettles, PromptSettles,
     StartNextSettles, AbortSettles, RecheckSettles DEF ExecuteDecision, HandleBuildCheck

----------------------------------------------------------------------------
\* The actions.

LEMMA EvaluatedSettles ==
  ASSUME Held, NEW t \in Slots, Evaluated(t)
  PROVE  Settles(t)
<1>1. CASE HandlePause(t) \/ \E d \in Decisions : ExecuteDecision(t, d, tasks[t].phase)
  BY <1>1, PauseSettles, DecisionSettles
<1>2. CASE run # "running" /\ UNCHANGED run /\ Done(t)
  BY <1>2, DoneSettles DEF Settles
<1> QED
  BY <1>1, <1>2 DEF Evaluated

LEMMA ResumedSettles ==
  ASSUME Held, NEW t \in Slots, Resumed(t)
  PROVE  Settles(t)
<1>1. CASE run' = "paused" /\ Done(t)
  BY <1>1, DoneSettles DEF Settles
<1>2. CASE Prompt(t, "recovering")
  BY <1>2, PromptSettles
<1>3. CASE HandlePause(t) \/ StartNextSession(t) \/ HandleBuildCheck(t) \/ HandleVerify(t)
  BY <1>3, PauseSettles, StartNextSettles, PromptSettles, VerifySettles DEF HandleBuildCheck
<1>4. CASE /\ Await(t, "gate", "none", tasks[t].sess)
           /\ UNCHANGED <<run, cur, pins, rounds, injected, guide, queue>>
  BY <1>4, AwaitSettles DEF Settles, Ops, pins
<1> QED
  BY <1>1, <1>2, <1>3, <1>4 DEF Resumed, ResumeSession

LEMMA GoOnLive ==
  ASSUME Held, Live, NoStart, NEW t \in Slots, GoOn(t)
  PROVE  Live'
<1>1. CASE EvaluationFails(t)
  BY <1>1, PauseSettles, SettlesLive DEF EvaluationFails, Op
<1>2. CASE Evaluated(t)
  BY <1>2, EvaluatedSettles, SettlesLive DEF Evaluated, Op
<1>3. CASE ParityReturns(t)
  BY <1>3, PauseSettles, RepairSettles, MarkSettles, SettlesLive DEF ParityReturns, Op
<1>4. CASE GateReturns(t)
  BY <1>4, PauseSettles, SentSettles, SettlesLive DEF GateReturns, Op
<1>5. CASE Finishes(t) \/ Stopped(t)
  <2>1. run # "running" /\ UNCHANGED run /\ Done(t) /\ Op(t) \in {"finish", "stop"}
    BY <1>5 DEF Finishes, Stopped, Live, EndingIsStill, Op
  <2> QED
    BY <2>1, DoneSettles, SettlesLive DEF Settles
<1>6. CASE FirstGateReturns(t)
  <2>1. run' = "paused" \/ (run' = run /\ queue' > 0 /\ UNCHANGED pins)
    BY <1>6, SelfDriveAssumption DEF FirstGateReturns, Held
  <2>2. Done(t) /\ Op(t) = "firstGate"
    BY <1>6 DEF FirstGateReturns, Op
  <2> QED
    BY <2>1, <2>2, DoneSettles, SettlesLive DEF Settles, pins
<1>7. CASE Resumed(t)
  BY <1>7, ResumedSettles, SettlesLive DEF Resumed, Op
<1>8. CASE Begun(t) \/ Listens(t)
  <2>1. /\ listening' /\ UNCHANGED <<run, pinned, queue>>
        /\ Op(t) \in {"begin", "resume", "attach"}
        /\ tasks'[t].op \in {"free", "firstGate", "resumed"}
        /\ tasks'[t] # Free \/ Op(t) = "attach"
        /\ \A u \in Slots \ {t} : tasks'[u] = tasks[u]
    <3>1. CASE Begun(t)
      BY <3>1, AwaitSettles DEF Begun, Quiet, Op, Ops
    <3>2. CASE Listens(t)
      BY <3>2 DEF Listens, Quiet, Op, Held, Handlers, TaskType, Free, Task
    <3> QED
      BY <1>8, <3>1, <3>2
  <2>2. Op(t) = "attach" => run # "running"
    BY DEF Live, EndingIsStill
  <2>3. StartIsAlone' /\ EndingIsStill'
    BY <2>1 DEF Live, StartIsAlone, EndingIsStill, NoStart, Op
  <2>4. HeardAgain' /\ Coming'
    BY <2>1, <2>2 DEF HeardAgain, Coming, Waiting
  <2> QED
    BY <2>1, <2>3, <2>4 DEF Live
<1>9. CASE WasReset(t)
  <2>1. run' = "idle" /\ tasks'[t].op = "free" /\ \A u \in Slots \ {t} : tasks'[u] = tasks[u]
    BY <1>9, DoneSettles DEF WasReset
  <2> QED
    BY <2>1 DEF Live, StartIsAlone, EndingIsStill, HeardAgain, Coming, NoStart, Op
<1> QED
  BY <1>1, <1>2, <1>3, <1>4, <1>5, <1>6, <1>7, <1>8, <1>9 DEF GoOn

LEMMA TurnLive ==
  ASSUME Held, Live, NoStart, NEW t \in Slots, TurnCompletes(t)
  PROVE  Live'
<1>1. UNCHANGED <<pinned, listening>>
  BY DEF TurnCompletes, pins
<1>2. CASE UNCHANGED tasks /\ run' \in {run, "paused"}
           /\ (run' = "running" => ~(listening /\ run = "running" /\ pinned))
  <2>1. run' = "running" => \E u \in Slots : Op(u) \in {"begin", "resume", "reset"}
    BY <1>2 DEF Live, HeardAgain
  <2>2. Coming'
    BY <1>2, <2>1 DEF Coming, Waiting, Op, Free, Task
  <2> QED
    BY <1>1, <1>2, <2>2 DEF Live, StartIsAlone, EndingIsStill, HeardAgain, NoStart, Op
<1>3. CASE tasks[t] = Free /\ Await(t, "evaluate", phase, cur) /\ UNCHANGED run /\ listening
  <2>1. tasks'[t].op = "evaluate" /\ tasks'[t] # Free /\ \A u \in Slots \ {t} : tasks'[u] = tasks[u]
    BY <1>3, AwaitSettles DEF Ops
  <2> QED
    BY <1>1, <1>3, <2>1
    DEF Live, StartIsAlone, EndingIsStill, HeardAgain, Coming, Waiting, NoStart, Op
<1> QED
  BY <1>2, <1>3 DEF TurnCompletes

LEMMA StartedLive ==
  ASSUME Held, Live, NEW t \in Slots, Started(t)
  PROVE  Live'
<1>1. /\ run # "running" /\ \A u \in Slots \ {t} : tasks[u] = Free
      /\ Free.op = "free"
  BY DEF Started, Live, StartIsAlone, Op, Free, Task
<1>2. CASE Done(t) /\ UNCHANGED <<run, phase, cur, pins, blocker, fixes, rounds, unsure, guide, ticked>>
  BY <1>1, <1>2, DoneSettles
  DEF Live, StartIsAlone, EndingIsStill, HeardAgain, Coming, Op
<1>3. CASE pinned' = TRUE /\ Await(t, "begin", "none", tasks[t].sess)
  <2>1. tasks'[t].op = "begin" /\ tasks'[t] # Free /\ \A u \in Slots \ {t} : tasks'[u] = tasks[u]
    BY <1>3, AwaitSettles DEF Ops
  <2> QED
    BY <1>1, <1>3, <2>1 DEF Live, StartIsAlone, EndingIsStill, HeardAgain, Coming, Waiting, Op
<1> QED
  BY <1>2, <1>3 DEF Started

\* The user clicks while no handler waits.
LEMMA ClickLive ==
  ASSUME Held, Live, \A u \in Slots : tasks[u] = Free, NEW t \in Slots, Clicked(t)
  PROVE  Live'
<1>1. Free.op = "free" /\ \A u \in Slots : Op(u) = "free"
  BY DEF Op, Free, Task
<1>2. CASE Start(t)
  <2>1. UNCHANGED run /\ run # "running" /\ \A u \in Slots \ {t} : tasks'[u] = tasks[u]
    BY <1>2 DEF Start, Held, Handlers
  <2> QED
    BY <1>1, <2>1 DEF Live, StartIsAlone, EndingIsStill, HeardAgain, Coming, Op
<1>3. ASSUME NEW b, ResumeWith(t, b)
      PROVE  Live'
  <2>1. /\ tasks'[t] = Task("resume", "none", cur, ViewOf(attach))
        /\ \A u \in Slots \ {t} : tasks'[u] = tasks[u]
    BY <1>3 DEF ResumeWith, Held, Handlers
  <2>2. tasks'[t].op = "resume" /\ tasks'[t] # Free
    BY <1>1, <2>1 DEF Task
  <2>3. pinned'
    BY <1>3 DEF ResumeWith
  <2> QED
    BY <1>1, <2>1, <2>2, <2>3
    DEF Live, StartIsAlone, EndingIsStill, HeardAgain, Coming, Waiting, Op
<1>4. CASE UNCHANGED <<run, pins, queue, tasks>>
  BY <1>4 DEF Live, StartIsAlone, EndingIsStill, HeardAgain, Coming, Waiting, Op, pins
<1>5. CASE PickOption(t)
  BY <1>3, <1>4, <1>5 DEF PickOption, Quiet
<1>6. CASE Stop(t) \/ Attach(t)
  <2>1. run' # "running" /\ \E op \in {"stop", "attach"} : Await(t, op, "none", 0)
    BY <1>6 DEF Stop, Attach
  <2>2. tasks'[t].op \in {"stop", "attach"} /\ \A u \in Slots \ {t} : tasks'[u] = tasks[u]
    BY <2>1, AwaitSettles DEF Ops
  <2> QED
    BY <1>1, <2>1, <2>2 DEF Live, StartIsAlone, EndingIsStill, HeardAgain, Coming, Op
<1>7. CASE ForceReset(t)
  <2>1. UNCHANGED <<run, pinned>> /\ Await(t, "reset", "none", 0)
    BY <1>7 DEF ForceReset
  <2>2. tasks'[t].op = "reset" /\ tasks'[t] # Free /\ \A u \in Slots \ {t} : tasks'[u] = tasks[u]
    BY <2>1, AwaitSettles DEF Ops
  <2> QED
    BY <1>1, <2>1, <2>2 DEF Live, StartIsAlone, EndingIsStill, HeardAgain, Coming, Waiting, Op
<1> QED
  BY <1>2, <1>3, <1>5, <1>6, <1>7 DEF Clicked, Resume

LEMMA UserLive ==
  ASSUME Held, Live, NoStart, Pause \/ Type \/ ToggleCheck \/ MarkComplete \/ ProcessExits
  PROVE  Live'
<1>1. UNCHANGED <<pinned, listening, tasks>> /\ run' \in {run, "paused", "idle"}
  BY DEF Pause, Type, ToggleCheck, MarkComplete, ProcessExits, pins
<1>2. run' = "running" => queue' > 0 \/ queue' = queue \/ ~listening
  BY DEF Pause, Type, ToggleCheck, MarkComplete, ProcessExits, Quiet, Held
<1>3. Coming'
  <2>1. CASE run' = "running" /\ ~listening
    <3>1. \E u \in Slots : Op(u) \in {"begin", "resume", "reset"}
      BY <1>1, <2>1 DEF Live, HeardAgain
    <3> QED
      BY <1>1, <3>1 DEF Coming, Waiting, Op, Free, Task
  <2> QED
    BY <1>1, <1>2, <2>1 DEF Live, Coming, Waiting
<1> QED
  BY <1>1, <1>3 DEF Live, StartIsAlone, EndingIsStill, HeardAgain, NoStart, Op

LEMMA RestartLive ==
  ASSUME Restart
  PROVE  Live'
BY DEF Restart, Live, StartIsAlone, EndingIsStill, HeardAgain, Coming, Op, Free, Task

LEMMA StepLive ==
  ASSUME "preflight" \notin Acts, "overlap" \notin Acts, Held, Live, [Next]_vars
  PROVE  Live'
<1>1. CASE UNCHANGED vars
  BY <1>1 DEF vars, pins, Live, StartIsAlone, EndingIsStill, HeardAgain, Coming, Waiting, Op
<1>2. CASE \E t \in Slots : Started(t)
  BY <1>2, StartedLive
<1>3. CASE NoStart /\ \E t \in Slots : GoOn(t)
  BY <1>3, GoOnLive
<1>4. CASE NoStart /\ \E t \in Slots : TurnCompletes(t)
  BY <1>4, TurnLive
<1>5. CASE (\A u \in Slots : tasks[u] = Free) /\ \E t \in Slots : Clicked(t)
  BY <1>5, ClickLive
<1>6. CASE NoStart /\ (Pause \/ Type \/ ToggleCheck \/ MarkComplete \/ ProcessExits \/ Restart)
  BY <1>6, UserLive, RestartLive
<1> QED
  BY <1>1, <1>2, <1>3, <1>4, <1>5, <1>6 DEF Next, Calm, Patient, NoStart, Op

\* A run that shows as running has a turn coming that will be heard, or a
\* handler that goes on (handleTurnComplete, sendMessageToSession, resume,
\* startListeners), if the user lets handlers end before he clicks again.
THEOREM RunningStaysAlive ==
  ASSUME "preflight" \notin Acts, "overlap" \notin Acts
  PROVE  Spec => []RunningIsAlive
<1>1. Init => Held /\ Told /\ Live
  <2>1. Init => Live
    BY DEF Init, Live, StartIsAlone, EndingIsStill, HeardAgain, Coming, Op, Free, Task
  <2> QED
    BY <2>1, InitHolds
<1>2. (Held /\ Told /\ Live) /\ [Next]_vars => (Held /\ Told /\ Live)'
  BY StepHolds, StepLive
<1>3. Live => RunningIsAlive
  BY DEF Live, HeardAgain, Coming, Waiting, RunningIsAlive, Op, Free, Task
<1> QED
  BY <1>1, <1>2, <1>3, PTL DEF Spec
=============================================================================
