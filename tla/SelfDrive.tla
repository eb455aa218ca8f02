------------------------------ MODULE SelfDrive ------------------------------
(***************************************************************************)
(* The automatic run over an implementation guide (selfDriveStore.ts).     *)
(*                                                                         *)
(* Handlers are asynchronous: each runs to its next await without being    *)
(* interrupted, and everything else may happen before it goes on. What is  *)
(* waiting is in tasks: the orchestrator's verdict on a turn, the parity   *)
(* gate of a finished session, the requirements of the next, or the IPC    *)
(* calls of start, resume, stop and attach. Hardly any handler looks again *)
(* at the run when it goes on.                                             *)
(*                                                                         *)
(* The agent is a queue of messages it has to answer with one turn each;   *)
(* the user may type into the same chat. Texts are left out: what the      *)
(* orchestrator decides, how its verdict fits the checks, what the gates   *)
(* find and what the settings say at that moment is any value. Sending a   *)
(* prompt and setting the flag for it is one step.                         *)
(***************************************************************************)
EXTENDS Naturals, FiniteSets

CONSTANTS
  N,          \* sessions of the guide
  Checks,     \* verify checks of a session
  MaxFix,     \* config.maxFixAttempts
  MaxRounds,  \* MAX_RECHECK_ROUNDS, 2 in the code
  MaxUnsure,  \* low-confidence decisions that pause the run, 3 in the code
  Acts,       \* what the user and the environment do in this instance
  Decisions,  \* what the orchestrator decides in this instance
  Slots,      \* handlers that may be waiting at a time (a bound)
  MaxQueue    \* messages the agent has yet to answer (a bound)

Plan == 1..N

Actions == {"advance", "advance_recovery", "verify", "fix", "build_check",
            "test", "commit", "pause", "abort", "request_recheck"}

ASSUME SelfDriveAssumption ==
  /\ N \in Nat \ {0} /\ MaxFix \in Nat \ {0} /\ MaxRounds \in Nat
  /\ MaxUnsure \in Nat \ {0} /\ MaxQueue \in Nat \ {0}
  /\ Decisions \subseteq Actions

VARIABLES
  run,        \* status
  phase,      \* currentPhase
  cur,        \* currentSessionIndex, 0 for null
  pinned,     \* projectPath, sessionId and guide are set
  attach,     \* "live"; "lost" while needsSessionAttach; "fresh" while postRestartFreshResumeNeeded
  blocker,    \* activeBlocker: its status, or "none", and its session
  fixes,      \* fixAttempt
  rounds,     \* recheckRoundsUsed
  unsure,     \* lowConfidenceCount, up to MaxUnsure
  injected,   \* the last prompt was parity-recovery (lastSelfDrivePromptInjection)
  plan,       \* status of each session of the guide
  sent,       \* sessions with promptSent
  asked,      \* sessions with verifyRequested
  ticked,     \* the checked verifyChecks of each session
  listening,  \* chatEventUnlisten is set
  mode,       \* now: the agent session's mode; saved: previousSessionMode
  row,        \* the database has a row of the run
  queue,      \* messages the agent has yet to answer
  tasks       \* what each waiting handler waits for

pins == <<pinned, attach, listening, mode, row>>
guide == <<plan, sent, asked>>
vars == <<run, phase, cur, pins, blocker, fixes, rounds, unsure, injected,
          guide, ticked, queue, tasks>>

RunStates == {"idle", "running", "paused", "completed"}
Phases == {"none", "preparing", "building", "evaluating", "build-checking", "verifying",
           "rechecking", "fixing", "testing", "committing", "recovering"}
Ops == {"free", "start", "begin", "firstGate", "gate", "evaluate", "parity",
        "resume", "resumed", "stop", "reset", "attach", "finish"}
Plans == [Plan -> {"pending", "active", "done"}]
Ticks == [Plan -> SUBSET Checks]
Views == {"missing", "done", "unsent", "unasked", "asked"}
Reads == Plans \X (SUBSET Plan) \X (SUBSET Plan) \X Ticks

\* A waiting handler: where it waits, the phase before the turn it judges,
\* the session it is about, what resume saw of the current one, and the
\* guide start has read.
Task(op, ph, s, v) == [op |-> op, phase |-> ph, sess |-> s, view |-> v, read |-> <<>>]
Free == Task("free", "none", 0, "missing")

Blocker(is, s) == [is |-> is, of |-> s]
NoBlocker == Blocker("none", 0)

Init ==
  /\ run = "idle" /\ phase = "none" /\ cur = 0 /\ pinned = FALSE /\ attach = "live"
  /\ blocker = NoBlocker /\ fixes = 0 /\ rounds = 0 /\ unsure = 0 /\ injected = FALSE
  /\ plan = [s \in Plan |-> IF s = 1 THEN "active" ELSE "pending"]
  /\ sent = {} /\ asked = {} /\ ticked = [s \in Plan |-> {}]
  /\ listening = FALSE /\ mode = [now |-> "user", saved |-> "none"] /\ row = FALSE
  /\ queue = 0 /\ tasks = [t \in Slots |-> Free]

(* --- what handlers are made of ----------------------------------------- *)
(* None of these mentions blocker, ticked or unsure: the actions below do.  *)

Done(t) == tasks' = [tasks EXCEPT ![t] = Free]
Await(t, op, prev, s) == tasks' = [tasks EXCEPT ![t] = Task(op, prev, s, "missing")]

Least(S) == CHOOSE s \in S : \A x \in S : s <= x

\* handlePause: whatever the status is by now, it is paused after it.
HandlePause(t) ==
  /\ run' = "paused" /\ Done(t)
  /\ UNCHANGED <<phase, cur, pins, fixes, rounds, injected, guide, queue>>

\* Mutant: nobody is told that a prompt could not be sent.
SendSilently(parityRecovery) ==
  /\ injected' = IF pinned THEN parityRecovery ELSE injected
  /\ \/ pinned /\ queue < MaxQueue /\ queue' = queue + 1
     \/ UNCHANGED queue
  /\ UNCHANGED run

\* sendMessageToSession: a prompt for the pinned session goes out, or the run
\* is paused; the caller goes on in both cases.
Send(parityRecovery) ==
  /\ injected' = IF pinned THEN parityRecovery ELSE injected
  /\ \/ pinned /\ queue < MaxQueue /\ queue' = queue + 1 /\ UNCHANGED run
     \/ run' = "paused" /\ UNCHANGED queue

\* A handler that ends with a prompt in a new phase and changes nothing else.
Prompt(t, ph) ==
  /\ phase' = ph /\ Send(FALSE) /\ Done(t)
  /\ UNCHANGED <<cur, pins, fixes, rounds, guide>>

HandleVerify(t) ==
  IF pinned /\ cur \in Plan
    THEN /\ phase' = "verifying" /\ Send(FALSE) /\ Done(t)
         /\ asked' = asked \cup {cur}
         /\ UNCHANGED <<cur, pins, fixes, rounds, plan, sent>>
    ELSE HandlePause(t)

HandleBuildCheck(t) == Prompt(t, "build-checking")

\* Mutant: one fix more than the settings allow.
RepairOnceMore(t, parityRecovery) ==
  IF fixes <= MaxFix
    THEN /\ fixes' = fixes + 1 /\ rounds' = 0
         /\ phase' = "fixing" /\ Send(parityRecovery) /\ Done(t)
         /\ UNCHANGED <<cur, pins, guide>>
    ELSE HandlePause(t)

\* handleFix and handleParityRecovery share one counter and its ceiling.
Repair(t, parityRecovery) ==
  IF fixes < MaxFix
    THEN /\ fixes' = fixes + 1 /\ rounds' = 0
         /\ phase' = IF phase = "recovering" /\ ~parityRecovery THEN "recovering" ELSE "fixing"
         /\ Send(parityRecovery) /\ Done(t)
         /\ UNCHANGED <<cur, pins, guide>>
    ELSE HandlePause(t)

\* handleRecheck: what the settings and the loop guard make of it.
HandleRecheck(t) ==
  \/ HandlePause(t)
  \/ rounds < MaxRounds /\ HandleVerify(t)
  \/ /\ rounds < MaxRounds
     /\ rounds' = rounds + 1 /\ phase' = "rechecking" /\ Send(FALSE) /\ Done(t)
     /\ UNCHANGED <<cur, pins, fixes, guide>>

\* Mutant: the run is complete when no session waits, the active one forgotten.
NextPending(t, p) ==
  LET open == {s \in Plan : p[s] = "pending"}
  IN IF open = {}
       THEN run' = "completed" /\ phase' = "none" /\ Await(t, "finish", "none", 0)
            /\ UNCHANGED <<cur, fixes>>
       ELSE cur' = Least(open) /\ phase' = "building" /\ fixes' = 0
            /\ Await(t, "gate", "none", Least(open)) /\ UNCHANGED run

\* The first active session of the guide is next, or all are done.
NextSession(t, p) ==
  LET open == {s \in Plan : p[s] = "active"}
  IN IF open = {}
       THEN run' = "completed" /\ phase' = "none" /\ Await(t, "finish", "none", 0)
            /\ UNCHANGED <<cur, fixes>>
       ELSE cur' = Least(open) /\ phase' = "building" /\ fixes' = 0
            /\ Await(t, "gate", "none", Least(open)) /\ UNCHANGED run

StartNextSession(t) ==
  IF pinned
    THEN NextSession(t, plan) /\ UNCHANGED <<pins, rounds, injected, guide, queue>>
    ELSE HandlePause(t)

\* markSessionComplete: the first pending session takes the turn of s.
Completed(p, s) ==
  [x \in Plan |->
     IF x = s THEN "done"
     ELSE IF p[x] = "pending" /\ \A y \in Plan : y < x /\ y # s => p[y] # "pending"
            THEN "active" ELSE p[x]]

\* The rest of handleAdvance once its session is done. The rounds are reset
\* before the session's fix activity is looked at.
AfterMark(t, prev, p) ==
  /\ plan' = p /\ rounds' = 0
  /\ UNCHANGED <<pins, sent, asked>>
  /\ \/ /\ prev \notin {"testing", "committing"} /\ fixes = 0
        /\ phase' = "testing" /\ Send(FALSE) /\ Done(t) /\ UNCHANGED <<cur, fixes>>
     \/ /\ prev # "committing"
        /\ phase' = "committing" /\ Send(FALSE) /\ Done(t) /\ UNCHANGED <<cur, fixes>>
     \/ NextSession(t, p) /\ UNCHANGED <<injected, queue>>

\* attemptMarkSessionComplete, given which checks are ticked: done before,
\* not to be done, done at once, or left to the parity gate.
AttemptMark(t, prev, now) ==
  IF plan[cur] = "done" THEN AfterMark(t, prev, plan)
  ELSE IF now # Checks THEN HandlePause(t)
  ELSE \/ AfterMark(t, prev, Completed(plan, cur))
       \/ /\ Await(t, "parity", prev, cur)
          /\ UNCHANGED <<run, phase, cur, pins, fixes, rounds, injected, guide, queue>>

\* The verdict on the checks: an unusable one pauses, one with gaps asks
\* again, and otherwise what it confirms is ticked; ok is what it confirms.
JudgeChecks(t, prev, ok) ==
  LET now == ticked[cur] \cup ok
  IN \/ HandlePause(t) /\ UNCHANGED ticked
     \/ rounds < MaxRounds /\ HandleRecheck(t) /\ UNCHANGED ticked
     \/ /\ ticked' = [ticked EXCEPT ![cur] = now]
        /\ \/ now # Checks /\ HandlePause(t)
           \/ now # Checks /\ rounds < MaxRounds /\ HandleRecheck(t)
           \/ now = Checks /\ AttemptMark(t, prev, now)

HandleAdvance(t, prev) ==
  \/ ~(pinned /\ cur \in Plan) /\ HandlePause(t) /\ UNCHANGED ticked
  \/ /\ pinned /\ cur \in Plan /\ prev \in {"verifying", "rechecking", "fixing"}
     /\ \E ok \in SUBSET Checks : JudgeChecks(t, prev, ok)
  \/ /\ pinned /\ cur \in Plan /\ prev \notin {"verifying", "rechecking"}
     /\ AttemptMark(t, prev, ticked[cur]) /\ UNCHANGED ticked

\* continueAfterRecovery: on from where the session of the blocker was.
Continue(t, s) ==
  IF ~(pinned /\ s \in Plan) THEN HandlePause(t)
  ELSE IF plan[s] = "done" THEN StartNextSession(t)
  ELSE IF s \notin sent
         THEN /\ phase' = "building" /\ fixes' = 0 /\ Send(FALSE) /\ Done(t)
              /\ sent' = sent \cup {s}
              /\ UNCHANGED <<cur, pins, rounds, plan, asked>>
  ELSE IF s \notin asked THEN HandleBuildCheck(t)
  ELSE HandleVerify(t)

HandleAdvanceRecovery(t) ==
  \/ blocker.is = "none" /\ injected /\ HandleAdvance(t, "fixing") /\ UNCHANGED blocker
  \/ (blocker.is = "none" => ~injected) /\ HandlePause(t) /\ UNCHANGED <<blocker, ticked>>
  \/ blocker.is # "none" /\ blocker' = NoBlocker /\ Continue(t, blocker.of) /\ UNCHANGED ticked

\* The mode of the session after a call of syncSessionMode, whose failure
\* ("unsynced") every caller ignores.
Synced(m) == IF "unsynced" \in Acts THEN {m, mode.now} ELSE {m}

\* Mutant: the session is forgotten before its mode is looked up.
NotGivenBack == {mode.now}

\* restoreSessionMode: the mode the session had before the run. The caller
\* forgets that mode even if the call has failed.
GivenBack == IF mode.saved = "none" THEN {mode.now} ELSE Synced(mode.saved)

\* handleAbort: the mode is given back, and nobody listens any more.
HandleAbort(t) ==
  /\ run' = "paused" /\ listening' = FALSE /\ Done(t)
  /\ mode' \in [now : GivenBack, saved : {"none"}]
  /\ UNCHANGED <<phase, cur, pinned, attach, row, fixes, rounds, injected, guide, queue>>

ExecuteDecision(t, d, prev) ==
  \/ d = "advance" /\ HandleAdvance(t, prev) /\ UNCHANGED blocker
  \/ d = "advance_recovery" /\ HandleAdvanceRecovery(t)
  \/ d \in {"pause", "request_recheck"} /\ HandlePause(t) /\ blocker' = Blocker("open", cur)
     /\ UNCHANGED ticked
  \/ /\ UNCHANGED <<blocker, ticked>>
     /\ \/ d = "verify" /\ HandleVerify(t)
        \/ d = "fix" /\ Repair(t, FALSE)
        \/ d = "build_check" /\ HandleBuildCheck(t)
        \/ d = "test" /\ Prompt(t, "testing")
        \/ d = "commit" /\ StartNextSession(t)
        \/ d = "pause" /\ HandlePause(t)
        \/ d = "abort" /\ HandleAbort(t)
        \/ d = "request_recheck" /\ HandleRecheck(t)

(* --- the agent ---------------------------------------------------------- *)

\* handleTurnComplete up to the orchestrator. Without a running run, its
\* session and its listener the turn is not looked at.
TurnCompletes(t) ==
  /\ queue > 0 /\ queue' = queue - 1
  /\ UNCHANGED <<cur, pins, blocker, fixes, rounds, unsure, injected, guide, ticked>>
  /\ \/ ~(listening /\ run = "running" /\ pinned) /\ UNCHANGED <<run, phase, tasks>>
     \/ /\ listening /\ run = "running" /\ pinned /\ cur \in Plan
        /\ tasks[t] = Free /\ Await(t, "evaluate", phase, cur)
        /\ phase' = "evaluating" /\ UNCHANGED run
     \/ /\ listening /\ run = "running" /\ pinned
        /\ run' = "paused" /\ UNCHANGED tasks
        /\ phase' \in {phase, "evaluating"}

\* The agent's process exits, at any moment: what it had to answer is lost.
\* handleProcessCrash pauses a run that shows as running.
ProcessExits ==
  /\ "exit" \in Acts /\ queue' = 0
  /\ run' = IF listening /\ run = "running" THEN "paused" ELSE run
  /\ UNCHANGED <<phase, cur, pins, blocker, fixes, rounds, unsure, injected, guide, ticked, tasks>>

(* --- handlers that go on ------------------------------------------------ *)

\* The orchestrator fails, or returns decision d, or one it is unsure of.
EvaluationFails(t) ==
  /\ tasks[t].op = "evaluate" /\ HandlePause(t)
  /\ UNCHANGED <<blocker, ticked, unsure>>

Evaluated(t) ==
  \E d \in Decisions, low \in BOOLEAN :
    /\ tasks[t].op = "evaluate"
    /\ unsure' = IF ~low THEN 0
                 ELSE IF d \in {"advance", "abort"} \/ unsure = MaxUnsure THEN unsure
                 ELSE unsure + 1
    /\ \/ /\ low /\ (d \in {"advance", "abort"} \/ unsure' >= MaxUnsure)
          /\ HandlePause(t) /\ UNCHANGED <<blocker, ticked>>
       \/ /\ ~(low /\ (d \in {"advance", "abort"} \/ unsure' >= MaxUnsure))
          /\ run # "running" /\ Done(t)
          /\ UNCHANGED <<run, phase, cur, pins, blocker, fixes, rounds, injected, guide, ticked, queue>>
       \/ /\ ~(low /\ (d \in {"advance", "abort"} \/ unsure' >= MaxUnsure))
          /\ run = "running" /\ ExecuteDecision(t, d, tasks[t].phase)

\* Mutant: the checks seen before the gate are good enough after it.
ParityTrusts(t) ==
  /\ tasks[t].op = "parity" /\ UNCHANGED <<blocker, ticked, unsure>>
  /\ \/ HandlePause(t)
     \/ pinned /\ AfterMark(t, tasks[t].phase, Completed(plan, tasks[t].sess))

\* The parity gate is passed or waived, errs, or finds an action unpaired.
\* The checks are looked at once more: they may have been unticked meanwhile.
ParityReturns(t) ==
  /\ tasks[t].op = "parity" /\ UNCHANGED <<blocker, ticked, unsure>>
  /\ LET s == tasks[t].sess
     IN \/ HandlePause(t)
        \/ Repair(t, TRUE)
        \/ pinned /\ plan[s] = "done" /\ AfterMark(t, tasks[t].phase, plan)
        \/ /\ pinned /\ plan[s] # "done" /\ ticked[s] = Checks
           /\ AfterMark(t, tasks[t].phase, Completed(plan, s))

\* dispatchSessionBuildPrompt: promptSent is set even if the sending failed.
GateReturns(t) ==
  /\ tasks[t].op = "gate" /\ UNCHANGED <<ticked, unsure>>
  /\ \/ HandlePause(t) /\ blocker' = Blocker("open", tasks[t].sess)
     \/ /\ Send(FALSE) /\ Done(t)
        /\ sent' = IF pinned THEN sent \cup {tasks[t].sess} ELSE sent
        /\ UNCHANGED <<phase, cur, pins, blocker, fixes, rounds, plan, asked>>

\* startNextSession after its last session: the mode is given back.
Finishes(t) ==
  /\ tasks[t].op = "finish" /\ Done(t)
  /\ mode' \in [now : GivenBack, saved : {"none"}]
  /\ listening' = FALSE /\ row' = FALSE
  /\ UNCHANGED <<run, phase, cur, pinned, attach, blocker, fixes, rounds, unsure, injected,
                 guide, ticked, queue>>

(* --- the user ----------------------------------------------------------- *)

Quiet == UNCHANGED <<unsure, injected, guide, ticked, queue>>

\* start up to the preflight of the project.
Start(t) ==
  /\ run \in {"idle", "completed"} /\ tasks[t] = Free
  /\ \E s \in Plan : plan[s] = "active"
       /\ tasks' = [tasks EXCEPT ![t] = [Task("start", "none", s, "missing") EXCEPT
                                          !.read = <<plan, sent, asked, ticked>>]]
  /\ UNCHANGED <<run, phase, cur, pins, blocker, fixes, rounds>> /\ Quiet

\* The preflight objects, or the run is set up with the guide read before
\* it, whatever the run and the guide are by now.
Started(t) ==
  /\ tasks[t].op = "start" /\ UNCHANGED <<injected, queue>>
  /\ \/ Done(t) /\ UNCHANGED <<run, phase, cur, pins, blocker, fixes, rounds, unsure, guide, ticked>>
     \/ /\ run' = "running" /\ phase' = "preparing" /\ cur' = tasks[t].sess
        /\ plan' = tasks[t].read[1] /\ sent' = tasks[t].read[2]
        /\ asked' = tasks[t].read[3] /\ ticked' = tasks[t].read[4]
        /\ pinned' = TRUE /\ mode' = [mode EXCEPT !.saved = mode.now]
        /\ blocker' = NoBlocker /\ fixes' = 0 /\ rounds' = 0 /\ unsure' = 0
        /\ Await(t, "begin", "none", tasks[t].sess)
        /\ UNCHANGED <<attach, listening, row>>

\* The session is in auto-accept and listened to, and the run has its row.
Begun(t) ==
  /\ tasks[t].op = "begin" /\ Await(t, "firstGate", "none", tasks[t].sess)
  /\ mode' \in [now : Synced("auto"), saved : {mode.saved}] /\ listening' = TRUE
  /\ row' = (row \/ (pinned /\ run \in {"running", "paused"}))
  /\ UNCHANGED <<run, phase, cur, pinned, attach, blocker, fixes, rounds>> /\ Quiet

\* The first build prompt; its flag is set only if it was sent.
FirstGateReturns(t) ==
  /\ tasks[t].op = "firstGate" /\ Done(t)
  /\ UNCHANGED <<cur, pins, fixes, rounds, unsure, injected, plan, asked, ticked>>
  /\ \/ run' = "paused" /\ blocker' = Blocker("open", tasks[t].sess)
        /\ UNCHANGED <<phase, sent, queue>>
     \/ run' = "paused" /\ phase' = "building" /\ UNCHANGED <<blocker, sent, queue>>
     \/ /\ queue < MaxQueue /\ queue' = queue + 1 /\ phase' = "building"
        /\ sent' = IF pinned THEN sent \cup {tasks[t].sess} ELSE sent
        /\ UNCHANGED <<run, blocker>>

Pause ==
  /\ "pause" \in Acts /\ run = "running" /\ run' = "paused"
  /\ UNCHANGED <<phase, cur, pins, blocker, fixes, rounds, tasks>> /\ Quiet

\* What resume sees of the current session, and acts on after its awaits.
ViewOf(p) ==
  IF cur \notin Plan THEN "missing"
  ELSE IF plan[cur] = "done" THEN "done"
  ELSE IF p = "fresh" \/ cur \notin sent THEN "unsent"
  ELSE IF cur \notin asked THEN "unasked" ELSE "asked"

\* resume up to its listeners; pickBlockerOption does the same with b decided.
ResumeWith(t, b) ==
  /\ run = "paused" /\ attach # "lost" /\ pinned /\ tasks[t] = Free
  /\ run' = "running" /\ blocker' = b /\ listening' = FALSE
  /\ sent' = IF attach = "fresh" THEN sent \ {cur} ELSE sent
  /\ asked' = IF attach = "fresh" THEN asked \ {cur} ELSE asked
  /\ attach' = IF cur \in Plan THEN "live" ELSE attach
  /\ tasks' = [tasks EXCEPT ![t] = Task("resume", "none", cur, ViewOf(attach))]
  /\ UNCHANGED <<phase, cur, pinned, mode, row, fixes, rounds, unsure, injected, plan, ticked, queue>>

Resume(t) == ResumeWith(t, blocker)

PickOption(t) ==
  /\ blocker.is # "none"
  /\ \/ ResumeWith(t, [blocker EXCEPT !.is = "decided"])
     \/ /\ ~(run = "paused" /\ attach # "lost" /\ pinned)
        /\ blocker' = [blocker EXCEPT !.is = "decided"]
        /\ UNCHANGED <<run, phase, cur, pins, fixes, rounds, tasks>> /\ Quiet

\* Mutant: the listeners are left off.
ListensNoMore(t) ==
  /\ tasks[t].op \in {"resume", "attach"}
  /\ mode' \in [now : Synced("auto"), saved : {mode.saved}]
  /\ tasks' = [tasks EXCEPT ![t] = IF @.op = "attach" THEN Free ELSE [@ EXCEPT !.op = "resumed"]]
  /\ UNCHANGED <<run, phase, cur, pinned, attach, listening, row, blocker, fixes, rounds>> /\ Quiet

\* resume and attachSession: the listeners are back, the mode is on its way.
Listens(t) ==
  /\ tasks[t].op \in {"resume", "attach"}
  /\ listening' = TRUE /\ mode' \in [now : Synced("auto"), saved : {mode.saved}]
  /\ tasks' = [tasks EXCEPT ![t] = IF @.op = "attach" THEN Free ELSE [@ EXCEPT !.op = "resumed"]]
  /\ UNCHANGED <<run, phase, cur, pinned, attach, row, blocker, fixes, rounds>> /\ Quiet

\* On from what resume saw of the session, without an open blocker.
ResumeSession(t, view) ==
  \/ view = "missing" /\ HandlePause(t)
  \/ view = "done" /\ StartNextSession(t)
  \/ /\ view = "unsent" /\ phase' = "building" /\ fixes' = 0
     /\ Await(t, "gate", "none", tasks[t].sess)
     /\ UNCHANGED <<run, cur, pins, rounds, injected, guide, queue>>
  \/ view = "unasked" /\ HandleBuildCheck(t)
  \/ view = "asked" /\ HandleVerify(t)

\* resume after its awaits: a blocker needs an answer, which is verified next.
\* (Blockers of kind "unknown" do not occur: the parser renames them.)
Resumed(t) ==
  /\ tasks[t].op = "resumed" /\ UNCHANGED <<unsure, ticked>>
  /\ \/ /\ blocker.is = "open" /\ run' = "paused" /\ Done(t)
        /\ UNCHANGED <<phase, cur, pins, blocker, fixes, rounds, injected, guide, queue>>
     \/ /\ blocker.is \in {"open", "decided"} /\ Prompt(t, "recovering")
        /\ blocker' = [blocker EXCEPT !.is = "verifying"]
     \/ /\ blocker.is \in {"none", "verifying"} /\ UNCHANGED blocker
        /\ ResumeSession(t, tasks[t].view)

\* stop up to the mode; the button is there while the run is paused.
Stop(t) ==
  /\ "stop" \in Acts /\ run = "paused" /\ tasks[t] = Free /\ Await(t, "stop", "none", 0)
  /\ run' = "idle" /\ phase' = "none" /\ cur' = 0 /\ blocker' = NoBlocker /\ listening' = FALSE
  /\ mode' \in [now : GivenBack, saved : {mode.saved}]
  /\ UNCHANGED <<pinned, attach, row, fixes, rounds>> /\ Quiet

\* The second half of stop, whatever began in between.
Stopped(t) ==
  /\ tasks[t].op = "stop" /\ Done(t)
  /\ pinned' = FALSE /\ attach' = "live" /\ row' = FALSE /\ mode' = [mode EXCEPT !.saved = "none"]
  /\ UNCHANGED <<run, phase, cur, blocker, listening, fixes, rounds>> /\ Quiet

\* forceReset: the listeners go at once, the rest after the rows are deleted.
ForceReset(t) ==
  /\ "reset" \in Acts /\ run \in {"running", "paused"} /\ tasks[t] = Free
  /\ listening' = FALSE /\ Await(t, "reset", "none", 0)
  /\ UNCHANGED <<run, phase, cur, pinned, attach, mode, row, blocker, fixes, rounds>> /\ Quiet

WasReset(t) ==
  /\ tasks[t].op = "reset" /\ Done(t)
  /\ run' = "idle" /\ phase' = "none" /\ cur' = 0 /\ blocker' = NoBlocker
  /\ pinned' = FALSE /\ attach' = "live" /\ row' = FALSE /\ mode' = [mode EXCEPT !.saved = "none"]
  /\ fixes' = 0 /\ rounds' = 0 /\ unsure' = 0 /\ injected' = FALSE
  /\ UNCHANGED <<listening, guide, ticked, queue>>

\* The user types into the session's chat.
Type ==
  /\ "type" \in Acts /\ queue < MaxQueue /\ queue' = queue + 1
  /\ UNCHANGED <<run, phase, cur, pins, blocker, fixes, rounds, unsure, injected, guide, ticked, tasks>>

ToggleCheck ==
  \E s \in Plan, c \in Checks :
    /\ "tick" \in Acts
    /\ ticked' = [ticked EXCEPT ![s] = (@ \ {c}) \cup ({c} \ @)]
    /\ UNCHANGED <<run, phase, cur, pins, blocker, fixes, rounds, unsure, injected, guide, queue, tasks>>

\* Mark Session Complete on the card of an active session, with clearPause.
MarkComplete ==
  \E s \in Plan :
    /\ "complete" \in Acts
    /\ plan[s] = "active" /\ ticked[s] = Checks /\ plan' = Completed(plan, s)
    /\ IF run = "paused" /\ pinned
         THEN run' = "idle" /\ blocker' = NoBlocker
         ELSE UNCHANGED <<run, blocker>>
    /\ UNCHANGED <<phase, cur, pins, fixes, rounds, unsure, injected, sent, asked, ticked, queue, tasks>>

(* --- restart ------------------------------------------------------------ *)

\* The app ends and starts again: hydrateFromDisk makes a paused run of the
\* row. (A crash between the halves of stop is left to RunRecovery.)
Restart ==
  /\ "restart" \in Acts /\ \A t \in Slots : tasks[t].op # "stop"
  /\ run' = IF row THEN "paused" ELSE "idle"
  /\ phase' = IF row THEN phase ELSE "none"
  /\ cur' = IF row THEN cur ELSE 0
  /\ blocker' = IF row THEN blocker ELSE NoBlocker
  /\ fixes' = IF row THEN fixes ELSE 0
  /\ unsure' = IF row THEN unsure ELSE 0
  /\ pinned' = row /\ attach' = IF row THEN "lost" ELSE "live"
  /\ rounds' = 0 /\ injected' = FALSE /\ listening' = FALSE /\ queue' = 0
  /\ mode' = [now |-> "user", saved |-> "none"]
  /\ tasks' = [t \in Slots |-> Free]
  /\ UNCHANGED <<row, guide, ticked>>

Attach(t) ==
  /\ run = "paused" /\ attach = "lost" /\ tasks[t] = Free /\ Await(t, "attach", "none", 0)
  /\ attach' = "fresh" /\ listening' = FALSE /\ mode' = [mode EXCEPT !.saved = mode.now]
  /\ UNCHANGED <<run, phase, cur, pinned, row, blocker, fixes, rounds>> /\ Quiet

GoOn(t) ==
  \/ EvaluationFails(t) \/ Evaluated(t) \/ ParityReturns(t) \/ GateReturns(t) \/ Finishes(t)
  \/ Begun(t) \/ FirstGateReturns(t) \/ Listens(t) \/ Resumed(t)
  \/ Stopped(t) \/ WasReset(t)

\* Unless "preflight" is in Acts, nothing happens while start awaits its
\* preflight; unless "overlap" is, the user lets a handler finish first.
Calm == "preflight" \in Acts \/ \A t \in Slots : tasks[t].op # "start"
Patient == "overlap" \in Acts \/ \A t \in Slots : tasks[t] = Free

Clicked(t) == Start(t) \/ Resume(t) \/ PickOption(t) \/ Stop(t) \/ ForceReset(t) \/ Attach(t)

Next ==
  \/ \E t \in Slots : Started(t)
  \/ Calm /\ \E t \in Slots : GoOn(t)
  \/ Calm /\ \E t \in Slots : TurnCompletes(t)
  \/ Calm /\ Patient /\ \E t \in Slots : Clicked(t)
  \/ Calm /\ (Pause \/ Type \/ ToggleCheck \/ MarkComplete \/ ProcessExits \/ Restart)

Spec == Init /\ [][Next]_vars

\* What awaits returns, and the agent answers; the user need not do anything.
Fairness ==
  /\ \A t \in Slots : WF_vars(Started(t) \/ (Calm /\ GoOn(t)))
  /\ WF_vars(Calm /\ \E t \in Slots : TurnCompletes(t))

FairSpec == Spec /\ Fairness

(* --- properties --------------------------------------------------------- *)

\* Types and budgets: within a session no more fixes and rounds are counted
\* than the settings allow (handleFix, handleParityRecovery, handleRecheck).
TypeOK ==
  /\ run \in RunStates /\ phase \in Phases /\ cur \in 0..N /\ pinned \in BOOLEAN
  /\ attach \in {"live", "lost", "fresh"} /\ listening \in BOOLEAN /\ row \in BOOLEAN
  /\ mode \in [now : {"user", "auto"}, saved : {"none", "user", "auto"}]
  /\ blocker \in [is : {"none", "open", "decided", "verifying"}, of : 0..N]
  /\ fixes \in 0..MaxFix /\ rounds \in 0..MaxRounds /\ unsure \in 0..MaxUnsure
  /\ injected \in BOOLEAN
  /\ plan \in Plans /\ sent \subseteq Plan /\ asked \subseteq Plan /\ ticked \in Ticks
  /\ queue \in 0..MaxQueue
  /\ tasks \in [Slots -> [op : Ops, phase : Phases, sess : 0..N, view : Views,
                        read : {<<>>} \cup Reads]]

Waiting == \E t \in Slots : tasks[t] # Free

\* A run that shows as running always has something coming: a turn of the
\* agent that will be heard, or a handler that will go on. Otherwise it
\* would show as running for ever with nothing going on.
RunningIsAlive == run = "running" => Waiting \/ (queue > 0 /\ listening /\ pinned)

\* A run that stays running keeps being judged.
KeepsJudging ==
  <>[](run = "running") => []<>(\E t \in Slots : tasks[t].op = "evaluate")

\* A session becomes done only with all its checks ticked at that moment, even
\* if the user unticks one while the parity gate is being waited for.
DoneIsChecked ==
  [][\A s \in Plan : plan[s] # "done" /\ plan'[s] = "done" => ticked'[s] = Checks]_vars

\* What the orchestrator makes of a turn is about the session that was worked
\* on in it: it ticks no check of another session and finishes no other.
VerdictsStayPut ==
  [][\A t \in Slots : tasks[t].op = "evaluate" /\ tasks'[t] # tasks[t] =>
       \A s \in Plan \ {tasks[t].sess} :
         ticked'[s] = ticked[s] /\ (plan'[s] = "done" => plan[s] = "done")]_vars

\* When a stop or the end of the plan has run its course, the session is in the
\* mode it was in before the run ("Self-Drive stopped. Mode restored."), unless
\* one of the calls that set it has failed.
ModeRestored ==
  [][\A t \in Slots :
       tasks[t].op \in {"stop", "finish"} /\ tasks'[t] = Free /\ run' \in {"idle", "completed"}
         => mode'.now = "user"]_vars

\* What the run promises of its plan.
PlanRuns == INSTANCE PlanRun WITH N <- N, run <- run, plan <- plan
Implements == PlanRuns!Spec
=============================================================================
