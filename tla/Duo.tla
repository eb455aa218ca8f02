-------------------------------- MODULE Duo --------------------------------
(***************************************************************************)
(* The review loop of a Duo-Coding run (src/stores/duoStore.ts): a primary *)
(* agent writes, a read-only mentor reviews, and the store moves prompts   *)
(* between the two from the turn_complete events of their CLI sessions.    *)
(*                                                                         *)
(* One action is one synchronous stretch of JavaScript: an event handler,  *)
(* a timer callback, a click, or the code after an await.  A function      *)
(* suspended at an await is a counter or flag of `async`.  The two agents  *)
(* are external; a turn of theirs answers the oldest one or more of the    *)
(* prompts they hold.  A run starts here with its first prompt sent; the   *)
(* two sessions it needs are created before, and reset comes after.        *)
(***************************************************************************)
EXTENDS Integers, Sequences, FiniteSets

CONSTANTS
  MaxDialogueRounds, \* config.maxDialogueRounds
  TieBreakPolicy,    \* config.tieBreakPolicy
  PlanGate,          \* config.planGateEnabled
  LiveReview,        \* config.liveReviewEnabled
  DriftNudge,        \* config.severeDriftNudgeEnabled
  OpThreshold,       \* cadenceParams(...).opThreshold
  BudgetCap,         \* config.budgetUsdCap in units of spending; 0 when null
  Concerns,          \* normalized summaries of the mentor's concerns
  Unclear,           \* the fixed summary of needsClarificationVerdict
  \* Bounds on the environment.
  MaxEdits,          \* mutating tool calls of the primary
  MaxUserMessages,   \* messages the user types into the primary's pane
  MaxPauses,         \* clicks on Pause
  MaxResumes,        \* calls of resume suspended at a time
  MaxRepeats,        \* turns that leaked listeners hear once more
  MaxFetches,        \* suspended calls of getGitDiff of one kind
  MaxAttempts        \* rounds after which the mentor stops objecting

ASSUME ConstantsAssumption ==
  /\ MaxDialogueRounds \in Nat /\ OpThreshold \in Nat \ {0} /\ BudgetCap \in Nat
  /\ TieBreakPolicy \in {"pause", "mentorWins", "primaryWins"}
  /\ PlanGate \in BOOLEAN /\ LiveReview \in BOOLEAN /\ DriftNudge \in BOOLEAN
  /\ Unclear \notin Concerns

ASSUME BoundsAssumption ==
  /\ MaxEdits \in Nat /\ MaxUserMessages \in Nat /\ MaxPauses \in Nat
  /\ MaxResumes \in Nat /\ MaxRepeats \in Nat /\ MaxFetches \in Nat \ {0} /\ MaxAttempts \in Nat

VARIABLES
  run,       \* the store: status, phase, blocker, the counters of the exchange
  rev,       \* the module-level variables of the scheduler, and the listeners
  async,     \* async functions suspended at an await
  toPrimary, \* prompts the primary's session has not answered yet
  toMentor,  \* prompts the mentor's session has not answered yet, oldest first
  tree,      \* version of the working tree; 0 is an empty diff
  cost,      \* metrics.costUsd, saturated at BudgetCap
  user       \* counters of the bounds: messages, pauses, turns heard again

vars == <<run, rev, async, toPrimary, toMentor, tree, cost, user>>

Statuses == {"running", "paused", "completed"}
Phases   == {"planning", "building", "reviewing", "repairing", "dialoguing",
             "escalated", "completed"}
Blockers == {"none", "deadlock", "budget"}
Modes    == {"free", "plan", "incremental", "final", "dialogue"}
Prompts  == (Modes \ {"free"}) \cup {"reask"}

\* What parseDuoVerdict can make of a mentor's answer.  "nit" is a concern or
\* disagreement of severity nit; "defect" is a blocking one with a repairTask;
\* "concern" is any other.
Answers == {"agree", "nit", "concern", "defect", "unparsable"}

RunType == [status : Statuses, phase : Phases, blocker : Blockers,
            repairAttempts : Nat, priorConcerns : SUBSET (Concerns \cup {Unclear}),
            awaitingReAsk : BOOLEAN, tieBreakApplied : BOOLEAN]

RevType == [listening : BOOLEAN, mentorMode : Modes, ops : Nat, timer : BOOLEAN,
            cooling : BOOLEAN, pendingIncremental : BOOLEAN,
            finalReviewQueued : BOOLEAN, lastReviewed : Nat, driftNudged : BOOLEAN]

\* `leaked` is not a function but what two overlapping ones leave behind: a set
\* of listeners that nobody can detach any more.
AsyncType == [incremental : Nat, final : Nat, nudge : Nat, resume : Nat,
              leaked : BOOLEAN, stop : {"no", "closing", "done"}]

----------------------------------------------------------------------------
\* The module-level variables after detachListeners.  `cooling` stands for
\* Date.now() - lastReviewAt < minIntervalMs, `lastReviewed` for
\* lastReviewedDiffHash (0 for null: an empty diff is never reviewed).
Detached ==
  [listening |-> FALSE, mentorMode |-> "free", ops |-> 0, timer |-> FALSE,
   cooling |-> FALSE, pendingIncremental |-> FALSE, finalReviewQueued |-> FALSE,
   lastReviewed |-> 0, driftNudged |-> FALSE]

IsCoReviewPhase(p) == p \in {"building", "repairing", "dialoguing"}
IsOverBudget == BudgetCap > 0 /\ cost >= BudgetCap

\* injectTo(primary, ...) that starts a turn, from the scheduler state r.
InjectPrimary(r) ==
  /\ toPrimary' = toPrimary + 1
  /\ rev' = [r EXCEPT !.ops = 0, !.timer = FALSE, !.driftNudged = FALSE]

\* Somebody hears the agents' events: the run's own listeners or leaked ones.
Listening == rev.listening \/ async.leaked

\* An agent's turn_complete: its cost counts only while somebody listens.
Spend(s) ==
  cost' = IF Listening /\ cost + s <= BudgetCap THEN cost + s ELSE cost

\* How many of k prompts a turn answers.  None, when the event of a turn that
\* was handled before is heard once more by leaked listeners.
Answered(k) ==
  {n \in 0..k : n = 0 => async.leaked /\ user.repeats < MaxRepeats}
HeardAgain(n) ==
  user' = IF n = 0 THEN [user EXCEPT !.repeats = @ + 1] ELSE user

\* sendMessage to a session that stop has closed fails.
Open == async.stop # "done"
AskMentor(kind) == toMentor' = IF Open THEN Append(toMentor, kind) ELSE toMentor
Costs == IF BudgetCap = 0 THEN {0} ELSE {0, 1}

Init ==
  /\ run = [status |-> "running", phase |-> IF PlanGate THEN "planning" ELSE "building",
            blocker |-> "none", repairAttempts |-> 0, priorConcerns |-> {},
            awaitingReAsk |-> FALSE, tieBreakApplied |-> FALSE]
  /\ rev = [Detached EXCEPT !.listening = TRUE]
  /\ async = [incremental |-> 0, final |-> 0, nudge |-> 0, resume |-> 0,
              leaked |-> FALSE, stop |-> "no"]
  /\ toPrimary = 1 /\ toMentor = <<>>
  /\ tree = 0 /\ cost = 0
  /\ user = [messages |-> 0, pauses |-> 0, repeats |-> 0]

----------------------------------------------------------------------------
\* The tie-break.  Each operator takes the store b and the scheduler r as the
\* handler has left them so far.

\* resolveTieBreak("mentorWins"): the primary is told to comply.
MentorWins(b, r) ==
  /\ run' = [b EXCEPT !.status = "running", !.phase = "repairing",
                      !.blocker = "none", !.tieBreakApplied = TRUE]
  /\ InjectPrimary(r)

\* resolveTieBreak("primaryWins"): the dissent is logged, nobody is prompted.
PrimaryWins(b, r) ==
  /\ run' = [b EXCEPT !.status = "running", !.phase = "building", !.blocker = "none",
                      !.repairAttempts = 0, !.tieBreakApplied = FALSE]
  /\ rev' = r
  /\ UNCHANGED toPrimary

ApplyTieBreak(b, r) ==
  \/ /\ TieBreakPolicy = "pause"
     /\ run' = [b EXCEPT !.status = "paused", !.phase = "escalated",
                         !.blocker = "deadlock"]
     /\ rev' = Detached
     /\ UNCHANGED toPrimary
  \/ TieBreakPolicy = "mentorWins" /\ MentorWins(b, r)
  \/ TieBreakPolicy = "primaryWins" /\ PrimaryWins(b, r)

\* Mutant: the last round is granted once more.
RoundsExhaustedLate(b) == ~b.tieBreakApplied /\ b.repairAttempts > MaxDialogueRounds
RoundsExhausted(b) == ~b.tieBreakApplied /\ b.repairAttempts >= MaxDialogueRounds

CompleteRun(b, r) ==
  /\ run' = [b EXCEPT !.status = "completed", !.phase = "completed",
                      !.repairAttempts = 0, !.priorConcerns = {},
                      !.tieBreakApplied = FALSE]
  /\ rev' = [r EXCEPT !.mentorMode = "free", !.timer = FALSE]
  /\ UNCHANGED toPrimary

\* Mutant: an advisory verdict is noted and nobody is prompted.
BatchConcern(b, r, c) ==
  /\ run' = [b EXCEPT !.priorConcerns = @ \cup {c}]
  /\ rev' = r
  /\ UNCHANGED toPrimary

\* Mutant: neither the round nor the concern is remembered.
PursueForever(b, r, c) ==
  /\ run' = [b EXCEPT !.phase = "dialoguing"]
  /\ InjectPrimary(r)

\* executeVerdict for a verdict that is not an approval.
PursueConcern(b, r, c) ==
  LET noted == [b EXCEPT !.priorConcerns = @ \cup {c}]
      pingPong == ~b.tieBreakApplied /\ c \in b.priorConcerns
  IN  \/ (pingPong \/ RoundsExhausted(b)) /\ ApplyTieBreak(noted, r)
      \/ /\ ~(pingPong \/ RoundsExhausted(b))
         /\ run' = [noted EXCEPT !.phase = "dialoguing", !.repairAttempts = @ + 1]
         /\ InjectPrimary(r)

----------------------------------------------------------------------------
\* The primary's turn_complete.

\* pauseIfOverBudget, with the cost of the turn that just ended counted.
PauseOverBudget(b) ==
  /\ run' = [b EXCEPT !.status = "paused", !.phase = "escalated", !.blocker = "budget"]
  /\ rev' = Detached
  /\ UNCHANGED <<async, toMentor>>

\* Mutants: the mentor is asked, and mentorMode is not set, is always "final",
\* or takes the name of the phase.
HandOverUnrouted(b, r, kind) ==
  /\ run' = [b EXCEPT !.phase = "reviewing", !.awaitingReAsk = FALSE]
  /\ rev' = r
  /\ AskMentor(kind)
  /\ UNCHANGED async
HandOverAsFinal(b, r, kind) ==
  /\ run' = [b EXCEPT !.phase = "reviewing", !.awaitingReAsk = FALSE]
  /\ rev' = [r EXCEPT !.mentorMode = "final"]
  /\ AskMentor(kind)
  /\ UNCHANGED async
HandOverByPhase(b, r, kind) ==
  /\ run' = [b EXCEPT !.phase = "reviewing", !.awaitingReAsk = FALSE]
  /\ rev' = [r EXCEPT !.mentorMode = b.phase]
  /\ AskMentor(kind)
  /\ UNCHANGED async

\* Branches (A) and (B): the plan, or the reply to a concern, goes to the mentor.
HandOver(b, r, kind) ==
  /\ run' = [b EXCEPT !.phase = "reviewing", !.awaitingReAsk = FALSE]
  /\ rev' = [r EXCEPT !.mentorMode = kind]
  /\ AskMentor(kind)
  /\ UNCHANGED async

\* Branch (C): a final review, now or when the mentor is free.
RequestFinalReview(b, r) ==
  /\ run' = b
  /\ \/ /\ r.mentorMode # "free"
        /\ rev' = [r EXCEPT !.timer = FALSE, !.finalReviewQueued = TRUE]
        /\ UNCHANGED async
     \/ /\ r.mentorMode = "free"
        /\ rev' = [r EXCEPT !.timer = FALSE]
        /\ async' = [async EXCEPT !.final = @ + 1]
  /\ UNCHANGED toMentor

\* Mutant: the cap is looked at before the turn's own cost is counted.
SpentUpBefore == BudgetCap > 0 /\ cost >= BudgetCap
SpentUp == BudgetCap > 0 /\ cost' >= BudgetCap

HandlePrimaryTurnComplete(b, r) ==
  \/ SpentUp /\ PauseOverBudget(b)
  \/ /\ ~SpentUp
     /\ \/ b.phase = "planning" /\ HandOver(b, r, "plan")
        \/ b.phase = "dialoguing" /\ HandOver(b, r, "dialogue")
        \/ b.phase \notin {"planning", "dialoguing"} /\ RequestFinalReview(b, r)

\* onSessionEvent("primary", turn_complete).  A completed run is reopened.
PrimaryTurn ==
  \E n \in Answered(toPrimary), s \in Costs :
    /\ async.final < MaxFetches
    /\ toPrimary' = toPrimary - n
    /\ Spend(s) /\ HeardAgain(n)
    /\ UNCHANGED tree
    /\ \/ /\ ~Listening \/ run.status = "paused"
          /\ UNCHANGED <<run, rev, async, toMentor>>
       \/ /\ Listening /\ run.status = "running"
          /\ HandlePrimaryTurnComplete(run, rev)
       \/ /\ Listening /\ run.status = "completed"
          /\ HandlePrimaryTurnComplete(
               [run EXCEPT !.status = "running", !.phase = "building"],
               [rev EXCEPT !.ops = 0, !.driftNudged = FALSE])

\* runFinalReview after its getGitDiff: nothing is looked at again.  When the
\* diff cannot be read the review goes on without it.
RunFinalReview ==
  /\ async.final > 0
  /\ async' = [async EXCEPT !.final = @ - 1]
  /\ run' = [run EXCEPT !.phase = "reviewing", !.awaitingReAsk = FALSE]
  /\ \E diff \in {0, tree} :
       rev' = [rev EXCEPT !.mentorMode = "final",
                          !.lastReviewed = IF diff > 0 THEN diff ELSE @]
  /\ AskMentor("final")
  /\ UNCHANGED <<toPrimary, tree, cost, user>>

----------------------------------------------------------------------------
\* The mentor's turn_complete, routed by mentorMode.

Heard == Listening /\ run.status = "running"

\* The mentor answers its n oldest prompts; `more` is what the handler sends it.
AnswerMentor(n, s, more) ==
  /\ toMentor' = SubSeq(toMentor, n + 1, Len(toMentor)) \o more
  /\ Spend(s) /\ HeardAgain(n)
  /\ UNCHANGED tree

MentorUnheard ==
  \E n \in Answered(Len(toMentor)), s \in Costs :
    /\ ~Heard
    /\ AnswerMentor(n, s, <<>>)
    /\ UNCHANGED <<run, rev, async, toPrimary>>

\* The first unparsable answer outside a live review is asked for once more.
ReAsk ==
  \E n \in Answered(Len(toMentor)), s \in Costs :
    /\ Heard /\ rev.mentorMode # "incremental" /\ ~run.awaitingReAsk
    /\ AnswerMentor(n, s, <<"reask">>)
    /\ run' = [run EXCEPT !.awaitingReAsk = TRUE]
    /\ UNCHANGED <<rev, async, toPrimary>>

\* handleDuoPlanComplete with a verdict, or with a second unparsable answer.
PlanVerdict(answer) ==
  \E n \in Answered(Len(toMentor)), s \in Costs :
    LET b == [run EXCEPT !.awaitingReAsk = FALSE]
        r == [rev EXCEPT !.mentorMode = "free"]
    IN  /\ Heard /\ rev.mentorMode = "plan"
        /\ answer = "unparsable" => run.awaitingReAsk
        /\ AnswerMentor(n, s, <<>>)
        /\ UNCHANGED async
        /\ \/ /\ answer = "agree"
              /\ run' = [b EXCEPT !.phase = "building", !.repairAttempts = 0,
                                  !.priorConcerns = {}]
              /\ InjectPrimary(r)
           \/ answer # "agree" /\ RoundsExhausted(b) /\ ApplyTieBreak(b, r)
           \/ /\ answer # "agree" /\ ~RoundsExhausted(b)
              /\ run.repairAttempts < MaxAttempts
              /\ run' = [b EXCEPT !.phase = "planning", !.repairAttempts = @ + 1]
              /\ InjectPrimary(r)

\* handleDuoTurnComplete with a parsed verdict: every mode but plan and
\* incremental, the free one included.
FinalVerdict(answer, c) ==
  \E n \in Answered(Len(toMentor)), s \in Costs :
    LET b == [run EXCEPT !.awaitingReAsk = FALSE]
        r == [rev EXCEPT !.mentorMode = "free"]
    IN  /\ Heard /\ rev.mentorMode \notin {"plan", "incremental"}
        /\ AnswerMentor(n, s, <<>>)
        /\ UNCHANGED async
        /\ \/ answer \in {"agree", "nit"} /\ CompleteRun(b, r)
           \/ /\ answer \in {"concern", "defect"} /\ run.repairAttempts < MaxAttempts
              /\ PursueConcern(b, r, c)

\* handleDuoTurnComplete with a second unparsable answer: the verdict is
\* needsClarification, and awaitingReAsk and mentorMode stay as they were.
FinalUnclear ==
  \E n \in Answered(Len(toMentor)), s \in Costs :
    /\ Heard /\ rev.mentorMode \notin {"plan", "incremental"}
    /\ run.awaitingReAsk /\ run.repairAttempts < MaxAttempts
    /\ AnswerMentor(n, s, <<>>)
    /\ UNCHANGED async
    /\ PursueConcern(run, rev, Unclear)

\* Mutant: edits made during the review do not arm the timer again.
AfterIncrementalIdle(r, a) ==
  \/ /\ r.finalReviewQueued /\ a.final < MaxFetches
     /\ rev' = [r EXCEPT !.finalReviewQueued = FALSE]
     /\ async' = [a EXCEPT !.final = @ + 1]
  \/ /\ ~r.finalReviewQueued
     /\ rev' = r
     /\ async' = a

\* Mutant: the end of a live review does not look at the queue.
AfterIncrementalUnqueued(r, a) ==
  /\ rev' = [r EXCEPT !.timer = @ \/ r.pendingIncremental \/ r.ops > 0]
  /\ async' = a

\* The end of handleDuoIncrementalComplete: a queued final review, or another pass.
AfterIncremental(r, a) ==
  \/ /\ r.finalReviewQueued /\ a.final < MaxFetches
     /\ rev' = [r EXCEPT !.finalReviewQueued = FALSE]
     /\ async' = [a EXCEPT !.final = @ + 1]
  \/ /\ ~r.finalReviewQueued
     /\ rev' = [r EXCEPT !.timer = @ \/ r.pendingIncremental \/ r.ops > 0]
     /\ async' = a

IncrementalVerdict(answer) ==
  \E n \in Answered(Len(toMentor)), s \in Costs :
    LET r == [rev EXCEPT !.mentorMode = "free"]
    IN  /\ Heard /\ rev.mentorMode = "incremental"
        /\ AnswerMentor(n, s, <<>>)
        /\ UNCHANGED run
        /\ \/ /\ answer = "defect" /\ async.nudge < MaxFetches
              /\ toPrimary' = toPrimary + 1
              /\ rev' = r
              /\ async' = [async EXCEPT !.nudge = @ + 1]
           \/ /\ answer # "defect"
              /\ AfterIncremental(r, async)
              /\ UNCHANGED toPrimary

\* handleDuoIncrementalComplete after the await of its nudge.
NudgeSent ==
  /\ async.nudge > 0
  /\ AfterIncremental(rev, [async EXCEPT !.nudge = @ - 1])
  /\ UNCHANGED <<run, toPrimary, toMentor, tree, cost, user>>

----------------------------------------------------------------------------
\* Live co-review while the primary works.

\* maybeTriggerIncrementalReview from the scheduler state r.
MaybeTrigger(r, checkpoint) ==
  LET eligible == LiveReview /\ run.status = "running" /\ IsCoReviewPhase(run.phase)
      busy == r.mentorMode # "free" \/ IsOverBudget
      throttled == r.cooling /\ ~checkpoint
  IN  \/ ~eligible /\ rev' = r /\ UNCHANGED async
      \/ /\ eligible /\ busy
         /\ rev' = [r EXCEPT !.pendingIncremental = TRUE]
         /\ UNCHANGED async
      \/ /\ eligible /\ ~busy /\ throttled
         /\ rev' = [r EXCEPT !.pendingIncremental = TRUE, !.timer = TRUE]
         /\ UNCHANGED async
      \/ /\ eligible /\ ~busy /\ ~throttled /\ async.incremental < MaxFetches
         /\ rev' = [r EXCEPT !.timer = FALSE, !.ops = 0, !.cooling = TRUE,
                             !.pendingIncremental = FALSE]
         /\ async' = [async EXCEPT !.incremental = @ + 1]

\* A mutating tool call of the working primary; `severe` ones are drift.
Edit(severe) ==
  LET drifts == Heard /\ severe /\ ~rev.driftNudged
      r == [rev EXCEPT !.driftNudged = @ \/ drifts,
                       !.ops = IF LiveReview /\ IsCoReviewPhase(run.phase) THEN @ + 1 ELSE @]
  IN  /\ toPrimary > 0 /\ tree < MaxEdits
      /\ tree' = tree + 1
      /\ toPrimary' = IF drifts /\ DriftNudge THEN toPrimary + 1 ELSE toPrimary
      /\ \/ ~Heard /\ UNCHANGED <<rev, async>>
         \/ /\ Heard /\ ~(LiveReview /\ IsCoReviewPhase(run.phase))
            /\ rev' = r /\ UNCHANGED async
         \/ /\ Heard /\ LiveReview /\ IsCoReviewPhase(run.phase)
            /\ \/ r.ops >= OpThreshold /\ MaybeTrigger(r, FALSE)
               \/ /\ r.ops < OpThreshold
                  /\ rev' = [r EXCEPT !.timer = TRUE] /\ UNCHANGED async
      /\ UNCHANGED <<run, toMentor, cost, user>>

\* A build or test command of the working primary.
Checkpoint ==
  /\ toPrimary > 0 /\ Heard
  /\ LiveReview /\ IsCoReviewPhase(run.phase)
  /\ MaybeTrigger(rev, TRUE)
  /\ UNCHANGED <<run, toPrimary, toMentor, tree, cost, user>>

TimerFires ==
  /\ rev.timer
  /\ MaybeTrigger([rev EXCEPT !.timer = FALSE], FALSE)
  /\ UNCHANGED <<run, toPrimary, toMentor, tree, cost, user>>

\* startHeartbeat's interval: only when the mentor is free.
Heartbeat ==
  /\ Heard /\ LiveReview /\ IsCoReviewPhase(run.phase) /\ rev.mentorMode = "free"
  /\ MaybeTrigger(rev, FALSE)
  /\ UNCHANGED <<run, toPrimary, toMentor, tree, cost, user>>

\* minIntervalMs have passed since the last live review.
IntervalElapses ==
  /\ rev.cooling
  /\ rev' = [rev EXCEPT !.cooling = FALSE]
  /\ UNCHANGED <<run, async, toPrimary, toMentor, tree, cost, user>>

\* triggerIncrementalReview after its getGitDiff: a diff that is empty, cannot
\* be read or is unchanged is skipped, and nothing else is looked at again.
RunIncrementalReview ==
  /\ async.incremental > 0
  /\ async' = [async EXCEPT !.incremental = @ - 1]
  /\ \E diff \in {0, tree} :
       \/ /\ diff \in {0, rev.lastReviewed}
          /\ UNCHANGED <<rev, toMentor>>
       \/ /\ diff \notin {0, rev.lastReviewed}
          /\ rev' = [rev EXCEPT !.lastReviewed = diff, !.mentorMode = "incremental"]
          /\ AskMentor("incremental")
  /\ UNCHANGED <<run, toPrimary, tree, cost, user>>

\* The duo:snapshot listener: what the backend's analyst spent counts too.
AnalystSnapshot ==
  /\ Listening /\ cost < BudgetCap
  /\ cost' = cost + 1
  /\ UNCHANGED <<run, rev, async, toPrimary, toMentor, tree, user>>

----------------------------------------------------------------------------
\* The user.

\* The primary's pane accepts messages whatever the run is doing.
UserMessage ==
  /\ Open /\ user.messages < MaxUserMessages
  /\ user' = [user EXCEPT !.messages = @ + 1]
  /\ toPrimary' = toPrimary + 1
  /\ UNCHANGED <<run, rev, async, toMentor, tree, cost>>

Pause ==
  /\ run.status = "running" /\ user.pauses < MaxPauses
  /\ user' = [user EXCEPT !.pauses = @ + 1]
  /\ run' = [run EXCEPT !.status = "paused"]
  /\ rev' = Detached
  /\ UNCHANGED <<async, toPrimary, toMentor, tree, cost>>

\* Mutant: resume does not look at the blocker.
ResumeBlocked ==
  /\ run.status = "paused" /\ async.resume < MaxResumes
  /\ rev' = Detached
  /\ async' = [async EXCEPT !.resume = @ + 1]
  /\ UNCHANGED <<run, toPrimary, toMentor, tree, cost, user>>

\* resume up to the await of attachListeners, which detaches first.  It does
\* not look for another one under way: the button stays while the run is paused.
Resume ==
  /\ run.status = "paused" /\ run.blocker = "none" /\ async.resume < MaxResumes
  /\ rev' = Detached
  /\ async' = [async EXCEPT !.resume = @ + 1]
  /\ UNCHANGED <<run, toPrimary, toMentor, tree, cost, user>>

\* The end of resume: whatever has become of the run, it is heard and running.
\* Where another resume attached listeners before, theirs are overwritten in
\* the map and leak.
Resumed ==
  /\ async.resume > 0
  /\ rev' = [rev EXCEPT !.listening = TRUE]
  /\ async' = [async EXCEPT !.resume = @ - 1, !.leaked = @ \/ rev.listening]
  /\ run' = [run EXCEPT !.status = "running"]
  /\ UNCHANGED <<toPrimary, toMentor, tree, cost, user>>

\* Mutant: the choices are offered for a budget stop as well.
ResolveAnyBlocker ==
  /\ run.status = "paused" /\ run.blocker # "none"
  /\ MentorWins(run, rev) \/ PrimaryWins(run, rev)
  /\ UNCHANGED <<async, toMentor, tree, cost, user>>

\* The tie-break modal offers a choice for a deadlock; for a budget stop only Stop.
ResolveTieBreak ==
  /\ run.status = "paused" /\ run.blocker = "deadlock"
  /\ MentorWins(run, rev) \/ PrimaryWins(run, rev)
  /\ UNCHANGED <<async, toMentor, tree, cost, user>>

\* stop up to its first await: the status is not touched yet.
Stop ==
  /\ run.status \in {"running", "paused"} /\ async.stop = "no"
  /\ rev' = Detached
  /\ async' = [async EXCEPT !.stop = "closing"]
  /\ UNCHANGED <<run, toPrimary, toMentor, tree, cost, user>>

\* The end of stop: both sessions are closed, with whatever they held.
Stopped ==
  /\ async.stop = "closing"
  /\ async' = [async EXCEPT !.stop = "done"]
  /\ run' = [run EXCEPT !.status = "completed", !.phase = "completed"]
  /\ toPrimary' = 0 /\ toMentor' = <<>>
  /\ UNCHANGED <<rev, tree, cost, user>>

----------------------------------------------------------------------------
MentorTurn ==
  \/ MentorUnheard
  \/ ReAsk
  \/ \E answer \in Answers : PlanVerdict(answer)
  \/ \E answer \in Answers \ {"unparsable"}, c \in Concerns : FinalVerdict(answer, c)
  \/ FinalUnclear
  \/ \E answer \in Answers : IncrementalVerdict(answer)

LiveCoReview ==
  \/ \E severe \in BOOLEAN : Edit(severe)
  \/ Checkpoint
  \/ TimerFires
  \/ Heartbeat
  \/ IntervalElapses
  \/ RunIncrementalReview
  \/ NudgeSent

UserAction ==
  \/ UserMessage
  \/ Pause
  \/ Resume
  \/ Resumed
  \/ ResolveTieBreak
  \/ Stop
  \/ Stopped

Next ==
  \/ PrimaryTurn \/ RunFinalReview \/ MentorTurn \/ LiveCoReview
  \/ AnalystSnapshot \/ UserAction

Spec == Init /\ [][Next]_vars

\* Both agents eventually end a turn they are in, and getGitDiff returns.
FairSpec ==
  Spec /\ WF_vars(PrimaryTurn) /\ WF_vars(MentorTurn) /\ WF_vars(RunFinalReview)

----------------------------------------------------------------------------
\* Every variable keeps the shape the store and the scheduler give it.
TypeOK ==
  /\ run \in RunType /\ rev \in RevType /\ async \in AsyncType
  /\ toPrimary \in Nat /\ toMentor \in Seq(Prompts)
  /\ tree \in Nat /\ cost \in 0..BudgetCap
  /\ user \in [messages : Nat, pauses : Nat, repeats : Nat]

\* Until a tie-break was decided for the mentor, an exchange never outgrows the
\* configured rounds (executeVerdict and handleDuoPlanComplete).
BoundedRounds == run.tieBreakApplied \/ run.repairAttempts <= MaxDialogueRounds

\* A run at rest: paused, not heard, and no resume is about to set it going.
AtRest == run.status = "paused" /\ ~rev.listening /\ async.resume = 0

\* A run at rest that waits for a decision of the user stays at rest until the
\* decision clears the blocker or Stop ends the run: no click on Resume, no late
\* turn and no suspended function sets it going (resume, onSessionEvent).
BlockedRunIsStill ==
  [][run.blocker # "none" /\ AtRest
       => AtRest' \/ run'.blocker = "none" \/ run'.status = "completed"]_vars

\* Nobody but the user's Stop, or a resume that was clicked before it, ends a
\* budget stop; a resume clicked later is refused.
BudgetStopIsFinal ==
  [][run.status = "paused" /\ run.blocker = "budget"
       => /\ async'.resume <= async.resume
          /\ async'.resume = async.resume
               => run'.status \in {"paused", "completed"} /\ run'.blocker = "budget"]_vars

\* A run the store follows always has an agent at work or about to be asked:
\* the loop never waits for an event that nobody will send.
NeverIdle == Heard => toPrimary > 0 \/ toMentor # <<>> \/ async.final > 0

\* A run that says it is running hears the turns of its agents.  It does not
\* after a tie-break: applyTieBreak detaches the listeners and resolveTieBreak
\* attaches none (README, Disagreements); no run checks it.
RunningIsHeard == run.status = "running" /\ async.stop = "no" => rev.listening

\* The mentor's next turn is handled as an answer to what it was asked.
MentorTurnsRouted ==
  Heard => \A i \in DOMAIN toMentor : toMentor[i] \in {"reask", rev.mentorMode}

\* A finished turn of the primary that waits for its final review is not
\* forgotten: while the mentor is free the review is starting, or the primary is
\* at work again and its next turn will ask for one (handlePrimaryTurnComplete,
\* handleDuoIncrementalComplete).
QueuedReviewIsTaken ==
  Heard /\ rev.finalReviewQueued /\ rev.mentorMode = "free"
    => toPrimary > 0 \/ async.final > 0

\* Only a judgement of finished work completes a run: never the answer to a
\* plan or to a live review, never an answer that was not awaited.
CompletedByFinalReview ==
  [][run.status = "running" /\ run'.status = "completed" /\ Open'
       => /\ rev.mentorMode \in {"final", "dialogue"}
          /\ \A i \in DOMAIN toMentor : toMentor[i] \in {"final", "dialogue", "reask"}]_vars

\* What the mentor has been asked, or will be by a function under way.
Owed == Len(toMentor) + async.final + async.incremental + async.nudge

\* Once the cap is reached, whoever spent the last of it and whenever, the run
\* winds down: reviews under way are asked for and unparsable answers asked for
\* again, and nothing is begun on top of them.  Leaked listeners begin things twice.
WindsDownOverBudget ==
  [][IsOverBudget' /\ ~async.leaked => Owed' <= Owed]_vars

\* Edits of the primary that no live review has covered always have something
\* coming that will cover them: a timer, a busy mentor that reschedules when
\* free, a nudge being sent, or the final review of the turn.
EditsGetReviewed ==
  Heard /\ rev.ops > 0 /\ IsCoReviewPhase(run.phase) /\ ~IsOverBudget
    => rev.timer \/ rev.mentorMode # "free" \/ async.nudge > 0 \/ async.final > 0

\* A followed run comes to a decision: it completes, pauses for the user, or is
\* stopped; no exchange of the two agents goes on forever.
RunEnds == Heard ~> (run.status # "running" \/ async.stop # "no")
============================================================================
