----------------------------- MODULE DuoProofs -----------------------------
(***************************************************************************)
(* Proofs about the review loop of module Duo, for every policy, number of *)
(* rounds, set of concerns and bound on the environment.                   *)
(***************************************************************************)
EXTENDS Duo, SequenceTheorems, TLAPS

----------------------------------------------------------------------------
\* Type correctness, one lemma per helper the actions are built from.

UserType == [messages : Nat, pauses : Nat, repeats : Nat]

LEMMA DetachedType == Detached \in RevType
BY DEF Detached, RevType, Modes

\* What is left of the mentor's prompts is again a sequence of prompts.
LEMMA AnsweredType ==
  ASSUME NEW q \in Seq(Prompts), NEW n \in 0..Len(q)
  PROVE  SubSeq(q, n + 1, Len(q)) \in Seq(Prompts)
<1>1. \A i \in (n + 1)..Len(q) : q[i] \in Prompts
  OBVIOUS
<1> QED
  BY <1>1, SubSeqProperties

LEMMA HeardAgainType ==
  ASSUME TypeOK, NEW n, HeardAgain(n) PROVE user' \in UserType
<1>1. user \in [messages : Nat, pauses : Nat, repeats : Nat]
  BY DEF TypeOK
<1> QED
  BY <1>1 DEF HeardAgain, UserType

LEMMA AnswerMentorType ==
  ASSUME TypeOK, NEW n \in Answered(Len(toMentor)), NEW s \in Costs,
         NEW more \in Seq(Prompts), AnswerMentor(n, s, more)
  PROVE  toMentor' \in Seq(Prompts) /\ cost' \in 0..BudgetCap
         /\ tree' \in Nat /\ user' \in UserType
<1>0. n \in 0..Len(toMentor)
  BY DEF Answered
<1>1. SubSeq(toMentor, n + 1, Len(toMentor)) \in Seq(Prompts)
  BY <1>0, AnsweredType DEF TypeOK
<1>2. toMentor' \in Seq(Prompts)
  BY <1>1, ConcatProperties DEF AnswerMentor
<1>3. cost' \in 0..BudgetCap
  BY DEF AnswerMentor, Spend, Costs, TypeOK
<1>4. user' \in UserType
  BY HeardAgainType DEF AnswerMentor
<1> QED
  BY <1>2, <1>3, <1>4 DEF AnswerMentor, TypeOK

LEMMA InjectPrimaryType ==
  ASSUME NEW r \in RevType, toPrimary \in Nat, InjectPrimary(r)
  PROVE  rev' \in RevType /\ toPrimary' \in Nat
<1>1. rev' \in RevType
  BY DEF InjectPrimary, RevType
<1>2. toPrimary' \in Nat
  BY DEF InjectPrimary
<1> QED
  BY <1>1, <1>2

LEMMA MentorWinsType ==
  ASSUME NEW b \in RunType, NEW r \in RevType, toPrimary \in Nat, MentorWins(b, r)
  PROVE  run' \in RunType /\ rev' \in RevType /\ toPrimary' \in Nat
<1>1. run' = [b EXCEPT !.status = "running", !.phase = "repairing",
                       !.blocker = "none", !.tieBreakApplied = TRUE]
  BY DEF MentorWins
<1>2. run' \in RunType
  BY <1>1 DEF RunType, Statuses, Phases, Blockers
<1>3. InjectPrimary(r)
  BY DEF MentorWins
<1> QED
  BY <1>2, <1>3, InjectPrimaryType

LEMMA PrimaryWinsType ==
  ASSUME NEW b \in RunType, NEW r \in RevType, toPrimary \in Nat, PrimaryWins(b, r)
  PROVE  run' \in RunType /\ rev' \in RevType /\ toPrimary' \in Nat
<1>1. run' = [b EXCEPT !.status = "running", !.phase = "building", !.blocker = "none",
                       !.repairAttempts = 0, !.tieBreakApplied = FALSE]
  BY DEF PrimaryWins
<1>2. run' \in RunType
  BY <1>1 DEF RunType, Statuses, Phases, Blockers
<1> QED
  BY <1>2 DEF PrimaryWins

LEMMA ApplyTieBreakType ==
  ASSUME NEW b \in RunType, NEW r \in RevType, toPrimary \in Nat, ApplyTieBreak(b, r)
  PROVE  run' \in RunType /\ rev' \in RevType /\ toPrimary' \in Nat
<1>1. CASE /\ run' = [b EXCEPT !.status = "paused", !.phase = "escalated",
                               !.blocker = "deadlock"]
           /\ rev' = Detached
           /\ UNCHANGED toPrimary
  <2>1. run' \in RunType
    BY <1>1 DEF RunType, Statuses, Phases, Blockers
  <2> QED
    BY <1>1, <2>1, DetachedType
<1>2. CASE MentorWins(b, r)
  BY <1>2, MentorWinsType
<1>3. CASE PrimaryWins(b, r)
  BY <1>3, PrimaryWinsType
<1> QED
  BY <1>1, <1>2, <1>3 DEF ApplyTieBreak

LEMMA CompleteRunType ==
  ASSUME NEW b \in RunType, NEW r \in RevType, toPrimary \in Nat, CompleteRun(b, r)
  PROVE  run' \in RunType /\ rev' \in RevType /\ toPrimary' \in Nat
BY DEF CompleteRun, RunType, RevType, Modes, Statuses, Phases, Blockers

LEMMA PursueConcernType ==
  ASSUME NEW b \in RunType, NEW r \in RevType, NEW c \in Concerns \cup {Unclear},
         toPrimary \in Nat, PursueConcern(b, r, c)
  PROVE  run' \in RunType /\ rev' \in RevType /\ toPrimary' \in Nat
<1> DEFINE noted == [b EXCEPT !.priorConcerns = @ \cup {c}]
<1>1. noted \in RunType
  BY DEF RunType
<1> HIDE DEF noted
<1>2. CASE ApplyTieBreak(noted, r)
  BY <1>1, <1>2, ApplyTieBreakType
<1>3. CASE /\ run' = [noted EXCEPT !.phase = "dialoguing", !.repairAttempts = @ + 1]
           /\ InjectPrimary(r)
  <2>1. run' = [noted EXCEPT !.phase = "dialoguing", !.repairAttempts = @ + 1]
    BY <1>3
  <2>2. noted.repairAttempts + 1 \in Nat
    BY <1>1 DEF RunType
  <2>3. run' \in RunType
    BY <1>1, <2>1, <2>2 DEF RunType, Phases
  <2> QED
    BY <1>3, <2>3, InjectPrimaryType
<1> QED
  BY <1>2, <1>3 DEF PursueConcern, noted

LEMMA AskMentorType ==
  ASSUME toMentor \in Seq(Prompts), NEW kind \in Prompts, AskMentor(kind)
  PROVE  toMentor' \in Seq(Prompts)
BY DEF AskMentor

LEMMA HandOverType ==
  ASSUME NEW b \in RunType, NEW r \in RevType, NEW kind \in {"plan", "dialogue"},
         async \in AsyncType, toMentor \in Seq(Prompts), HandOver(b, r, kind)
  PROVE  /\ run' \in RunType /\ rev' \in RevType /\ async' \in AsyncType
         /\ toMentor' \in Seq(Prompts)
<1>1. run' \in RunType
  BY DEF HandOver, RunType, Phases
<1>2. rev' \in RevType
  BY DEF HandOver, RevType, Modes
<1>3. toMentor' \in Seq(Prompts)
  BY AskMentorType DEF HandOver, Prompts, Modes
<1> QED
  BY <1>1, <1>2, <1>3 DEF HandOver

LEMMA RequestFinalReviewType ==
  ASSUME NEW b \in RunType, NEW r \in RevType, async \in AsyncType,
         toMentor \in Seq(Prompts), RequestFinalReview(b, r)
  PROVE  /\ run' \in RunType /\ rev' \in RevType /\ async' \in AsyncType
         /\ toMentor' \in Seq(Prompts)
<1>1. rev' \in RevType
  BY DEF RequestFinalReview, RevType
<1>2. async' \in AsyncType
  BY DEF RequestFinalReview, AsyncType
<1> QED
  BY <1>1, <1>2 DEF RequestFinalReview

LEMMA HandlePrimaryTurnCompleteType ==
  ASSUME NEW b \in RunType, NEW r \in RevType, async \in AsyncType,
         toMentor \in Seq(Prompts), HandlePrimaryTurnComplete(b, r)
  PROVE  /\ run' \in RunType /\ rev' \in RevType /\ async' \in AsyncType
         /\ toMentor' \in Seq(Prompts)
<1>1. CASE PauseOverBudget(b)
  <2>1. run' \in RunType
    BY <1>1 DEF PauseOverBudget, RunType, Statuses, Phases, Blockers
  <2> QED
    BY <1>1, <2>1, DetachedType DEF PauseOverBudget
<1>2. CASE HandOver(b, r, "plan")
  BY <1>2, HandOverType
<1>3. CASE HandOver(b, r, "dialogue")
  BY <1>3, HandOverType
<1>4. CASE RequestFinalReview(b, r)
  BY <1>4, RequestFinalReviewType
<1> QED
  BY <1>1, <1>2, <1>3, <1>4 DEF HandlePrimaryTurnComplete

LEMMA AfterIncrementalType ==
  ASSUME NEW r \in RevType, NEW a \in AsyncType, AfterIncremental(r, a)
  PROVE  rev' \in RevType /\ async' \in AsyncType
<1>1. CASE /\ rev' = [r EXCEPT !.finalReviewQueued = FALSE]
           /\ async' = [a EXCEPT !.final = @ + 1]
  <2>1. rev' \in RevType
    BY <1>1 DEF RevType
  <2>2. async' \in AsyncType
    BY <1>1 DEF AsyncType
  <2> QED
    BY <2>1, <2>2
<1>2. CASE /\ rev' = [r EXCEPT !.timer = @ \/ r.pendingIncremental \/ r.ops > 0]
           /\ async' = a
  BY <1>2 DEF RevType
<1> QED
  BY <1>1, <1>2 DEF AfterIncremental

LEMMA MaybeTriggerType ==
  ASSUME NEW r \in RevType, NEW checkpoint \in BOOLEAN, async \in AsyncType,
         MaybeTrigger(r, checkpoint)
  PROVE  rev' \in RevType /\ async' \in AsyncType
<1>1. CASE rev' = r /\ UNCHANGED async
  BY <1>1
<1>2. CASE rev' = [r EXCEPT !.pendingIncremental = TRUE] /\ UNCHANGED async
  BY <1>2 DEF RevType
<1>3. CASE rev' = [r EXCEPT !.pendingIncremental = TRUE, !.timer = TRUE] /\ UNCHANGED async
  BY <1>3 DEF RevType
<1>4. CASE /\ rev' = [r EXCEPT !.timer = FALSE, !.ops = 0, !.cooling = TRUE,
                               !.pendingIncremental = FALSE]
           /\ async' = [async EXCEPT !.incremental = @ + 1]
  <2>1. rev' \in RevType
    BY <1>4 DEF RevType
  <2>2. async' \in AsyncType
    BY <1>4 DEF AsyncType
  <2> QED
    BY <2>1, <2>2
<1> QED
  BY <1>1, <1>2, <1>3, <1>4 DEF MaybeTrigger

----------------------------------------------------------------------------
\* Every variable of the loop keeps its shape.
THEOREM TypeCorrect == Spec => []TypeOK
<1>1. Init => TypeOK
  <2> SUFFICES ASSUME Init PROVE TypeOK
    OBVIOUS
  <2>1. run \in RunType
    BY DEF Init, RunType, Statuses, Phases, Blockers
  <2>2. rev \in RevType
    BY DEF Init, Detached, RevType, Modes
  <2>3. async \in AsyncType
    BY DEF Init, AsyncType
  <2> QED
    BY <2>1, <2>2, <2>3, ConstantsAssumption DEF Init, TypeOK
<1>2. TypeOK /\ [Next]_vars => TypeOK'
  <2> SUFFICES ASSUME TypeOK, [Next]_vars PROVE TypeOK'
    OBVIOUS
  <2> USE DEF TypeOK
  <2>1. CASE PrimaryTurn
    <3>1. PICK n \in Answered(toPrimary), s \in Costs :
            /\ toPrimary' = toPrimary - n
            /\ Spend(s) /\ HeardAgain(n)
            /\ UNCHANGED tree
            /\ \/ UNCHANGED <<run, rev, async, toMentor>>
               \/ HandlePrimaryTurnComplete(run, rev)
               \/ HandlePrimaryTurnComplete(
                    [run EXCEPT !.status = "running", !.phase = "building"],
                    [rev EXCEPT !.ops = 0, !.driftNudged = FALSE])
      BY <2>1 DEF PrimaryTurn
    <3>2. toPrimary' \in Nat /\ cost' \in 0..BudgetCap /\ user' \in UserType
      BY <3>1, HeardAgainType DEF Spend, Costs, Answered
    <3>3. [run EXCEPT !.status = "running", !.phase = "building"] \in RunType
      BY DEF RunType, Statuses, Phases
    <3>4. [rev EXCEPT !.ops = 0, !.driftNudged = FALSE] \in RevType
      BY DEF RevType
    <3>5. /\ run' \in RunType /\ rev' \in RevType /\ async' \in AsyncType
          /\ toMentor' \in Seq(Prompts)
      BY <3>1, <3>3, <3>4, HandlePrimaryTurnCompleteType
    <3> QED
      BY <3>1, <3>2, <3>5 DEF UserType
  <2>2. CASE RunFinalReview
    <3>1. run' \in RunType
      BY <2>2 DEF RunFinalReview, RunType, Phases
    <3>2. rev' \in RevType
      <4>1. PICK diff \in {0, tree} :
              rev' = [rev EXCEPT !.mentorMode = "final",
                                 !.lastReviewed = IF diff > 0 THEN diff ELSE @]
        BY <2>2 DEF RunFinalReview
      <4>2. diff \in Nat
        BY <4>1
      <4> QED
        BY <4>1, <4>2 DEF RevType, Modes
    <3>3. async' \in AsyncType
      BY <2>2 DEF RunFinalReview, AsyncType
    <3>4. toMentor' \in Seq(Prompts)
      BY <2>2, AskMentorType DEF RunFinalReview, Prompts, Modes
    <3> QED
      BY <2>2, <3>1, <3>2, <3>3, <3>4 DEF RunFinalReview
  <2>3. CASE MentorTurn
    <3>0. \A n \in Answered(Len(toMentor)), s \in Costs, more \in {<<>>, <<"reask">>} :
            AnswerMentor(n, s, more)
              => /\ toMentor' \in Seq(Prompts) /\ cost' \in 0..BudgetCap
                 /\ tree' \in Nat /\ user' \in [messages : Nat, pauses : Nat, repeats : Nat]
      <4>1. {<<>>, <<"reask">>} \subseteq Seq(Prompts)
        BY DEF Prompts
      <4> QED
        BY <4>1, AnswerMentorType DEF UserType
    <3>1. \A b \in RunType, r \in RevType, c \in Concerns \cup {Unclear} :
            PursueConcern(b, r, c)
              => run' \in RunType /\ rev' \in RevType /\ toPrimary' \in Nat
      BY PursueConcernType
    <3> DEFINE b == [run EXCEPT !.awaitingReAsk = FALSE]
               r == [rev EXCEPT !.mentorMode = "free"]
    <3>2. b \in RunType
      BY DEF RunType
    <3>3. r \in RevType
      BY DEF RevType, Modes
    <3>4. CASE MentorUnheard
      <4>1. PICK n \in Answered(Len(toMentor)), s \in Costs : AnswerMentor(n, s, <<>>)
        BY <3>4 DEF MentorUnheard
      <4> QED
        BY <3>0, <3>4, <4>1 DEF MentorUnheard
    <3>5. CASE ReAsk
      <4>1. PICK n \in Answered(Len(toMentor)), s \in Costs : AnswerMentor(n, s, <<"reask">>)
        BY <3>5 DEF ReAsk
      <4>2. run' \in RunType
        BY <3>5 DEF ReAsk, RunType
      <4> QED
        BY <3>0, <3>5, <4>1, <4>2 DEF ReAsk
    <3>6. ASSUME NEW answer \in Answers, PlanVerdict(answer)
          PROVE  TypeOK'
      <4>1. PICK n \in Answered(Len(toMentor)), s \in Costs :
              /\ AnswerMentor(n, s, <<>>)
              /\ UNCHANGED async
              /\ \/ /\ run' = [b EXCEPT !.phase = "building", !.repairAttempts = 0,
                                        !.priorConcerns = {}]
                    /\ InjectPrimary(r)
                 \/ ApplyTieBreak(b, r)
                 \/ /\ run' = [b EXCEPT !.phase = "planning", !.repairAttempts = @ + 1]
                    /\ InjectPrimary(r)
        BY <3>6 DEF PlanVerdict
      <4> HIDE DEF b, r
      <4>2. CASE /\ run' = [b EXCEPT !.phase = "building", !.repairAttempts = 0,
                                     !.priorConcerns = {}]
                 /\ InjectPrimary(r)
        <5>1. run' \in RunType
          BY <3>2, <4>2 DEF RunType, Phases
        <5> QED
          BY <3>0, <3>3, <4>1, <4>2, <5>1, InjectPrimaryType
      <4>3. CASE ApplyTieBreak(b, r)
        BY <3>0, <3>2, <3>3, <4>1, <4>3, ApplyTieBreakType
      <4>4. CASE /\ run' = [b EXCEPT !.phase = "planning", !.repairAttempts = @ + 1]
                 /\ InjectPrimary(r)
        <5>1. b.repairAttempts + 1 \in Nat
          BY <3>2 DEF RunType
        <5>2. run' \in RunType
          BY <3>2, <4>4, <5>1 DEF RunType, Phases
        <5> QED
          BY <3>0, <3>3, <4>1, <4>4, <5>2, InjectPrimaryType
      <4> QED
        BY <4>1, <4>2, <4>3, <4>4
    <3>7. ASSUME NEW answer \in Answers, NEW c \in Concerns, FinalVerdict(answer, c)
          PROVE  TypeOK'
      <4>1. PICK n \in Answered(Len(toMentor)), s \in Costs :
              /\ AnswerMentor(n, s, <<>>)
              /\ UNCHANGED async
              /\ CompleteRun(b, r) \/ PursueConcern(b, r, c)
        BY <3>7 DEF FinalVerdict
      <4> HIDE DEF b, r
      <4>2. run' \in RunType /\ rev' \in RevType /\ toPrimary' \in Nat
        BY <3>1, <3>2, <3>3, <4>1, CompleteRunType
      <4> QED
        BY <3>0, <4>1, <4>2
    <3>8. CASE FinalUnclear
      <4>1. PICK n \in Answered(Len(toMentor)), s \in Costs : AnswerMentor(n, s, <<>>)
        BY <3>8 DEF FinalUnclear
      <4> QED
        BY <3>0, <3>1, <3>8, <4>1 DEF FinalUnclear
    <3>9. ASSUME NEW answer \in Answers, IncrementalVerdict(answer)
          PROVE  TypeOK'
      <4>1. PICK n \in Answered(Len(toMentor)), s \in Costs :
              /\ AnswerMentor(n, s, <<>>)
              /\ UNCHANGED run
              /\ \/ /\ toPrimary' = toPrimary + 1
                    /\ rev' = r
                    /\ async' = [async EXCEPT !.nudge = @ + 1]
                 \/ AfterIncremental(r, async) /\ UNCHANGED toPrimary
        BY <3>9 DEF IncrementalVerdict
      <4> HIDE DEF r
      <4>2. [async EXCEPT !.nudge = @ + 1] \in AsyncType
        BY DEF AsyncType
      <4>3. ASSUME AfterIncremental(r, async), UNCHANGED toPrimary
            PROVE  rev' \in RevType /\ async' \in AsyncType /\ toPrimary' \in Nat
        <5>1. async \in AsyncType /\ toPrimary \in Nat
          OBVIOUS
        <5>2. rev' \in RevType /\ async' \in AsyncType
          BY <3>3, <4>3, <5>1, AfterIncrementalType
        <5> QED
          BY <4>3, <5>1, <5>2
      <4>4. ASSUME toPrimary' = toPrimary + 1, rev' = r,
                   async' = [async EXCEPT !.nudge = @ + 1]
            PROVE  rev' \in RevType /\ async' \in AsyncType /\ toPrimary' \in Nat
        BY <3>3, <4>2, <4>4
      <4>5. rev' \in RevType /\ async' \in AsyncType /\ toPrimary' \in Nat
        BY <4>1, <4>3, <4>4
      <4> QED
        BY <3>0, <4>1, <4>5
    <3> QED
      BY <2>3, <3>4, <3>5, <3>6, <3>7, <3>8, <3>9 DEF MentorTurn
  <2>4. CASE LiveCoReview
    <3>1. \A r \in RevType, checkpoint \in BOOLEAN :
            MaybeTrigger(r, checkpoint) => rev' \in RevType /\ async' \in AsyncType
      BY MaybeTriggerType
    <3>2. ASSUME NEW severe \in BOOLEAN, Edit(severe)
          PROVE  TypeOK'
      <4> DEFINE drifts == Heard /\ severe /\ ~rev.driftNudged
                 r == [rev EXCEPT !.driftNudged = @ \/ drifts,
                                  !.ops = IF LiveReview /\ IsCoReviewPhase(run.phase)
                                          THEN @ + 1 ELSE @]
      <4>0. rev.ops + 1 \in Nat /\ (rev.driftNudged \/ drifts) \in BOOLEAN
        BY DEF RevType
      <4>1. r \in RevType
        BY <4>0 DEF RevType
      <4>2. /\ tree' = tree + 1
            /\ toPrimary' = IF drifts /\ DriftNudge THEN toPrimary + 1 ELSE toPrimary
            /\ \/ UNCHANGED <<rev, async>>
               \/ rev' = r /\ UNCHANGED async
               \/ MaybeTrigger(r, FALSE)
               \/ rev' = [r EXCEPT !.timer = TRUE] /\ UNCHANGED async
            /\ UNCHANGED <<run, toMentor, cost, user>>
        BY <3>2 DEF Edit
      <4> HIDE DEF drifts, r
      <4>3. [r EXCEPT !.timer = TRUE] \in RevType
        BY <4>1 DEF RevType
      <4>4. rev' \in RevType /\ async' \in AsyncType
        BY <3>1, <4>1, <4>2, <4>3
      <4>5. tree' \in Nat /\ toPrimary' \in Nat
        BY <4>2
      <4> QED
        BY <4>2, <4>4, <4>5
    <3>3. CASE Checkpoint
      BY <3>1, <3>3 DEF Checkpoint
    <3>4. CASE TimerFires
      <4>1. [rev EXCEPT !.timer = FALSE] \in RevType
        BY DEF RevType
      <4> QED
        BY <3>1, <3>4, <4>1 DEF TimerFires
    <3>5. CASE Heartbeat
      BY <3>1, <3>5 DEF Heartbeat
    <3>6. CASE IntervalElapses
      <4>1. rev' \in RevType
        BY <3>6 DEF IntervalElapses, RevType
      <4> QED
        BY <3>6, <4>1 DEF IntervalElapses
    <3>7. CASE RunIncrementalReview
      <4>1. rev' \in RevType
        <5>1. PICK diff \in {0, tree} :
                \/ UNCHANGED rev
                \/ rev' = [rev EXCEPT !.lastReviewed = diff, !.mentorMode = "incremental"]
          BY <3>7 DEF RunIncrementalReview
        <5>2. diff \in Nat
          BY <5>1
        <5> QED
          BY <5>1, <5>2 DEF RevType, Modes
      <4>2. async' \in AsyncType
        BY <3>7 DEF RunIncrementalReview, AsyncType
      <4>3. toMentor' \in Seq(Prompts)
        BY <3>7, AskMentorType DEF RunIncrementalReview, Prompts, Modes
      <4> QED
        BY <3>7, <4>1, <4>2, <4>3 DEF RunIncrementalReview
    <3>8. CASE NudgeSent
      <4>1. async.nudge > 0
        BY <3>8 DEF NudgeSent
      <4>2. [async EXCEPT !.nudge = @ - 1] \in AsyncType
        BY <4>1 DEF AsyncType
      <4> QED
        BY <3>8, <4>2, AfterIncrementalType DEF NudgeSent
    <3> QED
      BY <2>4, <3>2, <3>3, <3>4, <3>5, <3>6, <3>7, <3>8 DEF LiveCoReview
  <2>5. CASE UserAction
    <3>1. CASE UserMessage
      <4>1. user' \in UserType
        BY <3>1 DEF UserMessage, UserType
      <4> QED
        BY <3>1, <4>1 DEF UserMessage, UserType
    <3>2. CASE Pause
      <4>1. run' \in RunType
        BY <3>2 DEF Pause, RunType, Statuses
      <4>2. user' \in UserType
        BY <3>2 DEF Pause, UserType
      <4> QED
        BY <3>2, <4>1, <4>2, DetachedType DEF Pause, UserType
    <3>3. CASE Resume
      <4>1. async' \in AsyncType
        BY <3>3 DEF Resume, AsyncType
      <4> QED
        BY <3>3, <4>1, DetachedType DEF Resume
    <3>4. CASE Resumed
      <4>1. run' \in RunType
        BY <3>4 DEF Resumed, RunType, Statuses
      <4>2. rev' \in RevType
        BY <3>4 DEF Resumed, RevType
      <4>3. async' \in AsyncType
        <5>1. async.resume \in Nat /\ async.resume > 0 /\ async.leaked \in BOOLEAN
              /\ rev.listening \in BOOLEAN
          BY <3>4 DEF Resumed, AsyncType, RevType
        <5>2. async.resume - 1 \in Nat /\ (async.leaked \/ rev.listening) \in BOOLEAN
          BY <5>1
        <5>3. async' = [async EXCEPT !.resume = @ - 1, !.leaked = @ \/ rev.listening]
          BY <3>4 DEF Resumed
        <5> QED
          BY <5>2, <5>3 DEF AsyncType
      <4> QED
        BY <3>4, <4>1, <4>2, <4>3 DEF Resumed
    <3>5. CASE ResolveTieBreak
      <4>1. run' \in RunType /\ rev' \in RevType /\ toPrimary' \in Nat
        BY <3>5, MentorWinsType, PrimaryWinsType DEF ResolveTieBreak
      <4> QED
        BY <3>5, <4>1 DEF ResolveTieBreak
    <3>6. CASE Stop
      <4>1. async' \in AsyncType
        BY <3>6 DEF Stop, AsyncType
      <4> QED
        BY <3>6, <4>1, DetachedType DEF Stop
    <3>7. CASE Stopped
      <4>1. run' \in RunType
        BY <3>7 DEF Stopped, RunType, Statuses, Phases
      <4>2. async' \in AsyncType
        BY <3>7 DEF Stopped, AsyncType
      <4> QED
        BY <3>7, <4>1, <4>2 DEF Stopped
    <3> QED
      BY <2>5, <3>1, <3>2, <3>3, <3>4, <3>5, <3>6, <3>7 DEF UserAction
  <2>6. CASE AnalystSnapshot
    <3>1. cost' \in 0..BudgetCap
      BY <2>6, ConstantsAssumption DEF AnalystSnapshot
    <3> QED
      BY <2>6, <3>1 DEF AnalystSnapshot
  <2>7. CASE UNCHANGED vars
    BY <2>7 DEF vars
  <2> QED
    BY <2>1, <2>2, <2>3, <2>4, <2>5, <2>6, <2>7 DEF Next
<1> QED
  BY <1>1, <1>2, PTL DEF Spec


----------------------------------------------------------------------------
\* The listeners and the resumes under way, where only the user disturbs them.

SameListeners(r) ==
  /\ rev'.listening = r.listening
  /\ async'.resume = async.resume /\ async'.leaked = async.leaked

\* The events of live co-review leave the run and its listeners alone.
LEMMA LiveKeeps ==
  ASSUME TypeOK, LiveCoReview PROVE UNCHANGED run /\ SameListeners(rev)
<1>1. rev \in RevType /\ async \in AsyncType
  BY DEF TypeOK
<1>2. ASSUME NEW r \in RevType, NEW checkpoint, MaybeTrigger(r, checkpoint)
      PROVE  SameListeners(r)
  BY <1>1, <1>2 DEF MaybeTrigger, RevType, AsyncType, SameListeners
<1>3. ASSUME NEW severe \in BOOLEAN, Edit(severe)
      PROVE  UNCHANGED run /\ SameListeners(rev)
  <2> DEFINE drifts == Heard /\ severe /\ ~rev.driftNudged
             r == [rev EXCEPT !.driftNudged = @ \/ drifts,
                              !.ops = IF LiveReview /\ IsCoReviewPhase(run.phase)
                                        THEN @ + 1 ELSE @]
  <2>1. rev.ops + 1 \in Nat /\ (rev.driftNudged \/ drifts) \in BOOLEAN
    BY <1>1 DEF RevType
  <2>2. r \in RevType /\ r.listening = rev.listening
    BY <1>1, <2>1 DEF RevType
  <2>3. /\ UNCHANGED run
        /\ \/ UNCHANGED <<rev, async>>
           \/ rev' = r /\ UNCHANGED async
           \/ MaybeTrigger(r, FALSE)
           \/ rev' = [r EXCEPT !.timer = TRUE] /\ UNCHANGED async
    BY <1>3 DEF Edit
  <2> HIDE DEF drifts, r
  <2>4. [r EXCEPT !.timer = TRUE].listening = r.listening
    BY <2>2 DEF RevType
  <2> QED
    BY <1>2, <2>2, <2>3, <2>4 DEF SameListeners
<1>4. ASSUME Checkpoint \/ Heartbeat
      PROVE  SameListeners(rev)
  BY <1>1, <1>2, <1>4 DEF Checkpoint, Heartbeat, SameListeners
<1>5. ASSUME TimerFires
      PROVE  SameListeners(rev)
  <2>1. /\ [rev EXCEPT !.timer = FALSE] \in RevType
        /\ [rev EXCEPT !.timer = FALSE].listening = rev.listening
    BY <1>1 DEF RevType
  <2> QED
    BY <1>2, <1>5, <2>1 DEF TimerFires, SameListeners
<1>6. ASSUME IntervalElapses \/ RunIncrementalReview
      PROVE  SameListeners(rev)
  BY <1>1, <1>6 DEF IntervalElapses, RunIncrementalReview, RevType, AsyncType,
     SameListeners
<1>7. ASSUME NudgeSent
      PROVE  SameListeners(rev)
  BY <1>1, <1>7 DEF NudgeSent, AfterIncremental, RevType, AsyncType, SameListeners
<1> QED
  <2>1. CASE Checkpoint \/ Heartbeat \/ TimerFires
    BY <1>4, <1>5, <2>1 DEF Checkpoint, Heartbeat, TimerFires
  <2>2. CASE IntervalElapses \/ RunIncrementalReview \/ NudgeSent
    BY <1>6, <1>7, <2>2 DEF IntervalElapses, RunIncrementalReview, NudgeSent
  <2> QED
    BY <1>3, <2>1, <2>2 DEF LiveCoReview

\* Either way of deciding a tie sets the run going.
LEMMA WinnersRun ==
  ASSUME NEW b \in RunType, NEW r, MentorWins(b, r) \/ PrimaryWins(b, r)
  PROVE  run'.status = "running" /\ run'.blocker = "none"
<1>1. CASE MentorWins(b, r)
  <2>1. run' = [b EXCEPT !.status = "running", !.phase = "repairing",
                         !.blocker = "none", !.tieBreakApplied = TRUE]
    BY <1>1 DEF MentorWins
  <2> QED
    BY <2>1 DEF RunType
<1>2. CASE PrimaryWins(b, r)
  <2>1. run' = [b EXCEPT !.status = "running", !.phase = "building", !.blocker = "none",
                         !.repairAttempts = 0, !.tieBreakApplied = FALSE]
    BY <1>2 DEF PrimaryWins
  <2> QED
    BY <2>1 DEF RunType
<1> QED
  BY <1>1, <1>2

\* Whoever pauses the run detaches its listeners.
LEMMA TieBreakQuiet ==
  ASSUME NEW b \in RunType, NEW r, ApplyTieBreak(b, r)
  PROVE  run'.status = "paused" => ~rev'.listening
<1>1. CASE rev' = Detached
  BY <1>1 DEF Detached
<1>2. CASE MentorWins(b, r) \/ PrimaryWins(b, r)
  BY <1>2, WinnersRun
<1> QED
  BY <1>1, <1>2 DEF ApplyTieBreak

LEMMA PursueConcernQuiet ==
  ASSUME NEW b \in RunType, NEW r, NEW c \in Concerns \cup {Unclear},
         b.status = "running", PursueConcern(b, r, c)
  PROVE  run'.status = "paused" => ~rev'.listening
<1> DEFINE noted == [b EXCEPT !.priorConcerns = @ \cup {c}]
<1>1. noted \in RunType /\ noted.status = "running"
  BY DEF RunType
<1> HIDE DEF noted
<1>2. CASE ApplyTieBreak(noted, r)
  BY <1>1, <1>2, TieBreakQuiet
<1>3. CASE run' = [noted EXCEPT !.phase = "dialoguing", !.repairAttempts = @ + 1]
  BY <1>1, <1>3 DEF RunType
<1> QED
  BY <1>2, <1>3 DEF PursueConcern, noted

LEMMA HandlePrimaryTurnCompleteQuiet ==
  ASSUME NEW b \in RunType, NEW r, b.status = "running", HandlePrimaryTurnComplete(b, r)
  PROVE  run'.status = "paused" => ~rev'.listening
<1>1. CASE PauseOverBudget(b)
  BY <1>1 DEF PauseOverBudget, Detached
<1>2. CASE HandOver(b, r, "plan") \/ HandOver(b, r, "dialogue")
  BY <1>2 DEF HandOver, RunType
<1>3. CASE RequestFinalReview(b, r)
  BY <1>3 DEF RequestFinalReview
<1> QED
  BY <1>1, <1>2, <1>3 DEF HandlePrimaryTurnComplete

Quiet == run.status = "paused" => ~rev.listening

\* A paused run has no listeners of its own: only leaked ones still hear.
THEOREM PausedIsQuiet == Spec => []Quiet
<1>1. Init => Quiet
  BY DEF Init, Quiet
<1>2. TypeOK /\ Quiet /\ [Next]_vars => Quiet'
  <2> SUFFICES ASSUME TypeOK, Quiet, [Next]_vars PROVE Quiet'
    OBVIOUS
  <2> USE DEF Quiet
  <2>1. run \in RunType /\ rev \in RevType /\ async \in AsyncType
    BY DEF TypeOK
  <2>2. CASE PrimaryTurn
    <3>1. CASE UNCHANGED <<run, rev>>
      BY <3>1
    <3>2. CASE run.status = "running" /\ HandlePrimaryTurnComplete(run, rev)
      BY <2>1, <3>2, HandlePrimaryTurnCompleteQuiet
    <3>3. CASE HandlePrimaryTurnComplete(
                 [run EXCEPT !.status = "running", !.phase = "building"],
                 [rev EXCEPT !.ops = 0, !.driftNudged = FALSE])
      <4> DEFINE b == [run EXCEPT !.status = "running", !.phase = "building"]
                 r == [rev EXCEPT !.ops = 0, !.driftNudged = FALSE]
      <4>1. b \in RunType /\ b.status = "running"
        BY <2>1 DEF RunType, Statuses, Phases
      <4>2. HandlePrimaryTurnComplete(b, r)
        BY <3>3
      <4> HIDE DEF b, r
      <4> QED
        BY <4>1, <4>2, HandlePrimaryTurnCompleteQuiet
    <3> QED
      BY <2>2, <3>1, <3>2, <3>3 DEF PrimaryTurn
  <2>3. CASE RunFinalReview
    BY <2>1, <2>3 DEF RunFinalReview, RunType, RevType
  <2>4. CASE MentorTurn
    <3> DEFINE b == [run EXCEPT !.awaitingReAsk = FALSE]
               r == [rev EXCEPT !.mentorMode = "free"]
    <3>1. b \in RunType /\ b.status = run.status
      BY <2>1 DEF RunType
    <3>2. CASE MentorUnheard
      BY <3>2 DEF MentorUnheard
    <3>3. CASE ReAsk
      BY <2>1, <3>3 DEF ReAsk, RunType
    <3>4. ASSUME NEW answer \in Answers, PlanVerdict(answer) PROVE Quiet'
      <4>1. /\ run.status = "running"
            /\ \/ run' = [b EXCEPT !.phase = "building", !.repairAttempts = 0,
                                   !.priorConcerns = {}]
               \/ ApplyTieBreak(b, r)
               \/ run' = [b EXCEPT !.phase = "planning", !.repairAttempts = @ + 1]
        BY <3>4 DEF PlanVerdict, Heard
      <4> HIDE DEF b, r
      <4> QED
        BY <3>1, <4>1, TieBreakQuiet DEF RunType
    <3>5. ASSUME NEW answer \in Answers, NEW c \in Concerns, FinalVerdict(answer, c)
          PROVE  Quiet'
      <4>1. run.status = "running" /\ (CompleteRun(b, r) \/ PursueConcern(b, r, c))
        BY <3>5 DEF FinalVerdict, Heard
      <4> HIDE DEF b, r
      <4> QED
        BY <3>1, <4>1, PursueConcernQuiet DEF CompleteRun, RunType
    <3>6. CASE FinalUnclear
      BY <2>1, <3>6, PursueConcernQuiet DEF FinalUnclear, Heard
    <3>7. ASSUME NEW answer \in Answers, IncrementalVerdict(answer) PROVE Quiet'
      BY <3>7 DEF IncrementalVerdict, Heard
    <3> QED
      BY <2>4, <3>2, <3>3, <3>4, <3>5, <3>6, <3>7 DEF MentorTurn
  <2>5. CASE LiveCoReview
    BY <2>5, LiveKeeps DEF SameListeners
  <2>6. CASE AnalystSnapshot
    BY <2>6 DEF AnalystSnapshot
  <2>7. CASE UserAction
    <3>1. CASE UserMessage
      BY <3>1 DEF UserMessage
    <3>2. CASE Pause \/ Resume \/ Stop
      BY <3>2 DEF Pause, Resume, Stop, Detached
    <3>3. CASE Resumed \/ Stopped
      BY <2>1, <3>3 DEF Resumed, Stopped, RunType
    <3>4. CASE ResolveTieBreak
      BY <2>1, <3>4, WinnersRun DEF ResolveTieBreak
    <3> QED
      BY <2>7, <3>1, <3>2, <3>3, <3>4 DEF UserAction
  <2>8. CASE UNCHANGED vars
    BY <2>8 DEF vars
  <2> QED
    BY <2>2, <2>3, <2>4, <2>5, <2>6, <2>7, <2>8 DEF Next
<1> QED
  BY <1>1, <1>2, TypeCorrect, PTL DEF Spec

\* What happens to a paused run without the user's doing: nothing that is heard.
LEMMA PausedKeeps ==
  ASSUME TypeOK, run.status = "paused",
         PrimaryTurn \/ RunFinalReview \/ MentorTurn \/ LiveCoReview \/ AnalystSnapshot
  PROVE  run'.status = "paused" /\ run'.blocker = run.blocker /\ SameListeners(rev)
<1>1. run \in RunType /\ rev \in RevType /\ async \in AsyncType /\ ~Heard
  BY DEF TypeOK, Heard
<1>2. CASE PrimaryTurn
  BY <1>2 DEF PrimaryTurn, SameListeners
<1>3. CASE RunFinalReview
  BY <1>1, <1>3 DEF RunFinalReview, RunType, RevType, AsyncType, SameListeners
<1>4. CASE MentorTurn
  BY <1>1, <1>4 DEF MentorTurn, MentorUnheard, ReAsk, PlanVerdict, FinalVerdict, FinalUnclear,
     IncrementalVerdict, SameListeners
<1>5. CASE LiveCoReview
  BY <1>5, LiveKeeps
<1>6. CASE AnalystSnapshot
  BY <1>6 DEF AnalystSnapshot, SameListeners
<1> QED
  BY <1>2, <1>3, <1>4, <1>5, <1>6

\* A run at rest with a blocker stays at rest, whatever the agents send, what
\* was suspended before and what the user clicks, until the blocker is cleared
\* by a decision or Stop ends the run (resume, resolveTieBreak, onSessionEvent).
THEOREM BlockedStaysStill == Spec => BlockedRunIsStill
<1>1. ASSUME TypeOK, Next, run.blocker # "none", AtRest
      PROVE  AtRest' \/ run'.blocker = "none" \/ run'.status = "completed"
  <2> USE <1>1
  <2>1. run \in RunType /\ async \in AsyncType /\ async.resume = 0 /\ run.status = "paused"
    BY DEF TypeOK, AtRest
  <2>2. CASE PrimaryTurn \/ RunFinalReview \/ MentorTurn \/ LiveCoReview \/ AnalystSnapshot
    BY <2>2, PausedKeeps DEF AtRest, SameListeners
  <2>3. CASE UserAction
    <3>1. ~Pause /\ ~Resume /\ ~Resumed
      BY <2>1 DEF Pause, Resume, Resumed
    <3>2. CASE UserMessage
      BY <3>2 DEF UserMessage, AtRest
    <3>3. CASE ResolveTieBreak
      BY <2>1, <3>3, WinnersRun DEF ResolveTieBreak
    <3>4. CASE Stop
      BY <2>1, <3>4 DEF Stop, Detached, AtRest, AsyncType
    <3>5. CASE Stopped
      BY <2>1, <3>5 DEF Stopped, RunType
    <3> QED
      BY <2>3, <3>1, <3>2, <3>3, <3>4, <3>5 DEF UserAction
  <2> QED
    BY <2>2, <2>3 DEF Next
<1>2. TypeOK /\ [Next]_vars
        => [run.blocker # "none" /\ AtRest
              => AtRest' \/ run'.blocker = "none" \/ run'.status = "completed"]_vars
  BY <1>1
<1> QED
  BY <1>2, TypeCorrect, PTL DEF Spec, BlockedRunIsStill

\* While a run waits at its budget no resume begins, and without one that was
\* begun before nothing but the user's Stop changes it: not a turn heard by
\* leaked listeners, not a review that was under way (resume, resolveTieBreak).
THEOREM BudgetStop == Spec => BudgetStopIsFinal
<1>1. ASSUME TypeOK, Next, run.status = "paused", run.blocker = "budget"
      PROVE  /\ async'.resume <= async.resume
             /\ async'.resume = async.resume
                  => run'.status \in {"paused", "completed"} /\ run'.blocker = "budget"
  <2> USE <1>1
  <2>1. run \in RunType /\ async \in AsyncType /\ async.resume \in Nat
    BY DEF TypeOK, AsyncType
  <2>2. CASE PrimaryTurn \/ RunFinalReview \/ MentorTurn \/ LiveCoReview \/ AnalystSnapshot
    BY <2>1, <2>2, PausedKeeps DEF SameListeners
  <2>3. CASE UserAction
    <3>1. ~Pause /\ ~Resume /\ ~ResolveTieBreak
      BY DEF Pause, Resume, ResolveTieBreak
    <3>2. CASE UserMessage
      BY <2>1, <3>2 DEF UserMessage
    <3>3. CASE Resumed
      <4>1. async'.resume = async.resume - 1
        BY <2>1, <3>3 DEF Resumed, AsyncType
      <4> QED
        BY <2>1, <4>1
    <3>4. CASE Stop
      BY <2>1, <3>4 DEF Stop, AsyncType
    <3>5. CASE Stopped
      BY <2>1, <3>5 DEF Stopped, RunType, AsyncType
    <3> QED
      BY <2>3, <3>1, <3>2, <3>3, <3>4, <3>5 DEF UserAction
  <2> QED
    BY <2>2, <2>3 DEF Next
<1>2. TypeOK /\ [Next]_vars
        => [run.status = "paused" /\ run.blocker = "budget"
              => /\ async'.resume <= async.resume
                 /\ async'.resume = async.resume
                      => run'.status \in {"paused", "completed"} /\ run'.blocker = "budget"]_vars
  <2> SUFFICES ASSUME TypeOK, [Next]_vars, run.status = "paused", run.blocker = "budget",
                      ~UNCHANGED vars
               PROVE  /\ async'.resume <= async.resume
                      /\ async'.resume = async.resume
                           => run'.status \in {"paused", "completed"} /\ run'.blocker = "budget"
    OBVIOUS
  <2> QED
    BY <1>1
<1> QED
  BY <1>2, TypeCorrect, PTL DEF Spec, BudgetStopIsFinal

----------------------------------------------------------------------------
\* Until a tie-break was decided for the mentor, the exchange keeps to the
\* configured rounds.

LEMMA TieBreakBounded ==
  ASSUME NEW b \in RunType, NEW r, ApplyTieBreak(b, r),
         b.tieBreakApplied \/ b.repairAttempts <= MaxDialogueRounds
  PROVE  BoundedRounds'
<1>1. CASE run' = [b EXCEPT !.status = "paused", !.phase = "escalated",
                            !.blocker = "deadlock"]
  BY <1>1 DEF BoundedRounds, RunType
<1>2. CASE MentorWins(b, r)
  BY <1>2 DEF MentorWins, BoundedRounds, RunType
<1>3. CASE PrimaryWins(b, r)
  BY <1>3, ConstantsAssumption DEF PrimaryWins, BoundedRounds, RunType
<1> QED
  BY <1>1, <1>2, <1>3 DEF ApplyTieBreak

LEMMA PursueConcernBounded ==
  ASSUME NEW b \in RunType, NEW r, NEW c \in Concerns \cup {Unclear},
         PursueConcern(b, r, c),
         b.tieBreakApplied \/ b.repairAttempts <= MaxDialogueRounds
  PROVE  BoundedRounds'
<1> DEFINE noted == [b EXCEPT !.priorConcerns = @ \cup {c}]
<1>1. /\ noted \in RunType
      /\ noted.tieBreakApplied = b.tieBreakApplied
      /\ noted.repairAttempts = b.repairAttempts
  BY DEF RunType
<1> HIDE DEF noted
<1>2. CASE ApplyTieBreak(noted, r)
  BY <1>1, <1>2, TieBreakBounded
<1>3. CASE /\ ~RoundsExhausted(b)
           /\ run' = [noted EXCEPT !.phase = "dialoguing", !.repairAttempts = @ + 1]
  <2>1. /\ run'.tieBreakApplied = b.tieBreakApplied
        /\ run'.repairAttempts = b.repairAttempts + 1
    BY <1>1, <1>3 DEF RunType
  <2>2. b.repairAttempts \in Nat
    BY DEF RunType
  <2> QED
    BY <1>3, <2>1, <2>2, ConstantsAssumption DEF RoundsExhausted, BoundedRounds
<1> QED
  BY <1>2, <1>3 DEF PursueConcern, noted

THEOREM BoundedRoundsInvariant == Spec => []BoundedRounds
<1>1. Init => BoundedRounds
  BY ConstantsAssumption DEF Init, BoundedRounds
<1>2. TypeOK /\ BoundedRounds /\ [Next]_vars => BoundedRounds'
  <2> SUFFICES ASSUME TypeOK, BoundedRounds, [Next]_vars PROVE BoundedRounds'
    OBVIOUS
  <2>1. ASSUME run'.tieBreakApplied = run.tieBreakApplied,
               run'.repairAttempts = run.repairAttempts
        PROVE  BoundedRounds'
    BY <2>1 DEF BoundedRounds
  <2>2. CASE PrimaryTurn
    <3>1. /\ run'.tieBreakApplied = run.tieBreakApplied
          /\ run'.repairAttempts = run.repairAttempts
      BY <2>2 DEF PrimaryTurn, HandlePrimaryTurnComplete, PauseOverBudget, HandOver,
         RequestFinalReview, TypeOK, RunType
    <3> QED
      BY <2>1, <3>1
  <2>3. CASE RunFinalReview
    BY <2>1, <2>3 DEF RunFinalReview, TypeOK, RunType
  <2>4. CASE MentorTurn
    <3> DEFINE b == [run EXCEPT !.awaitingReAsk = FALSE]
               r == [rev EXCEPT !.mentorMode = "free"]
    <3>1. /\ b \in RunType
          /\ b.tieBreakApplied = run.tieBreakApplied
          /\ b.repairAttempts = run.repairAttempts
      BY DEF TypeOK, RunType
    <3>2. CASE MentorUnheard
      BY <2>1, <3>2 DEF MentorUnheard
    <3>3. CASE ReAsk
      BY <2>1, <3>3 DEF ReAsk, TypeOK, RunType
    <3>4. ASSUME NEW answer \in Answers, PlanVerdict(answer)
          PROVE  BoundedRounds'
      <4>1. \/ run' = [b EXCEPT !.phase = "building", !.repairAttempts = 0,
                                !.priorConcerns = {}]
            \/ ApplyTieBreak(b, r)
            \/ /\ ~RoundsExhausted(b)
               /\ run' = [b EXCEPT !.phase = "planning", !.repairAttempts = @ + 1]
        BY <3>4 DEF PlanVerdict
      <4> HIDE DEF b, r
      <4>2. CASE run' = [b EXCEPT !.phase = "building", !.repairAttempts = 0,
                                  !.priorConcerns = {}]
        <5>1. run'.repairAttempts = 0
          BY <3>1, <4>2 DEF RunType
        <5> QED
          BY <5>1, ConstantsAssumption DEF BoundedRounds
      <4>3. CASE ApplyTieBreak(b, r)
        BY <3>1, <4>3, TieBreakBounded DEF BoundedRounds
      <4>4. CASE /\ ~RoundsExhausted(b)
                 /\ run' = [b EXCEPT !.phase = "planning", !.repairAttempts = @ + 1]
        <5>1. /\ run'.tieBreakApplied = b.tieBreakApplied
              /\ run'.repairAttempts = b.repairAttempts + 1
          BY <3>1, <4>4 DEF RunType
        <5>2. b.repairAttempts \in Nat
          BY <3>1 DEF RunType
        <5> QED
          BY <4>4, <5>1, <5>2, ConstantsAssumption DEF RoundsExhausted, BoundedRounds
      <4> QED
        BY <4>1, <4>2, <4>3, <4>4
    <3>5. ASSUME NEW answer \in Answers, NEW c \in Concerns, FinalVerdict(answer, c)
          PROVE  BoundedRounds'
      <4>1. CompleteRun(b, r) \/ PursueConcern(b, r, c)
        BY <3>5 DEF FinalVerdict
      <4> HIDE DEF b, r
      <4>2. CASE CompleteRun(b, r)
        BY <3>1, <4>2, ConstantsAssumption DEF CompleteRun, BoundedRounds, RunType
      <4>3. CASE PursueConcern(b, r, c)
        BY <3>1, <4>3, PursueConcernBounded DEF BoundedRounds
      <4> QED
        BY <4>1, <4>2, <4>3
    <3>6. CASE FinalUnclear
      BY <3>6, PursueConcernBounded DEF FinalUnclear, BoundedRounds, TypeOK
    <3>7. ASSUME NEW answer \in Answers, IncrementalVerdict(answer)
          PROVE  BoundedRounds'
      BY <2>1, <3>7 DEF IncrementalVerdict
    <3> QED
      BY <2>4, <3>2, <3>3, <3>4, <3>5, <3>6, <3>7 DEF MentorTurn
  <2>5. CASE LiveCoReview
    BY <2>1, <2>5 DEF LiveCoReview, Edit, Checkpoint, TimerFires, Heartbeat,
       IntervalElapses, RunIncrementalReview, NudgeSent
  <2>6. CASE UserAction
    <3>1. CASE ResolveTieBreak
      <4>1. CASE MentorWins(run, rev)
        BY <4>1 DEF MentorWins, BoundedRounds, TypeOK, RunType
      <4>2. CASE PrimaryWins(run, rev)
        <5>1. run'.repairAttempts = 0
          BY <4>2 DEF PrimaryWins, TypeOK, RunType
        <5> QED
          BY <5>1, ConstantsAssumption DEF BoundedRounds
      <4> QED
        BY <3>1, <4>1, <4>2 DEF ResolveTieBreak
    <3>2. CASE UserMessage \/ Resume \/ Stop
      BY <2>1, <3>2 DEF UserMessage, Resume, Stop
    <3>3. CASE Pause \/ Resumed \/ Stopped
      BY <2>1, <3>3 DEF Pause, Resumed, Stopped, TypeOK, RunType
    <3> QED
      BY <2>6, <3>1, <3>2, <3>3 DEF UserAction
  <2>7. CASE AnalystSnapshot
    BY <2>1, <2>7 DEF AnalystSnapshot
  <2>8. CASE UNCHANGED vars
    BY <2>1, <2>8 DEF vars
  <2> QED
    BY <2>2, <2>3, <2>4, <2>5, <2>6, <2>7, <2>8 DEF Next
<1> QED
  BY <1>1, <1>2, TypeCorrect, PTL DEF Spec

----------------------------------------------------------------------------
\* Edits are covered by a review to come.  EditsGetReviewed alone is not
\* inductive: what is counted before the listeners are attached, or when there
\* is no live review, would have nothing coming; nor may a resume, or an event
\* that leaked listeners hear, find edits counted before it.

Covered ==
  /\ EditsGetReviewed
  /\ rev.ops > 0 => LiveReview /\ Listening
  /\ run.status = "paused" => rev.ops = 0
  /\ run.status = "completed" => ~IsCoReviewPhase(run.phase)

\* No step takes money back.
LEMMA StaysOverBudget ==
  ASSUME TypeOK, [Next]_vars, IsOverBudget PROVE IsOverBudget'
<1> USE ConstantsAssumption
<1>1. cost \in Nat /\ cost' \in Nat /\ cost' >= cost
  <2>1. ASSUME NEW s \in Costs, Spend(s) PROVE cost' \in Nat /\ cost' >= cost
    BY <2>1 DEF Spend, Costs, TypeOK
  <2>2. (\E s \in Costs : Spend(s)) \/ UNCHANGED cost \/ AnalystSnapshot
    BY DEF Next, vars, PrimaryTurn, RunFinalReview, MentorTurn, MentorUnheard, ReAsk, PlanVerdict,
       FinalVerdict, FinalUnclear, IncrementalVerdict, AnswerMentor, LiveCoReview, Edit,
       Checkpoint, TimerFires, Heartbeat, IntervalElapses, RunIncrementalReview, NudgeSent,
       UserAction, UserMessage, Pause, Resume, Resumed, ResolveTieBreak, Stop, Stopped
  <2> QED
    BY <2>1, <2>2 DEF TypeOK, AnalystSnapshot
<1> QED
  BY <1>1 DEF IsOverBudget

LEMMA NothingToCover ==
  ASSUME rev'.ops = 0, run'.status = "completed" => ~IsCoReviewPhase(run'.phase)
  PROVE  Covered'
BY DEF Covered, EditsGetReviewed

\* The step leaves run and the listeners alone.
SameHearing(r) == UNCHANGED run /\ SameListeners(r)

LEMMA HearingKept ==
  ASSUME NEW r, r.listening = rev.listening, SameHearing(r)
  PROVE  Listening' = Listening /\ Heard' = Heard
BY DEF SameHearing, SameListeners, Listening, Heard

\* Without primaryWins every verdict that is pursued leaves no edit uncovered:
\* the primary is prompted, which starts a new count, or the run pauses.
LEMMA TieBreakCovers ==
  ASSUME TieBreakPolicy # "primaryWins", NEW b \in RunType, NEW r \in RevType,
         ApplyTieBreak(b, r)
  PROVE  rev'.ops = 0 /\ run'.status # "completed"
<1>1. CASE /\ run' = [b EXCEPT !.status = "paused", !.phase = "escalated",
                               !.blocker = "deadlock"]
           /\ rev' = Detached
  BY <1>1 DEF Detached, RunType
<1>2. CASE MentorWins(b, r)
  <2>1. InjectPrimary(r)
    BY <1>2 DEF MentorWins
  <2>2. rev'.ops = 0
    BY <2>1 DEF InjectPrimary, RevType
  <2> QED
    BY <1>2, <2>2, WinnersRun
<1> QED
  BY <1>1, <1>2, ConstantsAssumption DEF ApplyTieBreak

LEMMA PursuitCovers ==
  ASSUME TieBreakPolicy # "primaryWins", NEW b \in RunType, NEW c \in Concerns \cup {Unclear},
         NEW r \in RevType, PursueConcern(b, r, c), b.status = "running"
  PROVE  rev'.ops = 0 /\ run'.status # "completed"
<1> DEFINE noted == [b EXCEPT !.priorConcerns = @ \cup {c}]
<1>1. noted \in RunType /\ noted.status = "running"
  BY DEF RunType
<1> HIDE DEF noted
<1>2. CASE ApplyTieBreak(noted, r)
  BY <1>1, <1>2, TieBreakCovers
<1>3. CASE /\ run' = [noted EXCEPT !.phase = "dialoguing", !.repairAttempts = @ + 1]
           /\ InjectPrimary(r)
  <2>1. run'.status = "running"
    BY <1>1, <1>3 DEF RunType
  <2>2. rev'.ops = 0
    BY <1>3 DEF InjectPrimary, RevType
  <2> QED
    BY <2>1, <2>2
<1> QED
  BY <1>2, <1>3 DEF PursueConcern, noted

\* A live review that is asked for starts a new count, waits for its timer, or
\* waits for the mentor.
LEMMA TriggerCovers ==
  ASSUME TypeOK, NEW r \in RevType, NEW checkpoint, MaybeTrigger(r, checkpoint), Heard,
         UNCHANGED <<run, cost>>, LiveReview, r.listening = rev.listening
  PROVE  Covered'
<1>1. run.status = "running" /\ Listening /\ async \in AsyncType
  BY DEF Heard, TypeOK
<1>2. SameHearing(r)
  BY <1>1 DEF SameHearing, SameListeners, MaybeTrigger, RevType, AsyncType
<1>3. Listening' /\ run'.status = "running"
  BY <1>1, <1>2, HearingKept
<1>4. CASE ~IsCoReviewPhase(run.phase)
  BY <1>3, <1>4 DEF Covered, EditsGetReviewed
<1>5. CASE IsCoReviewPhase(run.phase)
  <2>1. CASE r.mentorMode # "free" /\ rev' = [r EXCEPT !.pendingIncremental = TRUE]
    BY <1>3, <2>1 DEF Covered, EditsGetReviewed, RevType
  <2>2. CASE IsOverBudget
    <3>1. IsOverBudget'
      BY <2>2 DEF IsOverBudget
    <3> QED
      BY <1>3, <3>1 DEF Covered, EditsGetReviewed
  <2>3. CASE rev' = [r EXCEPT !.pendingIncremental = TRUE, !.timer = TRUE]
    BY <1>3, <2>3 DEF Covered, EditsGetReviewed, RevType
  <2>4. CASE rev' = [r EXCEPT !.timer = FALSE, !.ops = 0, !.cooling = TRUE,
                              !.pendingIncremental = FALSE]
    BY <1>3, <2>4, NothingToCover DEF RevType
  <2> QED
    BY <1>1, <1>5, <2>1, <2>2, <2>3, <2>4 DEF MaybeTrigger
<1> QED
  BY <1>4, <1>5

\* The end of a live review leaves a timer for what is not covered, or asks for
\* the final review.
LEMMA AfterIncrementalCovers ==
  ASSUME TypeOK, NEW r \in RevType, NEW a \in AsyncType, AfterIncremental(r, a),
         r.listening = rev.listening, r.ops = rev.ops, a.resume = async.resume,
         a.leaked = async.leaked, UNCHANGED run, Covered
  PROVE  Covered'
<1>1. SameHearing(r) /\ rev'.ops = rev.ops
  BY DEF SameHearing, SameListeners, AfterIncremental, RevType, AsyncType
<1>2. Listening' = Listening
  BY <1>1, HearingKept
<1>3. CASE async' = [a EXCEPT !.final = @ + 1]
  <2>1. async'.final > 0
    BY <1>3 DEF AsyncType
  <2> QED
    BY <1>1, <1>2, <2>1 DEF Covered, EditsGetReviewed
<1>4. CASE rev' = [r EXCEPT !.timer = @ \/ r.pendingIncremental \/ r.ops > 0]
  <2>1. rev.ops > 0 => rev'.timer
    BY <1>4 DEF RevType
  <2> QED
    BY <1>1, <1>2, <2>1 DEF Covered, EditsGetReviewed
<1> QED
  BY <1>3, <1>4 DEF AfterIncremental

LEMMA PrimaryTurnCovers ==
  ASSUME TypeOK, NEW b \in RunType, NEW r \in RevType, HandlePrimaryTurnComplete(b, r),
         b.status = "running", r.listening = rev.listening, r.ops > 0 => LiveReview, Listening
  PROVE  Covered'
<1>1. CASE PauseOverBudget(b)
  <2>1. run'.status = "paused"
    BY <1>1 DEF PauseOverBudget, RunType
  <2> QED
    BY <1>1, <2>1, NothingToCover DEF PauseOverBudget, Detached
<1>2. ASSUME NEW kind, HandOver(b, r, kind) PROVE Covered'
  <2>1. rev'.ops = r.ops /\ rev'.listening = r.listening /\ UNCHANGED async
    BY <1>2 DEF HandOver, RevType
  <2>2. run'.status = "running" /\ run'.phase = "reviewing"
    BY <1>2 DEF HandOver, RunType
  <2> QED
    BY <2>1, <2>2 DEF Covered, EditsGetReviewed, IsCoReviewPhase, Listening
<1>3. CASE RequestFinalReview(b, r)
  <2>1. \/ /\ r.mentorMode # "free" /\ UNCHANGED async
           /\ rev' = [r EXCEPT !.timer = FALSE, !.finalReviewQueued = TRUE]
        \/ /\ rev' = [r EXCEPT !.timer = FALSE]
           /\ async' = [async EXCEPT !.final = @ + 1]
    BY <1>3 DEF RequestFinalReview
  <2>2. /\ rev'.ops = r.ops /\ rev'.listening = r.listening
        /\ rev'.mentorMode # "free" \/ async' = [async EXCEPT !.final = @ + 1]
    BY <2>1 DEF RevType
  <2>3. /\ async' = [async EXCEPT !.final = @ + 1] => async'.final > 0
        /\ async'.leaked = async.leaked
    BY <2>1 DEF TypeOK, AsyncType
  <2>4. run' = b
    BY <1>3 DEF RequestFinalReview
  <2> QED
    BY <2>2, <2>3, <2>4 DEF Covered, EditsGetReviewed, Listening
<1> QED
  BY <1>1, <1>2, <1>3 DEF HandlePrimaryTurnComplete

LEMMA MentorCovers ==
  ASSUME TypeOK, TieBreakPolicy # "primaryWins", Covered, MentorTurn,
         IsOverBudget => IsOverBudget'
  PROVE  Covered'
<1> DEFINE b == [run EXCEPT !.awaitingReAsk = FALSE]
           r == [rev EXCEPT !.mentorMode = "free"]
<1>1. r \in RevType /\ r.listening = rev.listening /\ r.ops = rev.ops
  BY DEF TypeOK, RevType, Modes
<1>2. b \in RunType /\ b.status = run.status
  BY DEF TypeOK, RunType
<1>3. CASE MentorUnheard
  BY <1>3 DEF MentorUnheard, Covered, EditsGetReviewed, Heard, Listening
<1>4. CASE ReAsk
  <2>1. UNCHANGED <<rev, async>> /\ run'.status = run.status /\ run'.phase = run.phase
    BY <1>4 DEF ReAsk, TypeOK, RunType
  <2> QED
    BY <2>1 DEF Covered, EditsGetReviewed, Heard, Listening
<1>5. ASSUME NEW answer \in Answers, PlanVerdict(answer) PROVE Covered'
  <2>1. /\ run.status = "running"
        /\ \/ /\ run' = [b EXCEPT !.phase = "building", !.repairAttempts = 0,
                                  !.priorConcerns = {}]
              /\ InjectPrimary(r)
           \/ ApplyTieBreak(b, r)
           \/ /\ run' = [b EXCEPT !.phase = "planning", !.repairAttempts = @ + 1]
              /\ InjectPrimary(r)
    BY <1>5 DEF PlanVerdict, Heard
  <2> HIDE DEF b, r
  <2>2. CASE ApplyTieBreak(b, r)
    BY <1>1, <1>2, <2>2, TieBreakCovers, NothingToCover
  <2>3. CASE InjectPrimary(r) /\ run'.status = "running"
    <3>1. rev'.ops = 0
      BY <1>1, <2>3 DEF InjectPrimary, RevType
    <3> QED
      BY <2>3, <3>1, NothingToCover
  <2> QED
    BY <1>2, <2>1, <2>2, <2>3 DEF RunType
<1>6. ASSUME NEW answer \in Answers, NEW c \in Concerns, FinalVerdict(answer, c)
      PROVE  Covered'
  <2>1. /\ run.status = "running" /\ UNCHANGED async
        /\ CompleteRun(b, r) \/ PursueConcern(b, r, c)
    BY <1>6 DEF FinalVerdict, Heard
  <2> HIDE DEF b, r
  <2>2. CASE CompleteRun(b, r)
    <3>1. rev'.ops = rev.ops /\ rev'.listening = rev.listening
      BY <1>1, <2>2 DEF CompleteRun, RevType
    <3>2. run'.status = "completed" /\ run'.phase = "completed"
      BY <1>2, <2>2 DEF CompleteRun, RunType
    <3> QED
      BY <2>1, <3>1, <3>2 DEF Covered, EditsGetReviewed, IsCoReviewPhase, Listening
  <2>3. CASE PursueConcern(b, r, c)
    BY <1>1, <1>2, <2>1, <2>3, PursuitCovers, NothingToCover
  <2> QED
    BY <2>1, <2>2, <2>3
<1>7. CASE FinalUnclear
  <2>1. rev'.ops = 0 /\ run'.status # "completed"
    BY <1>7, PursuitCovers DEF FinalUnclear, TypeOK, Heard
  <2> QED
    BY <2>1, NothingToCover
<1>8. ASSUME NEW answer \in Answers, IncrementalVerdict(answer) PROVE Covered'
  <2>1. /\ UNCHANGED run
        /\ \/ rev' = r /\ async' = [async EXCEPT !.nudge = @ + 1]
           \/ AfterIncremental(r, async)
    BY <1>8 DEF IncrementalVerdict
  <2> HIDE DEF r
  <2>2. CASE rev' = r /\ async' = [async EXCEPT !.nudge = @ + 1]
    <3>1. async'.nudge > 0 /\ async'.leaked = async.leaked
      BY <2>2 DEF TypeOK, AsyncType
    <3> QED
      BY <1>1, <2>1, <2>2, <3>1 DEF Covered, EditsGetReviewed, Listening
  <2>3. CASE AfterIncremental(r, async)
    BY <1>1, <2>1, <2>3, AfterIncrementalCovers DEF TypeOK
  <2> QED
    BY <2>1, <2>2, <2>3
<1> QED
  BY <1>3, <1>4, <1>5, <1>6, <1>7, <1>8 DEF MentorTurn

LEMMA LiveCovers ==
  ASSUME TypeOK, Covered, LiveCoReview
  PROVE  Covered'
<1>1. rev \in RevType /\ rev.ops \in Nat /\ async \in AsyncType
  BY DEF TypeOK, RevType
<1>2. UNCHANGED run /\ Listening' = Listening /\ Heard' = Heard
  BY LiveKeeps, HearingKept DEF SameHearing
<1>3. ASSUME rev'.ops = rev.ops, UNCHANGED cost, EditsGetReviewed' PROVE Covered'
  BY <1>2, <1>3 DEF Covered
<1>4. ASSUME ~Heard, rev'.ops \in {0, rev.ops}, UNCHANGED cost PROVE Covered'
  BY <1>2, <1>4, NothingToCover DEF Covered, EditsGetReviewed
<1>5. ASSUME NEW severe \in BOOLEAN, Edit(severe) PROVE Covered'
  <2> DEFINE drifts == Heard /\ severe /\ ~rev.driftNudged
             r == [rev EXCEPT !.driftNudged = @ \/ drifts,
                              !.ops = IF LiveReview /\ IsCoReviewPhase(run.phase)
                                        THEN @ + 1 ELSE @]
  <2>0. rev.ops + 1 \in Nat /\ (rev.driftNudged \/ drifts) \in BOOLEAN
    BY <1>1 DEF RevType
  <2>1. /\ r \in RevType /\ r.listening = rev.listening /\ r.timer = rev.timer
        /\ r.mentorMode = rev.mentorMode
    BY <1>1, <2>0 DEF RevType
  <2>2. ~(LiveReview /\ IsCoReviewPhase(run.phase)) => r.ops = rev.ops
    BY <1>1 DEF RevType
  <2>3. UNCHANGED <<run, cost>>
    BY <1>5 DEF Edit
  <2>4. \/ ~Heard /\ UNCHANGED <<rev, async>>
        \/ /\ Heard /\ ~(LiveReview /\ IsCoReviewPhase(run.phase))
           /\ rev' = r /\ UNCHANGED async
        \/ /\ Heard /\ LiveReview /\ IsCoReviewPhase(run.phase)
           /\ \/ MaybeTrigger(r, FALSE)
              \/ rev' = [r EXCEPT !.timer = TRUE] /\ UNCHANGED async
    BY <1>5 DEF Edit
  <2> HIDE DEF r, drifts
  <2>5. CASE ~Heard /\ UNCHANGED <<rev, async>>
    BY <1>4, <2>3, <2>5
  <2>6. CASE /\ Heard /\ ~(LiveReview /\ IsCoReviewPhase(run.phase))
             /\ rev' = r /\ UNCHANGED async
    BY <1>3, <2>1, <2>2, <2>3, <2>6 DEF Covered, EditsGetReviewed, Heard, IsOverBudget
  <2>7. CASE Heard /\ LiveReview /\ MaybeTrigger(r, FALSE)
    BY <2>1, <2>3, <2>7, TriggerCovers
  <2>8. CASE /\ Heard /\ LiveReview
             /\ rev' = [r EXCEPT !.timer = TRUE] /\ UNCHANGED async
    <3>1. rev'.timer
      BY <2>1, <2>8 DEF RevType
    <3>2. Listening' /\ run'.status = "running"
      BY <1>2, <2>8 DEF Heard
    <3> QED
      BY <2>8, <3>1, <3>2 DEF Covered, EditsGetReviewed
  <2> QED
    BY <2>4, <2>5, <2>6, <2>7, <2>8
<1>6. CASE Checkpoint
  BY <1>1, <1>6, TriggerCovers DEF Checkpoint
<1>7. CASE TimerFires
  <2> DEFINE r == [rev EXCEPT !.timer = FALSE]
  <2>1. r \in RevType /\ r.listening = rev.listening /\ r.ops = rev.ops
    BY <1>1 DEF RevType
  <2>2. MaybeTrigger(r, FALSE) /\ UNCHANGED <<run, cost>>
    BY <1>7 DEF TimerFires
  <2> HIDE DEF r
  <2>3. CASE Heard /\ LiveReview
    BY <2>1, <2>2, <2>3, TriggerCovers
  <2>4. rev'.ops \in {0, rev.ops}
    <3>1. CASE rev' = [r EXCEPT !.timer = FALSE, !.ops = 0, !.cooling = TRUE,
                                !.pendingIncremental = FALSE]
      BY <2>1, <3>1 DEF RevType
    <3>2. CASE \/ rev' = r
               \/ rev' = [r EXCEPT !.pendingIncremental = TRUE]
               \/ rev' = [r EXCEPT !.pendingIncremental = TRUE, !.timer = TRUE]
      BY <2>1, <3>2 DEF RevType
    <3> QED
      BY <2>2, <3>1, <3>2 DEF MaybeTrigger
  <2>5. CASE ~Heard
    BY <1>4, <2>2, <2>4, <2>5
  <2>6. CASE ~LiveReview
    <3>1. rev.ops = 0
      BY <1>1, <2>6 DEF Covered
    <3> QED
      BY <1>2, <2>4, <3>1, NothingToCover DEF Covered
  <2> QED
    BY <2>3, <2>5, <2>6
<1>8. CASE Heartbeat
  BY <1>1, <1>8, TriggerCovers DEF Heartbeat
<1>9. CASE IntervalElapses
  <2>1. /\ rev'.ops = rev.ops /\ rev'.timer = rev.timer /\ rev'.mentorMode = rev.mentorMode
        /\ UNCHANGED <<async, cost>>
    BY <1>1, <1>9 DEF IntervalElapses, RevType
  <2> QED
    BY <1>2, <1>3, <2>1 DEF Covered, EditsGetReviewed, IsOverBudget
<1>10. CASE RunIncrementalReview
  <2>1. UNCHANGED cost /\ async'.nudge = async.nudge /\ async'.final = async.final
    BY <1>1, <1>10 DEF RunIncrementalReview, AsyncType
  <2>2. /\ rev'.ops = rev.ops /\ rev'.timer = rev.timer
        /\ rev'.mentorMode # "free" \/ rev'.mentorMode = rev.mentorMode
    BY <1>1, <1>10 DEF RunIncrementalReview, RevType
  <2> QED
    BY <1>2, <1>3, <2>1, <2>2 DEF Covered, EditsGetReviewed, IsOverBudget
<1>11. CASE NudgeSent
  <2> DEFINE a == [async EXCEPT !.nudge = @ - 1]
  <2>1. a \in AsyncType /\ a.resume = async.resume /\ a.leaked = async.leaked
    BY <1>1, <1>11 DEF NudgeSent, AsyncType
  <2>2. AfterIncremental(rev, a)
    BY <1>11 DEF NudgeSent
  <2> HIDE DEF a
  <2> QED
    BY <1>1, <1>2, <2>1, <2>2, AfterIncrementalCovers
<1> QED
  BY <1>5, <1>6, <1>7, <1>8, <1>9, <1>10, <1>11 DEF LiveCoReview

\* A resumed run starts a new count, for it heard nothing before; one that a
\* second resume finds running keeps its own.
LEMMA UserCovers ==
  ASSUME TypeOK, Covered, UserAction
  PROVE  Covered'
<1>1. run \in RunType /\ rev \in RevType /\ async \in AsyncType
  BY DEF TypeOK
<1>2. CASE UserMessage
  BY <1>2 DEF UserMessage, Covered, EditsGetReviewed, Heard, IsOverBudget, Listening
<1>3. CASE Pause \/ Resume \/ Stop
  <2>1. rev'.ops = 0
    BY <1>3 DEF Pause, Resume, Stop, Detached
  <2>2. run'.status = "completed" => ~IsCoReviewPhase(run'.phase)
    BY <1>1, <1>3 DEF Pause, Resume, Stop, RunType, Covered
  <2> QED
    BY <2>1, <2>2, NothingToCover
<1>4. CASE Resumed
  <2>1. /\ rev'.ops = rev.ops /\ rev'.timer = rev.timer /\ rev'.mentorMode = rev.mentorMode
        /\ rev'.listening
    BY <1>1, <1>4 DEF Resumed, RevType
  <2>2. async'.nudge = async.nudge /\ async'.final = async.final /\ UNCHANGED cost
    BY <1>1, <1>4 DEF Resumed, AsyncType
  <2>3. run'.status = "running" /\ run'.phase = run.phase
    BY <1>1, <1>4 DEF Resumed, RunType
  <2>4. rev.ops \in Nat /\ run.status \in {"running", "paused", "completed"}
    BY <1>1 DEF RevType, RunType, Statuses
  <2>5. CASE rev.ops = 0
    BY <2>1, <2>3, <2>5, NothingToCover
  <2>6. CASE rev.ops > 0
    <3>1. LiveReview /\ Listening /\ run.status # "paused"
      BY <2>6 DEF Covered
    <3>2. CASE run.status = "running"
      <4>1. Heard
        BY <3>1, <3>2 DEF Heard
      <4> QED
        BY <2>1, <2>2, <2>3, <3>1, <4>1 DEF Covered, EditsGetReviewed, Listening, IsOverBudget
    <3>3. CASE run.status = "completed"
      BY <2>1, <2>3, <3>1, <3>3 DEF Covered, EditsGetReviewed, Listening
    <3> QED
      BY <2>4, <3>1, <3>2, <3>3
  <2> QED
    BY <2>4, <2>5, <2>6
<1>5. CASE ResolveTieBreak
  <2>1. rev.ops = 0
    BY <1>5 DEF ResolveTieBreak, Covered
  <2>2. run'.status = "running"
    BY <1>1, <1>5, WinnersRun DEF ResolveTieBreak
  <2>3. rev'.ops = 0
    BY <1>1, <1>5, <2>1 DEF ResolveTieBreak, MentorWins, InjectPrimary, PrimaryWins, RevType
  <2> QED
    BY <2>2, <2>3, NothingToCover
<1>6. CASE Stopped
  <2>1. run'.status = "completed" /\ run'.phase = "completed" /\ UNCHANGED rev
    BY <1>1, <1>6 DEF Stopped, RunType
  <2>2. async'.leaked = async.leaked
    BY <1>1, <1>6 DEF Stopped, AsyncType
  <2> QED
    BY <2>1, <2>2 DEF Covered, EditsGetReviewed, Listening, IsCoReviewPhase
<1> QED
  BY <1>2, <1>3, <1>4, <1>5, <1>6 DEF UserAction

\* Unless ties go to the primary, which nobody prompts then, edits made while
\* the primary works always have a review to come, whatever the user does.
THEOREM EditsAreCovered ==
  ASSUME TieBreakPolicy # "primaryWins" PROVE Spec => []EditsGetReviewed
<1>1. Init => Covered
  <2> SUFFICES ASSUME Init PROVE Covered
    OBVIOUS
  <2>1. rev.ops = 0 /\ run.status = "running"
    BY DEF Init, Detached
  <2> QED
    BY <2>1 DEF Covered, EditsGetReviewed
<1>2. TypeOK /\ Covered /\ [Next]_vars => Covered'
  <2> SUFFICES ASSUME TypeOK, Covered, [Next]_vars PROVE Covered'
    OBVIOUS
  <2>1. IsOverBudget => IsOverBudget'
    BY StaysOverBudget
  <2>2. CASE PrimaryTurn
    <3>1. CASE UNCHANGED <<run, rev, async, toMentor>>
      BY <2>1, <3>1 DEF Covered, EditsGetReviewed, Heard, Listening
    <3>2. CASE Listening /\ run.status = "running" /\ HandlePrimaryTurnComplete(run, rev)
      BY <3>2, PrimaryTurnCovers DEF TypeOK, Covered
    <3>3. CASE Listening /\ HandlePrimaryTurnComplete(
                 [run EXCEPT !.status = "running", !.phase = "building"],
                 [rev EXCEPT !.ops = 0, !.driftNudged = FALSE])
      <4> DEFINE b == [run EXCEPT !.status = "running", !.phase = "building"]
                 r == [rev EXCEPT !.ops = 0, !.driftNudged = FALSE]
      <4>1. b \in RunType /\ b.status = "running"
        BY DEF TypeOK, RunType, Statuses, Phases
      <4>2. r \in RevType /\ r.ops = 0 /\ r.listening = rev.listening
        BY DEF TypeOK, RevType
      <4>3. HandlePrimaryTurnComplete(b, r)
        BY <3>3
      <4> HIDE DEF b, r
      <4> QED
        BY <3>3, <4>1, <4>2, <4>3, PrimaryTurnCovers
    <3> QED
      BY <2>2, <3>1, <3>2, <3>3 DEF PrimaryTurn
  <2>3. CASE RunFinalReview
    <3>1. rev'.ops = rev.ops /\ rev'.listening = rev.listening
      BY <2>3 DEF RunFinalReview, TypeOK, RevType
    <3>2. run'.phase = "reviewing" /\ run'.status = run.status
      BY <2>3 DEF RunFinalReview, TypeOK, RunType
    <3>3. async'.leaked = async.leaked
      BY <2>3 DEF RunFinalReview, TypeOK, AsyncType
    <3> QED
      BY <3>1, <3>2, <3>3 DEF Covered, EditsGetReviewed, IsCoReviewPhase, Listening
  <2>4. CASE MentorTurn
    BY <2>1, <2>4, MentorCovers
  <2>5. CASE LiveCoReview
    BY <2>5, LiveCovers
  <2>6. CASE AnalystSnapshot
    BY <2>1, <2>6 DEF AnalystSnapshot, Covered, EditsGetReviewed, Heard, Listening
  <2>7. CASE UserAction
    BY <2>7, UserCovers
  <2>8. CASE UNCHANGED vars
    BY <2>8 DEF vars, Covered, EditsGetReviewed, Heard, Listening, IsOverBudget
  <2> QED
    BY <2>2, <2>3, <2>4, <2>5, <2>6, <2>7, <2>8 DEF Next
<1>3. Covered => EditsGetReviewed
  BY DEF Covered
<1> QED
  BY <1>1, <1>2, <1>3, TypeCorrect, PTL DEF Spec

LEMMA WorkTypes ==
  ASSUME TypeOK
  PROVE  toPrimary \in Nat /\ async.final \in Nat /\ Len(toMentor) \in Nat
         /\ (toMentor = <<>> <=> Len(toMentor) = 0)
BY EmptySeq, LenProperties DEF TypeOK, AsyncType

----------------------------------------------------------------------------
\* What the mentor has been asked or will be asked, once the cap is reached.

\* A turn of the mentor takes at least one prompt from the queue, and adds one.
LEMMA MentorAnswers ==
  ASSUME TypeOK, ~async.leaked, NEW n \in Answered(Len(toMentor)), NEW s,
         NEW more \in {<<>>, <<"reask">>}, AnswerMentor(n, s, more)
  PROVE  /\ Len(toMentor') \in Nat /\ Len(toMentor') <= Len(toMentor)
         /\ more = <<>> => Len(toMentor') + 1 <= Len(toMentor)
<1> DEFINE left == SubSeq(toMentor, n + 1, Len(toMentor))
<1>1. toMentor \in Seq(Prompts) /\ Len(toMentor) \in Nat /\ n \in 1..Len(toMentor)
  BY WorkTypes DEF TypeOK, Answered
<1>2. left \in Seq(Prompts)
  BY <1>1, AnsweredType
<1>3. Len(left) = Len(toMentor) - n
  BY <1>1
<1> HIDE DEF left
<1>4. <<>> \in Seq(Prompts) /\ <<"reask">> \in Seq(Prompts)
  BY DEF Prompts
<1>5. Len(<<>>) = 0 /\ Len(<<"reask">>) = 1
  OBVIOUS
<1>6. toMentor' = left \o more
  BY DEF AnswerMentor, left
<1>7. Len(left \o more) = Len(left) + Len(more)
  BY <1>2, <1>4, ConcatProperties
<1>8. Len(toMentor') = Len(toMentor) - n + Len(more)
  BY <1>3, <1>6, <1>7
<1>9. CASE more = <<>>
  BY <1>1, <1>5, <1>8, <1>9
<1>10. CASE more = <<"reask">>
  BY <1>1, <1>5, <1>8, <1>10
<1> QED
  BY <1>9, <1>10

LEMMA OwedTypes ==
  ASSUME TypeOK
  PROVE  /\ Len(toMentor) \in Nat /\ async.final \in Nat /\ async.incremental \in Nat
         /\ async.nudge \in Nat /\ Owed \in Nat
<1>1. /\ Len(toMentor) \in Nat /\ async.final \in Nat /\ async.incremental \in Nat
      /\ async.nudge \in Nat
  BY WorkTypes DEF TypeOK, AsyncType
<1> QED
  BY <1>1 DEF Owed

\* Asking adds one prompt at most.
LEMMA AskingAddsOne ==
  ASSUME TypeOK, NEW kind \in Prompts, AskMentor(kind)
  PROVE  Len(toMentor') \in Nat /\ Len(toMentor') <= Len(toMentor) + 1
BY WorkTypes DEF TypeOK, AskMentor

\* The end of a live review begins a final review at most.
LEMMA AfterIncrementalOwes ==
  ASSUME NEW r, NEW a \in AsyncType, AfterIncremental(r, a)
  PROVE  /\ async'.incremental = a.incremental /\ async'.nudge = a.nudge
         /\ async'.final \in {a.final, a.final + 1}
BY DEF AfterIncremental, AsyncType

\* Over the cap, whoever spent the last of it - an agent or the analyst - and
\* however late, no handler begins anything for the mentor that does not take
\* the place of something: pauseIfOverBudget, maybeTriggerIncrementalReview,
\* and, without a look at the cap, runFinalReview, triggerIncrementalReview, the
\* re-ask and the queued review.
THEOREM WindsDown == Spec => WindsDownOverBudget
<1>1. ASSUME TypeOK, Next, IsOverBudget', ~async.leaked PROVE Owed' <= Owed
  <2> USE <1>1
  <2>1. /\ Len(toMentor) \in Nat /\ async.final \in Nat /\ async.incremental \in Nat
        /\ async.nudge \in Nat /\ async \in AsyncType /\ rev \in RevType
    BY OwedTypes DEF TypeOK
  <2>2. ASSUME UNCHANGED <<toMentor, async>> PROVE Owed' <= Owed
    BY <2>1, <2>2 DEF Owed
  <2>3. CASE PrimaryTurn
    <3>1. SpentUp
      BY DEF SpentUp, IsOverBudget
    <3> QED
      BY <2>2, <2>3, <3>1 DEF PrimaryTurn, HandlePrimaryTurnComplete, PauseOverBudget
  <2>4. CASE RunFinalReview
    <3>1. /\ async'.final = async.final - 1 /\ async'.incremental = async.incremental
          /\ async'.nudge = async.nudge
      BY <2>1, <2>4 DEF RunFinalReview, AsyncType
    <3>2. Len(toMentor') \in Nat /\ Len(toMentor') <= Len(toMentor) + 1
      BY <2>4, AskingAddsOne DEF RunFinalReview, Prompts, Modes
    <3> QED
      BY <2>1, <3>1, <3>2 DEF Owed
  <2>5. CASE MentorTurn
    <3>1. ASSUME NEW n \in Answered(Len(toMentor)), NEW s, NEW more \in {<<>>, <<"reask">>},
                 AnswerMentor(n, s, more), UNCHANGED async
          PROVE  Owed' <= Owed
      BY <2>1, <3>1, MentorAnswers DEF Owed
    <3>2. CASE MentorUnheard \/ ReAsk \/ FinalUnclear
      BY <3>1, <3>2 DEF MentorUnheard, ReAsk, FinalUnclear
    <3>3. ASSUME NEW answer \in Answers, PlanVerdict(answer) PROVE Owed' <= Owed
      BY <3>1, <3>3 DEF PlanVerdict
    <3>4. ASSUME NEW answer, NEW c, FinalVerdict(answer, c) PROVE Owed' <= Owed
      BY <3>1, <3>4 DEF FinalVerdict
    <3>5. ASSUME NEW answer \in Answers, IncrementalVerdict(answer) PROVE Owed' <= Owed
      <4>1. PICK n \in Answered(Len(toMentor)), s \in Costs :
              /\ AnswerMentor(n, s, <<>>)
              /\ \/ async' = [async EXCEPT !.nudge = @ + 1]
                 \/ AfterIncremental([rev EXCEPT !.mentorMode = "free"], async)
        BY <3>5 DEF IncrementalVerdict
      <4>2. Len(toMentor') \in Nat /\ Len(toMentor') + 1 <= Len(toMentor)
        BY <4>1, MentorAnswers
      <4>3. CASE async' = [async EXCEPT !.nudge = @ + 1]
        <5>1. /\ async'.nudge = async.nudge + 1 /\ async'.final = async.final
              /\ async'.incremental = async.incremental
          BY <2>1, <4>3 DEF AsyncType
        <5> QED
          BY <2>1, <4>2, <5>1 DEF Owed
      <4>4. CASE AfterIncremental([rev EXCEPT !.mentorMode = "free"], async)
        <5>1. /\ async'.incremental = async.incremental /\ async'.nudge = async.nudge
              /\ async'.final \in {async.final, async.final + 1}
          BY <2>1, <4>4, AfterIncrementalOwes
        <5> QED
          BY <2>1, <4>2, <5>1 DEF Owed
      <4> QED
        BY <4>1, <4>3, <4>4
    <3> QED
      BY <2>5, <3>2, <3>3, <3>4, <3>5 DEF MentorTurn
  <2>6. CASE LiveCoReview
    <3>1. ASSUME NEW r, NEW checkpoint, MaybeTrigger(r, checkpoint), UNCHANGED cost
          PROVE  UNCHANGED async
      <4>1. IsOverBudget
        BY <3>1 DEF IsOverBudget
      <4> QED
        BY <3>1, <4>1 DEF MaybeTrigger
    <3>2. ASSUME NEW severe, Edit(severe) PROVE Owed' <= Owed
      BY <2>2, <3>1, <3>2 DEF Edit
    <3>3. CASE Checkpoint \/ TimerFires \/ Heartbeat \/ IntervalElapses
      BY <2>2, <3>1, <3>3 DEF Checkpoint, TimerFires, Heartbeat, IntervalElapses
    <3>4. CASE RunIncrementalReview
      <4>1. /\ async.incremental > 0 /\ async'.incremental = async.incremental - 1
            /\ async'.final = async.final /\ async'.nudge = async.nudge
        BY <2>1, <3>4 DEF RunIncrementalReview, AsyncType
      <4>2. Len(toMentor') \in Nat /\ Len(toMentor') <= Len(toMentor) + 1
        <5>1. UNCHANGED toMentor \/ AskMentor("incremental")
          BY <3>4 DEF RunIncrementalReview
        <5> QED
          BY <2>1, <5>1, AskingAddsOne DEF Prompts, Modes
      <4> QED
        BY <2>1, <4>1, <4>2 DEF Owed
    <3>5. CASE NudgeSent
      <4> DEFINE a == [async EXCEPT !.nudge = @ - 1]
      <4>1. /\ async.nudge > 0 /\ a \in AsyncType /\ a.nudge = async.nudge - 1
            /\ a.final = async.final /\ a.incremental = async.incremental
        BY <2>1, <3>5 DEF NudgeSent, AsyncType
      <4>2. AfterIncremental(rev, a) /\ UNCHANGED toMentor
        BY <3>5 DEF NudgeSent
      <4> HIDE DEF a
      <4>3. /\ async'.incremental = a.incremental /\ async'.nudge = a.nudge
            /\ async'.final \in {a.final, a.final + 1}
        BY <4>1, <4>2, AfterIncrementalOwes
      <4> QED
        BY <2>1, <4>1, <4>2, <4>3 DEF Owed
    <3> QED
      BY <2>6, <3>2, <3>3, <3>4, <3>5 DEF LiveCoReview
  <2>7. CASE AnalystSnapshot
    BY <2>2, <2>7 DEF AnalystSnapshot
  <2>8. CASE UserAction
    <3>1. /\ async'.incremental = async.incremental /\ async'.nudge = async.nudge
          /\ async'.final = async.final
      BY <2>1, <2>8 DEF UserAction, UserMessage, Pause, Resume, Resumed, ResolveTieBreak, Stop,
         Stopped, AsyncType
    <3>2. UNCHANGED toMentor \/ toMentor' = <<>>
      BY <2>8 DEF UserAction, UserMessage, Pause, Resume, Resumed, ResolveTieBreak, Stop, Stopped
    <3>3. Len(toMentor') \in Nat /\ Len(toMentor') <= Len(toMentor)
      BY <2>1, <3>2
    <3> QED
      BY <2>1, <3>1, <3>3 DEF Owed
  <2> QED
    BY <2>3, <2>4, <2>5, <2>6, <2>7, <2>8 DEF Next
<1>2. TypeOK /\ [Next]_vars => [IsOverBudget' /\ ~async.leaked => Owed' <= Owed]_vars
  BY <1>1
<1> QED
  BY <1>2, TypeCorrect, PTL DEF Spec, WindsDownOverBudget

----------------------------------------------------------------------------
\* The queue of final reviews.  A run whose listeners are detached has nothing
\* queued, which is what a resume finds; two of them at a time, or ties that go
\* to the primary, can leave a queued review to nobody (README, Disagreements).

Waits == rev.finalReviewQueued /\ rev.mentorMode = "free"

Taken ==
  /\ QueuedReviewIsTaken
  /\ ~async.leaked /\ async.resume <= 1
  /\ async.resume > 0 => ~rev.listening
  /\ ~rev.listening => ~rev.finalReviewQueued

\* The step leaves the listeners alone, and the resumes under way.
LEMMA TakenWith ==
  ASSUME Taken, SameListeners(rev), ~rev.finalReviewQueued => ~rev'.finalReviewQueued,
         QueuedReviewIsTaken'
  PROVE  Taken'
BY DEF Taken, SameListeners

\* A detached run waits for nothing.
LEMMA TakenDetached ==
  ASSUME Taken, rev' = Detached, async'.resume <= 1, ~async'.leaked PROVE Taken'
BY DEF Taken, Detached, QueuedReviewIsTaken

\* A prompt for the primary takes care of what is queued.
LEMMA TakenByPrompt ==
  ASSUME Taken, TypeOK, NEW r \in RevType, InjectPrimary(r), r.listening = rev.listening,
         r.finalReviewQueued = rev.finalReviewQueued, UNCHANGED async
  PROVE  Taken'
<1>1. rev'.listening = r.listening /\ rev'.finalReviewQueued = r.finalReviewQueued
  BY DEF InjectPrimary, RevType
<1>2. toPrimary' > 0
  BY DEF InjectPrimary, TypeOK
<1> QED
  BY <1>1, <1>2, TakenWith DEF SameListeners, QueuedReviewIsTaken

LEMMA TakenByTieBreak ==
  ASSUME Taken, TypeOK, TieBreakPolicy # "primaryWins", NEW b, NEW r \in RevType,
         ApplyTieBreak(b, r), r.listening = rev.listening,
         r.finalReviewQueued = rev.finalReviewQueued, UNCHANGED async
  PROVE  Taken'
<1>1. CASE rev' = Detached
  BY <1>1, TakenDetached DEF Taken
<1>2. CASE InjectPrimary(r)
  BY <1>2, TakenByPrompt
<1> QED
  BY <1>1, <1>2, ConstantsAssumption DEF ApplyTieBreak, MentorWins

LEMMA TakenByPursuit ==
  ASSUME Taken, TypeOK, TieBreakPolicy # "primaryWins", NEW b, NEW c, NEW r \in RevType,
         PursueConcern(b, r, c), r.listening = rev.listening,
         r.finalReviewQueued = rev.finalReviewQueued, UNCHANGED async
  PROVE  Taken'
<1>1. ASSUME NEW n, ApplyTieBreak(n, r) PROVE Taken'
  BY <1>1, TakenByTieBreak
<1> QED
  BY <1>1, TakenByPrompt DEF PursueConcern

\* The end of a live review takes what is queued.
LEMMA TakenAfterIncremental ==
  ASSUME Taken, TypeOK, NEW r \in RevType, NEW a \in AsyncType, AfterIncremental(r, a),
         r.listening = rev.listening, r.finalReviewQueued = rev.finalReviewQueued,
         a.resume = async.resume, a.leaked = async.leaked
  PROVE  Taken'
<1>1. rev \in RevType
  BY DEF TypeOK
<1>2. CASE /\ rev' = [r EXCEPT !.finalReviewQueued = FALSE]
           /\ async' = [a EXCEPT !.final = @ + 1]
  <2>1. ~rev'.finalReviewQueued /\ SameListeners(rev)
    BY <1>2 DEF RevType, AsyncType, SameListeners
  <2> QED
    BY <2>1, TakenWith DEF QueuedReviewIsTaken
<1>3. CASE /\ ~r.finalReviewQueued /\ async' = a
           /\ rev' = [r EXCEPT !.timer = @ \/ r.pendingIncremental \/ r.ops > 0]
  <2>1. ~rev'.finalReviewQueued /\ SameListeners(rev)
    BY <1>3 DEF RevType, SameListeners
  <2> QED
    BY <2>1, TakenWith DEF QueuedReviewIsTaken
<1> QED
  BY <1>2, <1>3 DEF AfterIncremental

\* A turn of the primary that is heard starts its review, or finds the mentor
\* busy; a reply or a plan makes it busy.
LEMMA TakenByTurn ==
  ASSUME Taken, TypeOK, NEW b, NEW r \in RevType, HandlePrimaryTurnComplete(b, r), Listening,
         r.listening = rev.listening, r.finalReviewQueued = rev.finalReviewQueued
  PROVE  Taken'
<1>1. rev.listening /\ async \in AsyncType
  BY DEF Taken, Listening, TypeOK
<1>2. CASE PauseOverBudget(b)
  BY <1>2, TakenDetached DEF PauseOverBudget, Taken
<1>3. ASSUME NEW kind \in {"plan", "dialogue"}, HandOver(b, r, kind) PROVE Taken'
  <2>1. /\ rev'.mentorMode # "free" /\ rev'.listening = r.listening
        /\ rev'.finalReviewQueued = r.finalReviewQueued /\ UNCHANGED async
    BY <1>3 DEF HandOver, RevType
  <2> QED
    BY <2>1, TakenWith DEF QueuedReviewIsTaken, SameListeners
<1>4. CASE RequestFinalReview(b, r)
  <2>1. CASE /\ r.mentorMode # "free" /\ UNCHANGED async
             /\ rev' = [r EXCEPT !.timer = FALSE, !.finalReviewQueued = TRUE]
    <3>1. rev'.listening /\ rev'.mentorMode # "free"
      BY <1>1, <2>1 DEF RevType
    <3> QED
      BY <1>1, <2>1, <3>1 DEF Taken, QueuedReviewIsTaken
  <2>2. CASE /\ rev' = [r EXCEPT !.timer = FALSE]
             /\ async' = [async EXCEPT !.final = @ + 1]
    <3>1. rev'.listening = rev.listening /\ rev'.finalReviewQueued = rev.finalReviewQueued
      BY <2>2 DEF RevType
    <3>2. /\ async'.final > 0 /\ async'.resume = async.resume
          /\ async'.leaked = async.leaked
      BY <1>1, <2>2 DEF AsyncType
    <3> QED
      BY <3>1, <3>2, TakenWith DEF SameListeners, QueuedReviewIsTaken
  <2> QED
    BY <1>4, <2>1, <2>2 DEF RequestFinalReview
<1> QED
  BY <1>2, <1>3, <1>4 DEF HandlePrimaryTurnComplete

LEMMA TakenByVerdict ==
  ASSUME Taken, TypeOK, TieBreakPolicy # "primaryWins", MentorTurn
  PROVE  Taken'
<1> DEFINE b == [run EXCEPT !.awaitingReAsk = FALSE]
           r == [rev EXCEPT !.mentorMode = "free"]
<1>1. /\ r \in RevType /\ r.listening = rev.listening
      /\ r.finalReviewQueued = rev.finalReviewQueued
  BY DEF TypeOK, RevType, Modes
<1>2. b \in RunType /\ rev \in RevType /\ async \in AsyncType
  BY DEF TypeOK, RunType
<1>3. CASE MentorUnheard
  <2>1. UNCHANGED <<run, rev, async, toPrimary>>
    BY <1>3 DEF MentorUnheard
  <2> QED
    BY <2>1 DEF Taken, QueuedReviewIsTaken, Heard, Listening
<1>4. CASE ReAsk
  <2>1. UNCHANGED <<rev, async, toPrimary>> /\ Heard
    BY <1>4 DEF ReAsk
  <2> QED
    BY <2>1 DEF Taken, QueuedReviewIsTaken
<1>5. ASSUME NEW answer \in Answers, PlanVerdict(answer) PROVE Taken'
  <2>1. UNCHANGED async /\ (InjectPrimary(r) \/ ApplyTieBreak(b, r))
    BY <1>5 DEF PlanVerdict
  <2> HIDE DEF b, r
  <2> QED
    BY <1>1, <2>1, TakenByPrompt, TakenByTieBreak
<1>6. ASSUME NEW answer \in Answers, NEW c \in Concerns, FinalVerdict(answer, c)
      PROVE  Taken'
  <2>1. UNCHANGED async /\ (CompleteRun(b, r) \/ PursueConcern(b, r, c))
    BY <1>6 DEF FinalVerdict
  <2> HIDE DEF b, r
  <2>2. CASE CompleteRun(b, r)
    <3>1. run'.status = "completed"
      BY <1>2, <2>2 DEF CompleteRun, RunType
    <3>2. rev'.listening = rev.listening /\ rev'.finalReviewQueued = rev.finalReviewQueued
      BY <1>1, <2>2 DEF CompleteRun, RevType
    <3> QED
      BY <2>1, <3>1, <3>2, TakenWith DEF SameListeners, QueuedReviewIsTaken, Heard
  <2> QED
    BY <1>1, <2>1, <2>2, TakenByPursuit
<1>7. CASE FinalUnclear
  BY <1>2, <1>7, TakenByPursuit DEF FinalUnclear
<1>8. ASSUME NEW answer \in Answers, IncrementalVerdict(answer) PROVE Taken'
  <2>1. \/ /\ rev' = r /\ async' = [async EXCEPT !.nudge = @ + 1]
           /\ toPrimary' = toPrimary + 1
        \/ AfterIncremental(r, async)
    BY <1>8 DEF IncrementalVerdict
  <2> HIDE DEF r
  <2>2. CASE /\ rev' = r /\ async' = [async EXCEPT !.nudge = @ + 1]
             /\ toPrimary' = toPrimary + 1
    <3>1. toPrimary' > 0
      BY <2>2 DEF TypeOK
    <3>2. async'.resume = async.resume /\ async'.leaked = async.leaked
      BY <1>2, <2>2 DEF AsyncType
    <3> QED
      BY <1>1, <2>2, <3>1, <3>2, TakenWith DEF SameListeners, QueuedReviewIsTaken
  <2> QED
    BY <1>1, <1>2, <2>1, <2>2, TakenAfterIncremental
<1> QED
  BY <1>3, <1>4, <1>5, <1>6, <1>7, <1>8 DEF MentorTurn

LEMMA TakenLive ==
  ASSUME Taken, TypeOK, LiveCoReview PROVE Taken'
<1>1. rev \in RevType /\ async \in AsyncType /\ toPrimary \in Nat
  BY DEF TypeOK
<1>2. UNCHANGED run /\ SameListeners(rev)
  BY LiveKeeps
<1>3. Heard' = Heard
  BY <1>2, HearingKept DEF SameHearing
<1>4. ASSUME Waits' => Waits, toPrimary' >= toPrimary, toPrimary' \in Nat,
             async'.final = async.final, rev'.finalReviewQueued = rev.finalReviewQueued
      PROVE  Taken'
  <2>1. QueuedReviewIsTaken'
    BY <1>1, <1>3, <1>4 DEF Taken, QueuedReviewIsTaken, Waits
  <2> QED
    BY <1>2, <1>4, <2>1, TakenWith
<1>5. ASSUME NEW r \in RevType, NEW checkpoint, MaybeTrigger(r, checkpoint)
      PROVE  /\ rev'.finalReviewQueued = r.finalReviewQueued /\ rev'.mentorMode = r.mentorMode
             /\ async'.final = async.final
  BY <1>1, <1>5 DEF MaybeTrigger, RevType, AsyncType
<1>6. ASSUME NEW severe \in BOOLEAN, Edit(severe) PROVE Taken'
  <2> DEFINE drifts == Heard /\ severe /\ ~rev.driftNudged
             r == [rev EXCEPT !.driftNudged = @ \/ drifts,
                              !.ops = IF LiveReview /\ IsCoReviewPhase(run.phase)
                                        THEN @ + 1 ELSE @]
  <2>1. rev.ops + 1 \in Nat /\ (rev.driftNudged \/ drifts) \in BOOLEAN
    BY <1>1 DEF RevType
  <2>2. /\ r \in RevType /\ r.finalReviewQueued = rev.finalReviewQueued
        /\ r.mentorMode = rev.mentorMode
    BY <1>1, <2>1 DEF RevType
  <2>3. /\ toPrimary' = IF drifts /\ DriftNudge THEN toPrimary + 1 ELSE toPrimary
        /\ \/ UNCHANGED <<rev, async>>
           \/ rev' = r /\ UNCHANGED async
           \/ MaybeTrigger(r, FALSE)
           \/ rev' = [r EXCEPT !.timer = TRUE] /\ UNCHANGED async
    BY <1>6 DEF Edit
  <2> HIDE DEF drifts, r
  <2>4. /\ [r EXCEPT !.timer = TRUE].finalReviewQueued = r.finalReviewQueued
        /\ [r EXCEPT !.timer = TRUE].mentorMode = r.mentorMode
    BY <2>2 DEF RevType
  <2>5. /\ rev'.finalReviewQueued = rev.finalReviewQueued /\ rev'.mentorMode = rev.mentorMode
        /\ async'.final = async.final
    BY <1>5, <2>2, <2>3, <2>4
  <2>6. toPrimary' >= toPrimary /\ toPrimary' \in Nat
    BY <1>1, <2>3
  <2> QED
    BY <1>4, <2>5, <2>6 DEF Waits
<1>7. CASE Checkpoint \/ Heartbeat
  <2>1. UNCHANGED toPrimary /\ \E checkpoint \in BOOLEAN : MaybeTrigger(rev, checkpoint)
    BY <1>7 DEF Checkpoint, Heartbeat
  <2> QED
    BY <1>1, <1>4, <1>5, <2>1 DEF Waits
<1>8. CASE TimerFires
  <2> DEFINE r == [rev EXCEPT !.timer = FALSE]
  <2>1. /\ r \in RevType /\ r.finalReviewQueued = rev.finalReviewQueued
        /\ r.mentorMode = rev.mentorMode
    BY <1>1 DEF RevType
  <2>2. UNCHANGED toPrimary /\ MaybeTrigger(r, FALSE)
    BY <1>8 DEF TimerFires
  <2> HIDE DEF r
  <2>3. /\ rev'.finalReviewQueued = rev.finalReviewQueued /\ rev'.mentorMode = rev.mentorMode
        /\ async'.final = async.final
    BY <1>5, <2>1, <2>2
  <2>4. toPrimary' \in Nat /\ toPrimary' >= toPrimary
    BY <1>1, <2>2
  <2> QED
    BY <1>4, <2>3, <2>4 DEF Waits
<1>9. CASE IntervalElapses
  <2>1. /\ rev'.finalReviewQueued = rev.finalReviewQueued /\ rev'.mentorMode = rev.mentorMode
        /\ UNCHANGED <<async, toPrimary>>
    BY <1>1, <1>9 DEF IntervalElapses, RevType
  <2> QED
    BY <1>1, <1>4, <2>1 DEF Waits
<1>10. CASE RunIncrementalReview
  <2>1. /\ rev'.finalReviewQueued = rev.finalReviewQueued
        /\ rev'.mentorMode \in {rev.mentorMode, "incremental"}
    BY <1>1, <1>10 DEF RunIncrementalReview, RevType
  <2>2. async'.final = async.final /\ UNCHANGED toPrimary
    BY <1>1, <1>10 DEF RunIncrementalReview, AsyncType
  <2> QED
    BY <1>1, <1>4, <2>1, <2>2 DEF Waits
<1>11. CASE NudgeSent
  <2> DEFINE a == [async EXCEPT !.nudge = @ - 1]
  <2>1. a \in AsyncType /\ a.resume = async.resume /\ a.leaked = async.leaked
    BY <1>1, <1>11 DEF NudgeSent, AsyncType
  <2>2. AfterIncremental(rev, a)
    BY <1>11 DEF NudgeSent
  <2> HIDE DEF a
  <2> QED
    BY <1>1, <2>1, <2>2, TakenAfterIncremental
<1> QED
  BY <1>6, <1>7, <1>8, <1>9, <1>10, <1>11 DEF LiveCoReview

LEMMA TakenByUser ==
  ASSUME Taken, TypeOK, MaxResumes <= 1, TieBreakPolicy # "primaryWins", Quiet, UserAction
  PROVE  Taken'
<1>1. run \in RunType /\ rev \in RevType /\ async \in AsyncType /\ toPrimary \in Nat
  BY DEF TypeOK
<1>2. CASE UserMessage
  <2>1. toPrimary' > 0 /\ UNCHANGED <<rev, async>>
    BY <1>1, <1>2 DEF UserMessage
  <2> QED
    BY <2>1, TakenWith DEF SameListeners, QueuedReviewIsTaken
<1>3. CASE Pause
  BY <1>3, TakenDetached DEF Pause, Taken
<1>4. CASE Resume
  <2>1. async.resume \in Nat /\ async.resume < MaxResumes
    BY <1>1, <1>4 DEF Resume, AsyncType
  <2>2. async'.resume = async.resume + 1 /\ async'.leaked = async.leaked /\ rev' = Detached
    BY <1>1, <1>4 DEF Resume, AsyncType
  <2>3. async'.resume <= 1
    BY <2>1, <2>2, BoundsAssumption
  <2> QED
    BY <2>2, <2>3, TakenDetached DEF Taken
<1>5. CASE Resumed
  <2>1. async.resume \in Nat /\ async.resume = 1 /\ ~rev.listening /\ ~rev.finalReviewQueued
    BY <1>1, <1>5 DEF Resumed, Taken, AsyncType
  <2>2. async'.resume = 0
    BY <1>1, <1>5, <2>1 DEF Resumed, AsyncType
  <2>3. ~async'.leaked
    BY <1>1, <1>5, <2>1 DEF Resumed, AsyncType, Taken
  <2>4. ~rev'.finalReviewQueued
    BY <1>1, <1>5, <2>1 DEF Resumed, RevType
  <2> QED
    BY <2>2, <2>3, <2>4 DEF Taken, QueuedReviewIsTaken
<1>6. CASE ResolveTieBreak
  <2>1. ~rev.listening /\ ~rev.finalReviewQueued /\ UNCHANGED async
    BY <1>6 DEF ResolveTieBreak, Quiet, Taken
  <2>2. rev'.listening = rev.listening /\ ~rev'.finalReviewQueued
    BY <1>1, <1>6, <2>1 DEF ResolveTieBreak, MentorWins, PrimaryWins, InjectPrimary, RevType
  <2> QED
    BY <2>1, <2>2, TakenWith DEF SameListeners, QueuedReviewIsTaken
<1>7. CASE Stop
  <2>1. async'.resume = async.resume /\ async'.leaked = async.leaked /\ rev' = Detached
    BY <1>1, <1>7 DEF Stop, AsyncType
  <2> QED
    BY <2>1, TakenDetached DEF Taken
<1>8. CASE Stopped
  <2>1. /\ async'.resume = async.resume /\ async'.leaked = async.leaked /\ UNCHANGED rev
        /\ run'.status = "completed"
    BY <1>1, <1>8 DEF Stopped, AsyncType, RunType
  <2> QED
    BY <2>1, TakenWith DEF SameListeners, QueuedReviewIsTaken, Heard
<1> QED
  BY <1>2, <1>3, <1>4, <1>5, <1>6, <1>7, <1>8 DEF UserAction

\* Unless ties go to the primary or resumes overlap, a finished turn that waits
\* for its final review is taken by the mentor when it is free, or finds the
\* primary at work on the prompt whose turn asks again - over pauses, resumes,
\* the user's messages and every interleaving of live with final reviews.
THEOREM QueuedIsTaken ==
  ASSUME TieBreakPolicy # "primaryWins", MaxResumes <= 1
  PROVE  Spec => []QueuedReviewIsTaken
<1>1. Init => Taken
  BY DEF Init, Detached, Taken, QueuedReviewIsTaken
<1>2. TypeOK /\ Quiet /\ Taken /\ [Next]_vars => Taken'
  <2> SUFFICES ASSUME TypeOK, Quiet, Taken, [Next]_vars PROVE Taken'
    OBVIOUS
  <2>1. run \in RunType /\ rev \in RevType /\ async \in AsyncType
    BY DEF TypeOK
  <2>2. CASE PrimaryTurn
    <3>1. CASE /\ ~Listening \/ run.status = "paused"
               /\ UNCHANGED <<run, rev, async, toMentor>>
      BY <3>1 DEF Taken, QueuedReviewIsTaken, Heard, Listening
    <3>2. CASE Listening /\ HandlePrimaryTurnComplete(run, rev)
      BY <2>1, <3>2, TakenByTurn
    <3>3. CASE Listening /\ HandlePrimaryTurnComplete(
                 [run EXCEPT !.status = "running", !.phase = "building"],
                 [rev EXCEPT !.ops = 0, !.driftNudged = FALSE])
      <4> DEFINE r == [rev EXCEPT !.ops = 0, !.driftNudged = FALSE]
      <4>1. /\ r \in RevType /\ r.listening = rev.listening
            /\ r.finalReviewQueued = rev.finalReviewQueued
        BY <2>1 DEF RevType
      <4>2. HandlePrimaryTurnComplete(
              [run EXCEPT !.status = "running", !.phase = "building"], r)
        BY <3>3
      <4> HIDE DEF r
      <4> QED
        BY <3>3, <4>1, <4>2, TakenByTurn
    <3> QED
      BY <2>2, <3>1, <3>2, <3>3 DEF PrimaryTurn
  <2>3. CASE RunFinalReview
    <3>1. /\ rev'.mentorMode = "final" /\ rev'.listening = rev.listening
          /\ rev'.finalReviewQueued = rev.finalReviewQueued
      BY <2>1, <2>3 DEF RunFinalReview, RevType
    <3>2. async'.resume = async.resume /\ async'.leaked = async.leaked
      BY <2>1, <2>3 DEF RunFinalReview, AsyncType
    <3> QED
      BY <3>1, <3>2, TakenWith DEF SameListeners, QueuedReviewIsTaken
  <2>4. CASE MentorTurn
    BY <2>4, TakenByVerdict
  <2>5. CASE LiveCoReview
    BY <2>5, TakenLive
  <2>6. CASE AnalystSnapshot
    BY <2>6 DEF AnalystSnapshot, Taken, QueuedReviewIsTaken, Heard, Listening
  <2>7. CASE UserAction
    BY <2>7, TakenByUser
  <2>8. CASE UNCHANGED vars
    BY <2>8 DEF vars, Taken, QueuedReviewIsTaken, Heard, Listening
  <2> QED
    BY <2>2, <2>3, <2>4, <2>5, <2>6, <2>7, <2>8 DEF Next
<1>3. Taken => QueuedReviewIsTaken
  BY DEF Taken
<1> QED
  BY <1>1, <1>2, <1>3, TypeCorrect, PausedIsQuiet, PTL DEF Spec

----------------------------------------------------------------------------
\* The loop by itself, with no live review, no nudge and no user beside it.
\* Then one of the three is at work at any time: the primary on a prompt, the
\* mentor on a prompt, or getGitDiff for a final review.

Lockstep == ~LiveReview /\ ~DriftNudge /\ MaxUserMessages = 0 /\ MaxPauses = 0

AtWork == toPrimary + async.final + Len(toMentor)

\* And the mentor was asked what the store takes its answer for.
OneAtWork ==
  /\ async.resume = 0 /\ ~async.leaked /\ async.incremental = 0 /\ async.nudge = 0
  /\ run.status = "paused" => run.blocker # "none"
  /\ rev.listening =>
       /\ async.stop = "no"
       /\ AtWork <= 1
       /\ run.status = "completed" => AtWork = 0
       /\ toMentor # <<>> => /\ rev.mentorMode \in {"plan", "final", "dialogue"}
                             /\ toMentor[1] \in {"reask", rev.mentorMode}

\* What the helpers of a turn leave to the step around them.
SameAsync ==
  /\ async'.resume = async.resume /\ async'.leaked = async.leaked
  /\ async'.incremental = async.incremental /\ async'.nudge = async.nudge

\* Nobody listens any more: the exchange asks nothing of the state.
LEMMA Deaf ==
  ASSUME OneAtWork, ~rev'.listening, SameAsync, run'.status = "paused" => run'.blocker # "none"
  PROVE  OneAtWork'
BY DEF OneAtWork, SameAsync

\* Without leaked listeners every turn answers a prompt.
LEMMA TurnAnswers ==
  ASSUME OneAtWork, NEW k \in Nat, NEW n \in Answered(k) PROVE n \in 1..k
BY DEF OneAtWork, Answered

\* A mentor that is heard answers the only prompt there is.
LEMMA OnlyPrompt ==
  ASSUME TypeOK, OneAtWork, rev.listening, NEW n \in Answered(Len(toMentor)), NEW s,
         NEW more \in Seq(Prompts), AnswerMentor(n, s, more)
  PROVE  /\ toMentor' = more
         /\ toPrimary = 0 /\ async.final = 0
         /\ Len(toMentor) = 1 /\ toMentor # <<>>
         /\ run.status # "completed"
<1>1. /\ toPrimary \in Nat /\ async.final \in Nat /\ Len(toMentor) \in Nat
      /\ toPrimary + async.final + Len(toMentor) <= 1 /\ n \in 1..Len(toMentor)
  BY WorkTypes, TurnAnswers DEF OneAtWork, AtWork
<1>2. toPrimary = 0 /\ async.final = 0 /\ Len(toMentor) = 1 /\ n = 1
  <2> DEFINE p == toPrimary
             f == async.final
             m == Len(toMentor)
  <2>1. p \in Nat /\ f \in Nat /\ m \in Nat /\ p + f + m <= 1 /\ n \in 1..m
    BY <1>1
  <2> HIDE DEF p, f, m
  <2>2. p = 0 /\ f = 0 /\ m = 1 /\ n = 1
    BY <2>1
  <2> QED
    BY <2>2 DEF p, f, m
<1>3. AtWork = 1 /\ toMentor # <<>>
  BY <1>2, WorkTypes DEF AtWork
<1>4. SubSeq(toMentor, 2, 1) = <<>>
  BY <1>2, SubSeqProperties DEF TypeOK
<1>5. toMentor' = <<>> \o more
  BY <1>2, <1>4 DEF AnswerMentor
<1> QED
  BY <1>2, <1>3, <1>5, ConcatProperties DEF OneAtWork

\* The primary is asked, and nobody else is.
LEMMA PrimaryAsked ==
  ASSUME TypeOK, OneAtWork, NEW r \in RevType, InjectPrimary(r), UNCHANGED async,
         toMentor' = <<>>, toPrimary = 0, async.final = 0, async.stop = "no",
         run'.status = "running"
  PROVE  OneAtWork'
<1>1. toPrimary' = 1 /\ async'.final = 0 /\ Len(toMentor') = 0
  BY DEF InjectPrimary
<1>2. AtWork' = 1
  BY <1>1 DEF AtWork
<1> QED
  BY <1>1, <1>2 DEF OneAtWork

\* A tie-break prompts the primary, pauses the run, or leaves nobody at work.
LEMMA TieBreakLeavesOne ==
  ASSUME TypeOK, OneAtWork, NEW b \in RunType, NEW r \in RevType, ApplyTieBreak(b, r),
         UNCHANGED async, toMentor' = <<>>, toPrimary = 0, async.final = 0,
         async.stop = "no"
  PROVE  OneAtWork'
<1>1. CASE /\ run' = [b EXCEPT !.status = "paused", !.phase = "escalated",
                               !.blocker = "deadlock"]
           /\ rev' = Detached
  <2>1. run'.blocker # "none" /\ ~rev'.listening
    BY <1>1 DEF RunType, Detached
  <2> QED
    BY <2>1, Deaf DEF SameAsync
<1>2. CASE MentorWins(b, r)
  <2>1. run'.status = "running"
    BY <1>2 DEF MentorWins, RunType
  <2> QED
    BY <1>2, <2>1, PrimaryAsked DEF MentorWins
<1>3. CASE PrimaryWins(b, r)
  <2>1. run'.status = "running" /\ rev' = r /\ toPrimary' = 0
    BY <1>3 DEF PrimaryWins, RunType
  <2>2. AtWork' = 0
    BY <2>1 DEF AtWork
  <2> QED
    BY <2>1, <2>2 DEF OneAtWork
<1> QED
  BY <1>1, <1>2, <1>3 DEF ApplyTieBreak

LEMMA PursuitLeavesOne ==
  ASSUME TypeOK, OneAtWork, NEW b \in RunType, NEW r \in RevType, NEW c, PursueConcern(b, r, c),
         c \in Concerns \cup {Unclear}, b.status = "running",
         UNCHANGED async, toMentor' = <<>>, toPrimary = 0, async.final = 0,
         async.stop = "no"
  PROVE  OneAtWork'
<1> DEFINE noted == [b EXCEPT !.priorConcerns = @ \cup {c}]
<1>1. noted \in RunType /\ noted.status = "running"
  BY DEF RunType
<1> HIDE DEF noted
<1>2. CASE ApplyTieBreak(noted, r)
  BY <1>1, <1>2, TieBreakLeavesOne
<1>3. CASE /\ run' = [noted EXCEPT !.phase = "dialoguing", !.repairAttempts = @ + 1]
           /\ InjectPrimary(r)
  <2>1. run'.status = "running"
    BY <1>1, <1>3 DEF RunType
  <2> QED
    BY <1>3, <2>1, PrimaryAsked
<1> QED
  BY <1>2, <1>3 DEF PursueConcern, noted

LEMMA MentorTurnLeavesOne ==
  ASSUME TypeOK, OneAtWork, MentorTurn, Heard
  PROVE  OneAtWork'
<1> DEFINE b == [run EXCEPT !.awaitingReAsk = FALSE]
           r == [rev EXCEPT !.mentorMode = "free"]
<1>1. b \in RunType /\ b.status = "running"
  BY DEF TypeOK, RunType, Heard
<1>2. r \in RevType /\ r.listening = rev.listening
  BY DEF TypeOK, RevType, Modes
<1>3. rev.listening /\ async.stop = "no" /\ rev \in RevType /\ run \in RunType
  BY DEF Heard, Listening, OneAtWork, TypeOK
<1>4. ASSUME NEW n \in Answered(Len(toMentor)), NEW s, AnswerMentor(n, s, <<>>)
      PROVE  toMentor' = <<>> /\ toPrimary = 0 /\ async.final = 0
  <2>1. <<>> \in Seq(Prompts)
    OBVIOUS
  <2> QED
    BY <1>3, <1>4, <2>1, OnlyPrompt
<1>5. CASE ReAsk
  <2>1. PICK n \in Answered(Len(toMentor)), s \in Costs : AnswerMentor(n, s, <<"reask">>)
    BY <1>5 DEF ReAsk
  <2>2. <<"reask">> \in Seq(Prompts)
    BY DEF Prompts
  <2>3. /\ toMentor' = <<"reask">> /\ toPrimary = 0 /\ async.final = 0
        /\ toMentor # <<>>
    BY <1>3, <2>1, <2>2, OnlyPrompt
  <2>4. UNCHANGED <<rev, async, toPrimary>> /\ run'.status = "running"
    BY <1>3, <1>5 DEF ReAsk, RunType, Heard
  <2>5. Len(toMentor') = 1 /\ toMentor'[1] = "reask"
    BY <2>3
  <2>6. AtWork' = 1
    BY <2>3, <2>4, <2>5 DEF AtWork
  <2> QED
    BY <2>3, <2>4, <2>5, <2>6 DEF OneAtWork
<1>6. ASSUME NEW answer \in Answers, PlanVerdict(answer) PROVE OneAtWork'
  <2>1. /\ \E n \in Answered(Len(toMentor)), s \in Costs : AnswerMentor(n, s, <<>>)
        /\ UNCHANGED async
        /\ \/ /\ run' = [b EXCEPT !.phase = "building", !.repairAttempts = 0,
                                  !.priorConcerns = {}]
              /\ InjectPrimary(r)
           \/ ApplyTieBreak(b, r)
           \/ /\ run' = [b EXCEPT !.phase = "planning", !.repairAttempts = @ + 1]
              /\ InjectPrimary(r)
    BY <1>6 DEF PlanVerdict
  <2> HIDE DEF b, r
  <2>2. toMentor' = <<>> /\ toPrimary = 0 /\ async.final = 0
    BY <1>4, <2>1
  <2>3. CASE ApplyTieBreak(b, r)
    BY <1>1, <1>2, <1>3, <2>1, <2>2, <2>3, TieBreakLeavesOne
  <2>4. CASE InjectPrimary(r) /\ run'.status = "running"
    BY <1>2, <1>3, <2>1, <2>2, <2>4, PrimaryAsked
  <2> QED
    BY <1>1, <2>1, <2>3, <2>4 DEF RunType
<1>7. ASSUME NEW answer \in Answers, NEW c \in Concerns, FinalVerdict(answer, c)
      PROVE  OneAtWork'
  <2>1. /\ \E n \in Answered(Len(toMentor)), s \in Costs : AnswerMentor(n, s, <<>>)
        /\ UNCHANGED async
        /\ CompleteRun(b, r) \/ PursueConcern(b, r, c)
    BY <1>7 DEF FinalVerdict
  <2> HIDE DEF b, r
  <2>2. toMentor' = <<>> /\ toPrimary = 0 /\ async.final = 0
    BY <1>4, <2>1
  <2>3. CASE CompleteRun(b, r)
    <3>1. run'.status = "completed" /\ toPrimary' = 0
      BY <1>1, <2>2, <2>3 DEF CompleteRun, RunType
    <3>2. AtWork' = 0
      BY <2>1, <2>2, <3>1 DEF AtWork
    <3> QED
      BY <1>3, <2>1, <2>2, <3>1, <3>2 DEF OneAtWork
  <2>4. CASE PursueConcern(b, r, c)
    BY <1>1, <1>2, <1>3, <2>1, <2>2, <2>4, PursuitLeavesOne
  <2> QED
    BY <2>1, <2>3, <2>4
<1>8. CASE FinalUnclear
  <2>1. /\ \E n \in Answered(Len(toMentor)), s \in Costs : AnswerMentor(n, s, <<>>)
        /\ UNCHANGED async
        /\ PursueConcern(run, rev, Unclear)
    BY <1>8 DEF FinalUnclear
  <2>2. toMentor' = <<>> /\ toPrimary = 0 /\ async.final = 0
    BY <1>4, <2>1
  <2> QED
    BY <1>3, <2>1, <2>2, PursuitLeavesOne DEF Heard
<1>9. ASSUME NEW answer \in Answers, IncrementalVerdict(answer) PROVE OneAtWork'
  <2>1. /\ rev.mentorMode = "incremental"
        /\ \E n \in Answered(Len(toMentor)), s \in Costs : AnswerMentor(n, s, <<>>)
    BY <1>9 DEF IncrementalVerdict
  <2>2. toMentor # <<>>
    BY <2>1, WorkTypes, TurnAnswers
  <2> QED
    BY <1>3, <2>1, <2>2 DEF OneAtWork
<1>10. ~MentorUnheard
  BY DEF MentorUnheard
<1> QED
  BY <1>5, <1>6, <1>7, <1>8, <1>9, <1>10 DEF MentorTurn

\* The primary was the one at work, and hands over to the mentor or to
\* getGitDiff - or to the queue, which leaves nobody.
LEMMA PrimaryTurnLeavesOne ==
  ASSUME TypeOK, OneAtWork, rev.listening, toPrimary > 0, toPrimary' = 0,
         NEW b \in RunType, b.status = "running",
         NEW r \in RevType, r.listening,
         HandlePrimaryTurnComplete(b, r)
  PROVE  OneAtWork'
<1> USE ConstantsAssumption
<1>1. /\ toPrimary = 1 /\ async.final = 0 /\ Len(toMentor) = 0
      /\ toMentor = <<>> /\ async.stop = "no" /\ async \in AsyncType
  BY WorkTypes DEF OneAtWork, AtWork, TypeOK
<1>2. CASE PauseOverBudget(b)
  <2>1. ~rev'.listening /\ run'.blocker = "budget" /\ UNCHANGED async
    BY <1>2 DEF PauseOverBudget, Detached, RunType
  <2> QED
    BY <2>1, Deaf DEF SameAsync
<1>3. ASSUME NEW kind \in {"plan", "dialogue"}, HandOver(b, r, kind) PROVE OneAtWork'
  <2>1. /\ run'.status = "running" /\ rev'.mentorMode = kind
        /\ rev'.listening /\ UNCHANGED async
    BY <1>3 DEF HandOver, RunType, RevType, Modes
  <2>2. toMentor' = <<kind>>
    BY <1>1, <1>3 DEF HandOver, AskMentor, Open
  <2>3. Len(toMentor') = 1 /\ toMentor'[1] = kind
    BY <2>2
  <2>4. AtWork' = 1
    BY <1>1, <2>1, <2>3 DEF AtWork
  <2> QED
    BY <1>1, <2>1, <2>3, <2>4 DEF OneAtWork
<1>4. CASE RequestFinalReview(b, r)
  <2>1. run' = b /\ UNCHANGED toMentor
    BY <1>4 DEF RequestFinalReview
  <2>2. CASE /\ rev' = [r EXCEPT !.timer = FALSE, !.finalReviewQueued = TRUE]
             /\ UNCHANGED async
    <3>1. rev'.listening
      BY <2>2 DEF RevType
    <3>2. AtWork' = 0
      BY <1>1, <2>1, <2>2 DEF AtWork
    <3> QED
      BY <1>1, <2>1, <2>2, <3>1, <3>2 DEF OneAtWork
  <2>3. CASE /\ rev' = [r EXCEPT !.timer = FALSE]
             /\ async' = [async EXCEPT !.final = @ + 1]
    <3>1. rev'.listening
      BY <2>3 DEF RevType
    <3>2. async'.final = 1 /\ async'.stop = "no" /\ SameAsync
      BY <1>1, <2>3 DEF AsyncType, SameAsync
    <3>3. AtWork' = 1
      BY <1>1, <2>1, <3>2 DEF AtWork
    <3> QED
      BY <1>1, <2>1, <3>1, <3>2, <3>3 DEF OneAtWork, SameAsync
  <2> QED
    BY <1>4, <2>2, <2>3 DEF RequestFinalReview
<1> QED
  BY <1>2, <1>3, <1>4 DEF HandlePrimaryTurnComplete

\* Without live reviews their events change nothing of the exchange.
LEMMA LiveIsQuiet ==
  ASSUME Lockstep, TypeOK, OneAtWork, LiveCoReview
  PROVE  /\ UNCHANGED <<run, toPrimary, toMentor, cost, async>>
         /\ rev'.listening = rev.listening /\ rev'.mentorMode = rev.mentorMode
<1>0. rev \in RevType
  BY DEF TypeOK
<1>1. ASSUME NEW severe \in BOOLEAN, Edit(severe)
      PROVE  /\ UNCHANGED <<run, toPrimary, toMentor, cost, async>>
             /\ rev'.listening = rev.listening /\ rev'.mentorMode = rev.mentorMode
  <2> DEFINE drifts == Heard /\ severe /\ ~rev.driftNudged
  <2>1. (rev.driftNudged \/ drifts) \in BOOLEAN
    BY <1>0 DEF RevType
  <2>2. /\ UNCHANGED <<run, toPrimary, toMentor, cost, async>>
        /\ \/ UNCHANGED rev
           \/ rev' = [rev EXCEPT !.driftNudged = @ \/ drifts, !.ops = @]
    BY <1>1 DEF Edit, Lockstep
  <2> HIDE DEF drifts
  <2> QED
    BY <1>0, <2>1, <2>2 DEF RevType
<1>2. CASE TimerFires
  BY <1>0, <1>2 DEF TimerFires, MaybeTrigger, Lockstep, RevType
<1>3. CASE IntervalElapses
  BY <1>0, <1>3 DEF IntervalElapses, RevType
<1>4. ~Checkpoint /\ ~Heartbeat
  BY DEF Checkpoint, Heartbeat, Lockstep
<1>5. async.incremental = 0 /\ async.nudge = 0
  BY DEF OneAtWork
<1>6. ~RunIncrementalReview /\ ~NudgeSent
  BY <1>5 DEF RunIncrementalReview, NudgeSent
<1> QED
  BY <1>1, <1>2, <1>3, <1>4, <1>6 DEF LiveCoReview

LEMMA NextLeavesOne ==
  ASSUME Lockstep, TypeOK, Quiet, OneAtWork, [Next]_vars PROVE OneAtWork'
<1> USE ConstantsAssumption
<1>1. run \in RunType /\ rev \in RevType /\ async \in AsyncType
  BY DEF TypeOK
<1>2. Listening = rev.listening
  BY <1>1 DEF Listening, OneAtWork, RevType
<1>3. CASE PrimaryTurn
  <2>1. PICK n \in Answered(toPrimary) :
          /\ toPrimary' = toPrimary - n
          /\ \/ /\ ~Listening \/ run.status = "paused"
                /\ UNCHANGED <<run, rev, async, toMentor>>
             \/ /\ Listening /\ run.status = "running"
                /\ HandlePrimaryTurnComplete(run, rev)
             \/ Listening /\ run.status = "completed"
    BY <1>3 DEF PrimaryTurn
  <2>2. n \in 1..toPrimary /\ toPrimary \in Nat
    BY TurnAnswers, WorkTypes
  <2>3. CASE rev.listening
    <3>1. toPrimary = 1 /\ n = 1 /\ AtWork = 1
      <4>1. toPrimary + async.final + Len(toMentor) <= 1
        BY <2>3 DEF OneAtWork, AtWork
      <4>2. toPrimary <= 1
        BY <2>2, <4>1, WorkTypes
      <4>3. toPrimary = 1 /\ n = 1
        BY <2>2, <4>2
      <4> QED
        BY <4>1, <4>3, WorkTypes DEF AtWork
    <3>2. run.status # "paused" /\ run.status # "completed"
      BY <2>3, <3>1 DEF OneAtWork, Quiet
    <3>3. toPrimary' = 0 /\ run.status = "running" /\ HandlePrimaryTurnComplete(run, rev)
      BY <1>2, <2>1, <2>3, <3>1, <3>2
    <3> QED
      BY <1>1, <2>3, <3>1, <3>3, PrimaryTurnLeavesOne
  <2>4. CASE ~rev.listening
    <3>1. UNCHANGED <<run, rev, async>>
      BY <1>2, <2>1, <2>4
    <3> QED
      BY <2>4, <3>1, Deaf DEF OneAtWork, SameAsync
  <2> QED
    BY <2>3, <2>4
<1>4. CASE RunFinalReview
  <2>1. /\ async'.final = async.final - 1 /\ async'.stop = async.stop /\ SameAsync
        /\ async.final \in Nat /\ async.final > 0
    BY <1>1, <1>4 DEF RunFinalReview, AsyncType, SameAsync
  <2>2. run'.status = run.status /\ run'.blocker = run.blocker
    BY <1>1, <1>4 DEF RunFinalReview, RunType
  <2>3. rev'.listening = rev.listening /\ rev'.mentorMode = "final"
    BY <1>1, <1>4 DEF RunFinalReview, RevType, Modes
  <2>4. UNCHANGED toPrimary /\ AskMentor("final")
    BY <1>4 DEF RunFinalReview
  <2>5. CASE rev.listening
    <3>1. /\ async.stop = "no" /\ toPrimary = 0 /\ async.final = 1 /\ toMentor = <<>>
          /\ AtWork = 1
      BY <2>1, <2>5, WorkTypes DEF OneAtWork, AtWork
    <3>2. toMentor' = <<"final">>
      BY <2>4, <3>1 DEF AskMentor, Open
    <3>3. Len(toMentor') = 1 /\ toMentor'[1] = "final" /\ async'.final = 0
      BY <2>1, <3>1, <3>2
    <3>4. AtWork' = 1
      BY <2>4, <3>1, <3>3 DEF AtWork
    <3>5. run.status # "completed"
      BY <2>5, <3>1 DEF OneAtWork
    <3> QED
      BY <2>1, <2>2, <2>3, <3>1, <3>3, <3>4, <3>5 DEF OneAtWork, SameAsync
  <2>6. CASE ~rev.listening
    BY <2>1, <2>2, <2>3, <2>6, Deaf DEF OneAtWork
  <2> QED
    BY <2>5, <2>6
<1>5. CASE MentorTurn
  <2>1. CASE Heard
    BY <1>5, <2>1, MentorTurnLeavesOne
  <2>2. CASE ~Heard
    <3>1. PICK n \in Answered(Len(toMentor)), s \in Costs : AnswerMentor(n, s, <<>>)
      BY <1>5, <2>2 DEF MentorTurn, MentorUnheard, ReAsk, PlanVerdict, FinalVerdict,
         FinalUnclear, IncrementalVerdict
    <3>2. UNCHANGED <<run, rev, async, toPrimary>>
      BY <1>5, <2>2 DEF MentorTurn, MentorUnheard, ReAsk, PlanVerdict, FinalVerdict,
         FinalUnclear, IncrementalVerdict
    <3>3. ~rev.listening
      <4>1. SUFFICES ASSUME rev.listening PROVE FALSE
        OBVIOUS
      <4>2. <<>> \in Seq(Prompts)
        OBVIOUS
      <4>3. run.status # "completed"
        BY <3>1, <4>1, <4>2, OnlyPrompt
      <4>4. run.status = "paused"
        BY <1>1, <1>2, <2>2, <4>1, <4>3 DEF Heard, RunType, Statuses
      <4> QED
        BY <4>1, <4>4 DEF Quiet
    <3> QED
      BY <3>2, <3>3, Deaf DEF OneAtWork, SameAsync
  <2> QED
    BY <2>1, <2>2
<1>6. CASE LiveCoReview
  <2>1. /\ UNCHANGED <<run, toPrimary, toMentor, async>>
        /\ rev'.listening = rev.listening /\ rev'.mentorMode = rev.mentorMode
    BY <1>6, LiveIsQuiet
  <2> QED
    BY <2>1 DEF OneAtWork, AtWork
<1>7. CASE AnalystSnapshot
  BY <1>7 DEF AnalystSnapshot, OneAtWork, AtWork
<1>8. CASE UserAction
  <2>1. ~UserMessage /\ ~Pause /\ ~Resumed
    BY DEF UserMessage, Pause, Resumed, Lockstep, OneAtWork, TypeOK
  <2>2. ~Resume
    BY DEF Resume, OneAtWork
  <2>3. CASE ResolveTieBreak
    <3>1. ~rev.listening /\ UNCHANGED async /\ run.status = "paused"
      BY <2>3 DEF ResolveTieBreak, Quiet
    <3>2. run'.status = "running"
      BY <1>1, <2>3, WinnersRun DEF ResolveTieBreak
    <3>3. ~rev'.listening
      BY <1>1, <2>3, <3>1 DEF ResolveTieBreak, MentorWins, PrimaryWins, InjectPrimary, RevType
    <3> QED
      BY <3>1, <3>2, <3>3, Deaf DEF SameAsync
  <2>4. CASE Stop
    <3>1. ~rev'.listening /\ UNCHANGED run /\ SameAsync
      BY <1>1, <2>4 DEF Stop, Detached, AsyncType, SameAsync
    <3> QED
      BY <3>1, Deaf DEF OneAtWork
  <2>5. CASE Stopped
    <3>1. UNCHANGED rev /\ run'.status = "completed" /\ SameAsync /\ ~rev.listening
      BY <1>1, <2>5 DEF Stopped, RunType, AsyncType, OneAtWork, SameAsync
    <3> QED
      BY <3>1, Deaf
  <2> QED
    BY <1>8, <2>1, <2>2, <2>3, <2>4, <2>5 DEF UserAction
<1>9. CASE UNCHANGED vars
  BY <1>9 DEF vars, OneAtWork, AtWork
<1> QED
  BY <1>3, <1>4, <1>5, <1>6, <1>7, <1>8, <1>9 DEF Next

\* One at work, from the first prompt on.
THEOREM OneIsAtWork == ASSUME Lockstep PROVE Spec => []OneAtWork
<1>1. Init => OneAtWork
  BY DEF Init, Detached, OneAtWork, AtWork
<1>2. TypeOK /\ Quiet /\ OneAtWork /\ [Next]_vars => OneAtWork'
  BY NextLeavesOne
<1> QED
  BY <1>1, <1>2, TypeCorrect, PausedIsQuiet, PTL DEF Spec

\* The mentor's next turn is taken for the answer to what it was asked.
THEOREM MentorIsRouted == ASSUME Lockstep PROVE Spec => []MentorTurnsRouted
<1>1. TypeOK /\ OneAtWork => MentorTurnsRouted
  <2> SUFFICES ASSUME TypeOK, OneAtWork, Heard, NEW i \in DOMAIN toMentor
               PROVE  toMentor[i] \in {"reask", rev.mentorMode}
    BY DEF MentorTurnsRouted
  <2>1. toPrimary \in Nat /\ async.final \in Nat /\ Len(toMentor) \in Nat
        /\ toPrimary + async.final + Len(toMentor) <= 1
    BY WorkTypes DEF Heard, Listening, OneAtWork, AtWork
  <2>2. i \in 1..Len(toMentor)
    BY DEF TypeOK
  <2>3. Len(toMentor) <= 1
    BY <2>1
  <2>4. i = 1 /\ Len(toMentor) # 0
    BY <2>1, <2>2, <2>3
  <2> QED
    BY <2>4, WorkTypes DEF Heard, Listening, OneAtWork
<1> QED
  BY <1>1, TypeCorrect, OneIsAtWork, PTL

\* Only the answer to a final review, or to the reply to a concern, completes a
\* run that nobody stops.
THEOREM FinalReviewCompletes == ASSUME Lockstep PROVE Spec => CompletedByFinalReview
<1>1. ASSUME TypeOK, Quiet, OneAtWork, MentorTurnsRouted, Next,
             run.status = "running", run'.status = "completed", Open'
      PROVE  /\ rev.mentorMode \in {"final", "dialogue"}
             /\ \A i \in DOMAIN toMentor : toMentor[i] \in {"final", "dialogue", "reask"}
  <2> USE <1>1
  <2>1. run \in RunType
    BY DEF TypeOK
  <2>2. ~PrimaryTurn
    BY <2>1 DEF PrimaryTurn, HandlePrimaryTurnComplete, PauseOverBudget, HandOver,
       RequestFinalReview, RunType
  <2>3. ~RunFinalReview
    BY <2>1 DEF RunFinalReview, RunType
  <2>4. ~LiveCoReview
    BY DEF LiveCoReview, Edit, Checkpoint, TimerFires, Heartbeat, IntervalElapses,
       RunIncrementalReview, NudgeSent
  <2>5. ~UserAction
    <3>1. ~Stopped
      BY DEF Stopped, Open, TypeOK, AsyncType
    <3> QED
      BY <2>1, <3>1 DEF UserAction, UserMessage, Pause, Resume, Resumed, ResolveTieBreak, Stop,
         RunType
  <2>6. MentorTurn
    BY <2>2, <2>3, <2>4, <2>5 DEF Next, AnalystSnapshot
  <2>7. Heard
    BY <2>6 DEF MentorTurn, MentorUnheard, ReAsk, PlanVerdict, FinalVerdict, FinalUnclear,
       IncrementalVerdict
  <2>8. Answered(Len(toMentor)) # {}
    BY <2>6 DEF MentorTurn, MentorUnheard, ReAsk, PlanVerdict, FinalVerdict, FinalUnclear,
       IncrementalVerdict
  <2>9. toMentor # <<>>
    BY <2>8, WorkTypes, TurnAnswers
  <2>10. rev.mentorMode \in {"plan", "final", "dialogue"}
    BY <2>7, <2>9 DEF Heard, Listening, OneAtWork
  <2>11. rev.mentorMode # "plan"
    <3>1. SUFFICES ASSUME rev.mentorMode = "plan" PROVE FALSE
      OBVIOUS
    <3>2. ReAsk \/ \E answer \in Answers : PlanVerdict(answer)
      BY <2>6, <2>7, <3>1 DEF MentorTurn, MentorUnheard, FinalVerdict, FinalUnclear,
         IncrementalVerdict
    <3>3. ~ReAsk
      BY <2>1 DEF ReAsk, RunType
    <3>4. ASSUME NEW answer \in Answers, PlanVerdict(answer) PROVE FALSE
      <4> DEFINE b == [run EXCEPT !.awaitingReAsk = FALSE]
                 r == [rev EXCEPT !.mentorMode = "free"]
      <4>1. b \in RunType /\ b.status = "running"
        BY <2>1 DEF RunType
      <4>2. \/ run' = [b EXCEPT !.phase = "building", !.repairAttempts = 0,
                                !.priorConcerns = {}]
            \/ ApplyTieBreak(b, r)
            \/ run' = [b EXCEPT !.phase = "planning", !.repairAttempts = @ + 1]
        BY <3>4 DEF PlanVerdict
      <4> HIDE DEF b, r
      <4> QED
        BY <4>1, <4>2 DEF ApplyTieBreak, MentorWins, PrimaryWins, RunType
    <3> QED
      BY <3>2, <3>3, <3>4
  <2> QED
    BY <2>7, <2>10, <2>11 DEF MentorTurnsRouted
<1>2. TypeOK /\ Quiet /\ OneAtWork /\ MentorTurnsRouted /\ [Next]_vars
        => [run.status = "running" /\ run'.status = "completed" /\ Open'
              => /\ rev.mentorMode \in {"final", "dialogue"}
                 /\ \A i \in DOMAIN toMentor : toMentor[i] \in {"final", "dialogue", "reask"}]_vars
  BY <1>1
<1> QED
  BY <1>2, TypeCorrect, PausedIsQuiet, OneIsAtWork, MentorIsRouted, PTL
     DEF Spec, CompletedByFinalReview

\* With the pause policy a verdict on the primary's work always ends in a
\* prompt, a pause or a completion.  A free mentor is what lets the primary's
\* turn start its final review: an answer that stayed unclear leaves the mentor
\* taken, but makes the turn to come a reply, which is handed over instead.
Followed ==
  Heard => /\ AtWork = 1
           /\ toPrimary > 0 /\ run.phase \notin {"planning", "dialoguing"}
                => rev.mentorMode = "free"

LEMMA PursuitFollows ==
  ASSUME TieBreakPolicy = "pause", TypeOK,
         NEW b \in RunType, NEW r \in RevType, NEW c \in Concerns \cup {Unclear},
         PursueConcern(b, r, c),
         UNCHANGED async, toMentor' = <<>>, toPrimary = 0, async.final = 0
  PROVE  Followed'
<1> DEFINE noted == [b EXCEPT !.priorConcerns = @ \cup {c}]
<1>1. noted \in RunType
  BY DEF RunType
<1> HIDE DEF noted
<1>2. CASE ApplyTieBreak(noted, r)
  <2>1. run'.status = "paused"
    BY <1>1, <1>2 DEF ApplyTieBreak, RunType
  <2> QED
    BY <2>1 DEF Followed, Heard
<1>3. CASE /\ run' = [noted EXCEPT !.phase = "dialoguing", !.repairAttempts = @ + 1]
           /\ InjectPrimary(r)
  <2>1. run'.phase = "dialoguing" /\ toPrimary' = 1
    BY <1>1, <1>3 DEF InjectPrimary, RunType
  <2>2. AtWork' = 1
    BY <2>1 DEF AtWork
  <2> QED
    BY <2>1, <2>2 DEF Followed
<1> QED
  BY <1>2, <1>3 DEF PursueConcern, noted

LEMMA MentorTurnFollows ==
  ASSUME TieBreakPolicy = "pause", TypeOK, OneAtWork, MentorTurn, Heard, OneAtWork'
  PROVE  Followed'
<1> DEFINE b == [run EXCEPT !.awaitingReAsk = FALSE]
           r == [rev EXCEPT !.mentorMode = "free"]
<1>1. b \in RunType
  BY DEF TypeOK, RunType
<1>2. r \in RevType /\ r.mentorMode = "free"
  BY DEF TypeOK, RevType, Modes
<1>3. rev.listening /\ rev \in RevType /\ run \in RunType
  BY DEF Heard, Listening, OneAtWork, TypeOK
<1>4. ASSUME NEW n \in Answered(Len(toMentor)), NEW s, AnswerMentor(n, s, <<>>)
      PROVE  toMentor' = <<>> /\ toPrimary = 0 /\ async.final = 0
  <2>1. <<>> \in Seq(Prompts)
    OBVIOUS
  <2> QED
    BY <1>3, <1>4, <2>1, OnlyPrompt
<1>5. CASE ReAsk
  <2>1. PICK n \in Answered(Len(toMentor)), s \in Costs : AnswerMentor(n, s, <<"reask">>)
    BY <1>5 DEF ReAsk
  <2>2. <<"reask">> \in Seq(Prompts)
    BY DEF Prompts
  <2>3. toMentor' = <<"reask">> /\ toPrimary = 0 /\ async.final = 0
    BY <1>3, <2>1, <2>2, OnlyPrompt
  <2>4. UNCHANGED <<async, toPrimary>>
    BY <1>5 DEF ReAsk
  <2>5. AtWork' = 1
    BY <2>3, <2>4 DEF AtWork
  <2> QED
    BY <2>3, <2>4, <2>5 DEF Followed
<1>6. ASSUME UNCHANGED async, InjectPrimary(r), toMentor' = <<>>, toPrimary = 0, async.final = 0
      PROVE  Followed'
  <2>1. toPrimary' = 1 /\ rev'.mentorMode = "free"
    BY <1>2, <1>6 DEF InjectPrimary, RevType
  <2>2. AtWork' = 1
    BY <1>6, <2>1 DEF AtWork
  <2> QED
    BY <2>1, <2>2 DEF Followed
<1>7. ASSUME ApplyTieBreak(b, r) PROVE Followed'
  <2>1. run'.status = "paused"
    BY <1>1, <1>7 DEF ApplyTieBreak, RunType
  <2> QED
    BY <2>1 DEF Followed, Heard
<1>8. ASSUME NEW answer \in Answers, PlanVerdict(answer) PROVE Followed'
  <2>1. /\ \E n \in Answered(Len(toMentor)), s \in Costs : AnswerMentor(n, s, <<>>)
        /\ UNCHANGED async
        /\ InjectPrimary(r) \/ ApplyTieBreak(b, r)
    BY <1>8 DEF PlanVerdict
  <2> HIDE DEF b, r
  <2> QED
    BY <1>4, <1>6, <1>7, <2>1
<1>9. ASSUME NEW answer \in Answers, NEW c \in Concerns, FinalVerdict(answer, c)
      PROVE  Followed'
  <2>1. /\ \E n \in Answered(Len(toMentor)), s \in Costs : AnswerMentor(n, s, <<>>)
        /\ UNCHANGED async
        /\ CompleteRun(b, r) \/ PursueConcern(b, r, c)
    BY <1>9 DEF FinalVerdict
  <2> HIDE DEF b, r
  <2>2. CASE CompleteRun(b, r)
    <3>1. run'.status = "completed"
      BY <1>1, <2>2 DEF CompleteRun, RunType
    <3> QED
      BY <3>1 DEF Followed, Heard
  <2>3. CASE PursueConcern(b, r, c)
    BY <1>1, <1>2, <1>4, <2>1, <2>3, PursuitFollows
  <2> QED
    BY <2>1, <2>2, <2>3
<1>10. CASE FinalUnclear
  <2>1. /\ \E n \in Answered(Len(toMentor)), s \in Costs : AnswerMentor(n, s, <<>>)
        /\ UNCHANGED async
        /\ PursueConcern(run, rev, Unclear)
    BY <1>10 DEF FinalUnclear
  <2> QED
    BY <1>3, <1>4, <2>1, PursuitFollows
<1>11. ASSUME NEW answer \in Answers, IncrementalVerdict(answer) PROVE FALSE
  <2>1. rev.mentorMode = "incremental" /\ toMentor # <<>>
    BY <1>11, WorkTypes, TurnAnswers DEF IncrementalVerdict
  <2> QED
    BY <1>3, <2>1 DEF OneAtWork
<1>12. ~MentorUnheard
  BY DEF MentorUnheard
<1> QED
  BY <1>5, <1>8, <1>9, <1>10, <1>11, <1>12 DEF MentorTurn

LEMMA PrimaryTurnFollows ==
  ASSUME TypeOK, Quiet, OneAtWork, Followed, PrimaryTurn PROVE Followed'
<1> USE ConstantsAssumption
<1>1. run \in RunType /\ rev \in RevType /\ async \in AsyncType /\ toPrimary \in Nat
  BY DEF TypeOK
<1>2. PICK n \in Answered(toPrimary) :
        /\ toPrimary' = toPrimary - n
        /\ \/ /\ ~Listening \/ run.status = "paused"
              /\ UNCHANGED <<run, rev, async, toMentor>>
           \/ /\ Listening /\ run.status = "running"
              /\ HandlePrimaryTurnComplete(run, rev)
           \/ Listening /\ run.status = "completed"
  BY DEF PrimaryTurn
<1>3. CASE ~Listening
  BY <1>2, <1>3 DEF Followed, Heard, Listening
<1>4. CASE Listening
  <2>1. /\ toPrimary = 1 /\ n = 1 /\ async.final = 0 /\ Len(toMentor) = 0 /\ toMentor = <<>>
        /\ AtWork = 1 /\ rev.listening
    <3>1. rev.listening /\ toPrimary + async.final + Len(toMentor) <= 1
      BY <1>4 DEF OneAtWork, AtWork, Listening
    <3>2. n \in 1..toPrimary
      BY <1>1, TurnAnswers
    <3>3. toPrimary = 1 /\ n = 1 /\ async.final = 0 /\ Len(toMentor) = 0
      <4>1. toPrimary >= 1
        BY <1>1, <3>2
      <4>2. toPrimary = 1 /\ async.final = 0 /\ Len(toMentor) = 0
        BY <1>1, <3>1, <4>1, WorkTypes
      <4> QED
        BY <3>2, <4>2
    <3> QED
      BY <3>1, <3>3, WorkTypes DEF AtWork
  <2>2. run.status # "completed" /\ run.status # "paused" /\ async.stop = "no"
    BY <2>1 DEF OneAtWork, Quiet
  <2>3. HandlePrimaryTurnComplete(run, rev) /\ toPrimary' = 0
    BY <1>2, <1>4, <2>1, <2>2
  <2>4. CASE PauseOverBudget(run)
    <3>1. run'.status = "paused"
      BY <1>1, <2>4 DEF PauseOverBudget, RunType
    <3> QED
      BY <3>1 DEF Followed, Heard
  <2>5. ASSUME NEW kind \in {"plan", "dialogue"}, HandOver(run, rev, kind) PROVE Followed'
    <3>1. toMentor' = <<kind>> /\ UNCHANGED async
      BY <2>1, <2>2, <2>5 DEF HandOver, AskMentor, Open
    <3>2. AtWork' = 1
      BY <2>1, <2>3, <3>1 DEF AtWork
    <3> QED
      BY <2>3, <3>2 DEF Followed
  <2>6. CASE run.phase \notin {"planning", "dialoguing"} /\ RequestFinalReview(run, rev)
    <3>1. rev.mentorMode = "free"
      BY <1>1, <1>4, <2>1, <2>2, <2>6 DEF Followed, Heard, RunType, Statuses
    <3>2. async' = [async EXCEPT !.final = @ + 1] /\ UNCHANGED toMentor
      BY <2>6, <3>1 DEF RequestFinalReview
    <3>3. async'.final = 1
      BY <1>1, <2>1, <3>2 DEF AsyncType
    <3>4. AtWork' = 1
      BY <2>1, <2>3, <3>2, <3>3 DEF AtWork
    <3> QED
      BY <2>3, <3>4 DEF Followed
  <2> QED
    BY <2>3, <2>4, <2>5, <2>6 DEF HandlePrimaryTurnComplete
<1> QED
  BY <1>3, <1>4

LEMMA NextFollows ==
  ASSUME Lockstep, TieBreakPolicy = "pause", TypeOK, Quiet, OneAtWork, OneAtWork',
         Followed, [Next]_vars
  PROVE  Followed'
<1>1. run \in RunType /\ rev \in RevType /\ async \in AsyncType
  BY DEF TypeOK
<1>2. CASE PrimaryTurn
  BY <1>2, PrimaryTurnFollows
<1>3. CASE RunFinalReview
  <2>1. /\ async'.final = async.final - 1 /\ async.final \in Nat /\ async.final > 0
        /\ async'.leaked = async.leaked
    BY <1>1, <1>3 DEF RunFinalReview, AsyncType
  <2>2. run'.status = run.status /\ rev'.listening = rev.listening
    BY <1>1, <1>3 DEF RunFinalReview, RunType, RevType
  <2>3. UNCHANGED toPrimary /\ AskMentor("final")
    BY <1>3 DEF RunFinalReview
  <2>4. CASE rev.listening
    <3>1. async.stop = "no" /\ toPrimary = 0 /\ async.final = 1 /\ toMentor = <<>>
      BY <2>1, <2>4, WorkTypes DEF OneAtWork, AtWork
    <3>2. toMentor' = <<"final">>
      BY <2>3, <3>1 DEF AskMentor, Open
    <3>3. AtWork' = 1
      BY <2>1, <2>3, <3>1, <3>2 DEF AtWork
    <3> QED
      BY <2>3, <3>1, <3>3 DEF Followed
  <2>5. CASE ~rev.listening
    BY <2>1, <2>2, <2>5 DEF Followed, Heard, Listening, OneAtWork
  <2> QED
    BY <2>4, <2>5
<1>4. CASE MentorTurn
  <2>1. CASE Heard
    BY <1>4, <2>1, MentorTurnFollows
  <2>2. CASE ~Heard
    <3>1. UNCHANGED <<run, rev>>
      BY <1>4, <2>2 DEF MentorTurn, MentorUnheard, ReAsk, PlanVerdict, FinalVerdict,
         FinalUnclear, IncrementalVerdict
    <3> QED
      BY <2>2, <3>1 DEF Followed, Heard, Listening, OneAtWork
  <2> QED
    BY <2>1, <2>2
<1>5. CASE LiveCoReview
  <2>1. /\ UNCHANGED <<run, toPrimary, toMentor, async>>
        /\ rev'.listening = rev.listening /\ rev'.mentorMode = rev.mentorMode
    BY <1>5, LiveIsQuiet
  <2> QED
    BY <2>1 DEF Followed, Heard, Listening, AtWork
<1>6. CASE UserAction
  <2>1. ~UserMessage /\ ~Pause /\ ~Resumed /\ ~Resume
    BY DEF UserMessage, Pause, Resumed, Resume, Lockstep, OneAtWork, TypeOK
  <2>2. CASE ResolveTieBreak
    <3>1. ~rev.listening
      BY <2>2 DEF ResolveTieBreak, Quiet
    <3>2. ~rev'.listening /\ ~async'.leaked
      BY <1>1, <2>2, <3>1 DEF ResolveTieBreak, MentorWins, PrimaryWins, InjectPrimary, RevType,
         OneAtWork
    <3> QED
      BY <3>2 DEF Followed, Heard, Listening
  <2>3. CASE Stop
    <3>1. ~rev'.listening /\ ~async'.leaked
      BY <1>1, <2>3 DEF Stop, Detached, OneAtWork, AsyncType
    <3> QED
      BY <3>1 DEF Followed, Heard, Listening
  <2>4. CASE Stopped
    <3>1. run'.status = "completed"
      BY <1>1, <2>4 DEF Stopped, RunType
    <3> QED
      BY <3>1 DEF Followed, Heard
  <2> QED
    BY <1>6, <2>1, <2>2, <2>3, <2>4 DEF UserAction
<1>7. CASE AnalystSnapshot
  BY <1>7 DEF AnalystSnapshot, Followed, Heard, Listening, AtWork
<1>8. CASE UNCHANGED vars
  BY <1>8 DEF vars, Followed, Heard, Listening, AtWork
<1> QED
  BY <1>2, <1>3, <1>4, <1>5, <1>6, <1>7, <1>8 DEF Next

\* A followed run never waits for an event that nobody will send.
THEOREM SomebodyWorks ==
  ASSUME Lockstep, TieBreakPolicy = "pause" PROVE Spec => []NeverIdle
<1>1. Init => Followed
  BY DEF Init, Detached, Followed, AtWork
<1>2. TypeOK /\ Quiet /\ OneAtWork /\ OneAtWork' /\ Followed /\ [Next]_vars => Followed'
  BY NextFollows
<1>3. TypeOK /\ Followed => NeverIdle
  <2> SUFFICES ASSUME TypeOK, Followed, Heard, toPrimary = 0, toMentor = <<>>, async.final = 0
               PROVE  FALSE
    BY WorkTypes DEF NeverIdle
  <2>1. AtWork = 0
    BY DEF AtWork
  <2> QED
    BY <2>1 DEF Followed
<1> QED
  BY <1>1, <1>2, <1>3, TypeCorrect, PausedIsQuiet, OneIsAtWork, PTL DEF Spec
============================================================================
