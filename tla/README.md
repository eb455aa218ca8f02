# Verification of CodeMantis

CodeMantis is a desktop application (Tauri: a Rust backend and a React
frontend) that runs coding agents, the Claude Code CLI and the Codex
app-server, as child processes and puts chats, approvals and automation around
them. This directory holds TLA+ models of the parts whose correctness depends
on the order of events, the TLC configurations that check them on small
instances, and proofs for instances of every size.

- [Components](#components): the inventory of the system
- [Modules](#modules): how each model corresponds to the code
- [Runs](#runs): what TLC checks, the bounds and the fairness
- [Theorems](#theorems): what is proved and along which argument
- [Disagreements](#disagreements-between-the-code-and-its-documentation): where
  the code does not do what its documentation says
- [Limits](#what-is-not-modelled)
- [Plan](#plan): what comes next

Paths are relative to the repository; `…/` is `src-tauri/src/`. To check:
`tlc -config DuoLockstep.cfg Duo.tla` and so on (the module of every run is in
`PROJECT.json`; SelfDrive, Approvals and CrashRecovery are run through their MC
modules), `tlapm DuoProofs.tla` and so on.

## Components

Two processes hold the state. The frontend is one JavaScript thread with about
twenty Zustand stores; a handler runs undisturbed up to its next `await`. The
backend is a multi-threaded Tokio program whose state is in mutexes
(`AppState`), each held for a step or two. They talk through commands
(frontend to backend, with a result) and events (backend to frontend, without).
Every agent is a further process that the backend reads line by line.

### Duo-Coding review loop (`src/stores/duoStore.ts`)

- State: the run in the store (status, phase, blocker, `repairAttempts`,
  `priorConcerns`, two flags, metrics) and the module-level variables of the
  scheduler (`mentorMode`, `opsSinceReview`, the timer, …).
- Operations: the turn of the primary (plan, reply or finished work goes to the
  mentor), the turn of the mentor (its verdict is executed: complete, pursue,
  tie-break), live reviews while the primary works, drift nudges, the budget
  stop, pause, resume, tie-break, stop.
- Interaction: `turn_complete` and tool events of two agent sessions come in,
  prompts go out; one SQLite row and a log are written on the side.
- Hard: two sessions end their turns in any order; three functions await a git
  diff and go on with what they read before; nothing marks which prompt a turn
  answers except one variable, `mentorMode`; the listeners come and go.
- Correct when: every finished turn is reviewed and only a review of finished
  work completes the run; the run never waits for a turn nobody will take; a
  run that waits for the user stays still; rounds and money are bounded.

### Duo-Coding life cycle (`duoStore.ts` start, reset, hydrateInterrupted; `…/commands/duo.rs`)

- State: the row of a run, its two sessions.
- Hard: start makes two sessions and a row one after the other and may fail in
  between; after a crash the run is rebuilt from the row and its audit.
- Correct when: no session is left without a run and no row says running
  without one.

### Approval server and modals (`…/agents/claude_code/approval_server.rs`, `src/hooks/useToolApprovalListener.ts`, `src/stores/activityStore.ts`, `src/components/modals`)

- State: the server's map `pending` of undecided requests; `session_modes`; the
  frontend's `approvalQueue`, `alwaysAllowedTools`, `sessionQuestions`, one
  `showQuestionModal` for all sessions, and what was typed in it.
- Operations: a hook asks; the server decides by tool and mode or emits an event
  and waits; the listener queues a prompt, opens the question modal, or answers
  by a rule; the user answers one prompt, all of them, or a question; a timer
  denies; `/clear` and close forget prompts.
- Hard: an event and four kinds of commands are on their way at once; answers
  come after the timer, after the session, or after the next question; the
  outermost of three nested timers runs the tool unapproved.
- Correct when: nothing runs that neither the mode nor the user allowed; every
  hook is answered; every waiting prompt can be reached; an answer goes to the
  question it was typed for.

### Session modes (`…/commands/session.rs`, `src/lib/event-handlers/activity.ts`)

The mode of a session is kept in the frontend, in `session_modes` and by the
CLI, and each may change first. Correct when they agree again after every
change.

### Codex adapter and Stop (`…/agents/codex/`, `src/hooks/useStopSession.ts`)

- State: a JSON-RPC client with its pending requests and reader; a handle per
  session with the current turn, plan mode and the channel to the process; the
  map `processes` of all sessions behind one mutex; in the chat the busy flag,
  the plan pill and where a stop is.
- Operations: send, interrupt, toggle plan mode, pause (kill) and resume (spawn
  again); a stop that escalates from an interrupt to a kill after four seconds or
  a second click; notifications of turns.
- Interaction: a command holds the mutex while it awaits the app-server. The
  reader completes requests in the order of the lines and gives each notification
  to a task of its own.
- Hard: the app-server wedges or exits with requests pending; the escalation
  races with the end of the turn and with the next message; an interrupt waits in
  line behind other commands; notifications take effect in any order.
- Correct when: a stop never hits a later turn and always ends; a busy flag says
  whether a turn runs; a message sent in plan mode goes out read-only.

### Self-Drive (`src/stores/selfDriveStore.ts`, `src/lib/self-drive-*.ts`)

- State: status, phase, the current session of the plan, counters of fixes,
  rechecks and low confidence, a blocker, the pinned project, session and guide,
  the listeners, the mode to give back, a persisted row; in the guide the state
  of each session, its checks and which prompts were sent.
- Operations: start, pause, resume, stop, reset, attach after a restart, the
  user's own ticking and finishing; a finished turn is judged by an orchestrating
  model, whose decision is executed: advance, verify, fix, build check, test,
  commit, recheck, pause, abort.
- Hard: the judgement, the parity gate and the requirements of a session are
  awaits during which the user pauses, resumes, stops, unticks or types; hardly
  any handler looks again at what it had read.
- Correct when: the sessions are done in order and each once, and only with all
  checks; a run that shows as running has something coming; counters bound the
  loops; a verdict is about the session it judged; the mode is given back.

### Crash recovery (`src/lib/crash-recovery.ts`, `src/hooks/useClaudeSession.ts`, `…/commands/session.rs`, `…/storage/database.rs`)

- State: a row per session (status, resume token, `was_open`) and its saved
  messages; in the backend the processes, the reported tokens and the flag of a
  reload; in the window the tabs and their messages.
- Operations: create, resume, close; saving transcripts; hydration at the start
  (list, restore as paused tabs, acknowledge, resume the active one), the
  re-attachment after the window was reloaded; the regular exit.
- Hard: creation, closing, acknowledging and exit are several writes each, with
  a crash possible between any two; a resumed session is a new row to which the
  messages move at the first save; the start and the user both resume.
- Correct when: what was saved of a resumable session is always on a tab, or in
  the Resume Session list, of the next start that settles.

### Others

Processes and stream parsing of Claude, the session store, the guide's plans,
SpecWriter, assistants, Preflight, Recall, preview and terminals, sleep and
wake, storage, project commands and the interface are listed in
`PROJECT.json` with the reason why they are not modelled: they translate text,
do input and output one call at a time, or repeat the state of a component
above.

## Modules

One action is one stretch of a program that no other can interrupt: an event
handler, a click, a timer callback, or the code between two awaits. A function
suspended at an await is a value of its own (`async` in Duo, `ipc` and `stage`
in Approvals), so that everything else may happen before it goes on.

### Duo

| variable | in the code |
|---|---|
| `run` | the store: `status`, `phase`, `blocker`, `repairAttempts`, `priorConcerns`, `awaitingReAsk`, `tieBreakApplied` |
| `rev` | the scheduler: `mentorMode` (`"free"` for null), `opsSinceReview`, `reviewTimer`, `pendingIncremental`, `finalReviewQueued`, `lastReviewedDiffHash`, `driftNudged`; `listening`: whether the listeners are attached; `cooling`: less than `minIntervalMs` since the last live review |
| `async` | how many calls of `triggerIncrementalReview`, `runFinalReview`, `resume` and the nudge are suspended, and where `stop` is; `leaked`: two resumes overlapped and left a set of listeners nobody can detach |
| `toPrimary`, `toMentor` | prompts the two CLIs have not answered |
| `tree` | version of the working tree, what the diff's hash tells apart |
| `cost` | `metrics.costUsd` in units, saturated at the cap |
| `user` | messages, pauses and turns heard twice so far, to bound them |

`PrimaryTurn` is the handler of the primary's `turn_complete` with its three
branches; `ReAsk`, `PlanVerdict`, `FinalVerdict`, `FinalUnclear` and
`IncrementalVerdict` are the mentor's, routed by `mentorMode` as
`onSessionEvent` does; `RunFinalReview`, `RunIncrementalReview` and `NudgeSent`
are what follows an await; `Edit`, `Checkpoint`, `TimerFires`, `Heartbeat` and
`IntervalElapses` drive live reviews; `AnalystSnapshot` is the `duo:snapshot`
listener, which adds the analyst's cost at any moment; `UserMessage`, `Pause`, `Resume`,
`Resumed`, `ResolveTieBreak`, `Stop` and `Stopped` are the user's. The helpers
take the store and the scheduler as their caller has left them, because in the
code they read what it has just set.

A turn of an agent answers one or more of the prompts it holds, oldest first:
the CLI may merge prompts that came while it was busy. It answers none when
leaked listeners hear the event of a turn once more. A `getGitDiff` may also fail:
the final review then goes out without a diff, a live one is skipped. What the mentor says is
one of the five kinds of answers that the parser and `isBlockingVerdict` tell
apart, and a concern is the normalized text that the repetition check compares.
The drift analysis, the prices and the texts of the prompts are left out: an
edit may or may not be severe drift, a turn may or may not cost, the analyst may
have spent something at any moment.

### ApprovalTimers

The clock counts seconds since the CLI started the hook. `Lag` bounds how late
each step is taken; `stalls` says of each request whether the server may hang on
it, when nothing but curl's own timer is left. The three timeouts are as in
`process.rs`: each is the one inside it plus a margin.

### Approvals

| variable | in the code |
|---|---|
| `stage` | where `handle_tool_approval` is with each call |
| `pending`, `mode` | the server's `pending`, `session_modes` |
| `events` | `tool-approval-request` events under way |
| `queue`, `rules`, `question`, `order` | `approvalQueue`, `alwaysAllowedTools`, `sessionQuestions` and the insertion order of that map |
| `modal` | `showQuestionModal` and the parts typed so far, each with the question that was on display |
| `ipc` | commands under way or answered, by their origin |
| `batch` | the rest of the snapshot Approve all works through |
| `life` | whether a session is being cleared or closed |
| `answers`, `granted`, `permitted` | history: what was told to a CLI, what the user approved, what the mode let pass |

`granted` and `permitted` are written where the decision is taken (the click,
the rule, the mode) and never read by an action; the properties compare them
with what the server does later. Tools are the six kinds the server tells apart.
`CallTool`, `DropCalls` and `Interrupt` stand for the CLI: a hook asks, one
question at a time, and its connection closes when the CLI gives up.
`MCApprovals` only adds the symmetry of calls that differ in nothing.

### PlanRun and SelfDrive

`PlanRun` is the abstract specification: a run that is idle, running, paused or
completed over a plan whose sessions are finished in their order, each once;
complete only when all are. `SelfDrive` implements it with the same two
variables, `run` and `plan` (`Implements`).

| variable | in the code |
|---|---|
| `run`, `phase`, `cur` | `status`, `currentPhase`, `currentSessionIndex` |
| `pinned` | `projectPath`, `sessionId` and `guide` are set |
| `attach` | `needsSessionAttach` (`"lost"`), `postRestartFreshResumeNeeded` (`"fresh"`) |
| `blocker` | `activeBlocker`, its status and session |
| `fixes`, `rounds`, `unsure`, `injected` | `fixAttempt`, `recheckRoundsUsed`, `lowConfidenceCount`, `lastSelfDrivePromptInjection` |
| `plan`, `sent`, `asked`, `ticked` | the guide: status of the sessions, `promptSent`, `verifyRequested`, the ticked checks |
| `listening`, `mode` | `chatEventUnlisten`; the session's mode and `previousSessionMode` |
| `row` | the row in the database |
| `queue` | messages the agent has yet to answer |
| `tasks` | the handlers that are suspended: where, for which session, and what they have read |

Each operator named after a handler (`HandleAdvance`, `Repair`, `HandleRecheck`,
`HandleAbort`, …) is what that handler does; `Evaluated` executes one of them
when the orchestrator has answered. `ParityReturns`, `GateReturns`, `Begun`,
`Listens`, `Resumed`, `Stopped`, `WasReset` are the rest of a handler after an
await. What the orchestrator decides, how its verdict fits the checks, and what
the gates find is any value.

`Acts` says what else happens: pause, stop, tick, complete (the user's own
button), type, reset, restart of the program, exit of the agent at any moment, and
`"unsynced"`: a call that switches the session's mode fails, which every caller
ignores. Two more of its members lift a restriction on the user: without `"overlap"` the user clicks
(start, resume, stop, …) only when no handler is suspended, and without
`"preflight"` nothing at all happens between a click on Start and the end of
its preflight. Pausing, typing, ticking and finishing are not restricted so.
With them the code does what it should not, see
[Disagreements](#disagreements-between-the-code-and-its-documentation).

### Codex

| variable | in the code |
|---|---|
| `ui` | `sessionBusy`, the plan pill, the state of `useStopSession`; `lost`: the process was replaced since the pill was set; `erred` (a history value): an error was reported in the session |
| `forces` | the calls of `forceStop` that are suspended |
| `queue` | the line at the mutex `processes`, first come, first served; its head holds it |
| `handle` | `CodexProcessHandle`: in the map or not, writer channel, request ids, current turn, `plan_mode`, `native_plan_mode` |
| `server` | the app-server: requests it owes an answer, turns, the lines it wrote that are not read, notifications whose task has not run |
| `sends`, `clicks` | what the user did, bounded |

`upto` in an order is a history value: the last message the user had sent when
the click was made. An interrupt or a kill is compared with it. `Faults` says
what may go wrong with an app-server: it wedges or exits in the middle of a
turn, refuses requests, reports an error, or cannot be spawned again; `"anytime"`
lets it wedge or exit also while another request is unanswered, while it is idle, or
before the chat has heard of an error.

`Errs` is what becomes a `ProcessError` in the chat (`translation.rs:100`, `:757`,
`:1048`): an `error` notification, which names a turn and may announce that Codex
tries again by itself, and a compaction that failed. The turn may go on, end or be
stopped afterwards; `handleProcessError` clears the busy flag in each case
(`process.ts:83`). Errors of the sandbox, the context window and the usage limit are
mapped to something else and change no state here. `Acts` has `"plan"` for the toggle and
`"hasty"` for a user who sends while a forced stop is still going on.

### CrashRecovery

| variable | in the code |
|---|---|
| `db` | per session the row (`status`, whether `cli_session_id` is set, `was_open`) and its `session_messages` |
| `app` | how far `ExitRequested` has come |
| `procs`, `ids`, `wake` | `AppState.processes`, `cli_session_ids`, `wake_recovery_reload` |
| `calls`, `acks` | `create_session` and `close_session` between two of their writes; what `acknowledge_crashed_sessions` has still to do |
| `tabs` | the tabs: paused after a crash, live, reattached; and the messages in each |
| `boot` | `hydratePersistedOpenSessions`, `handleWakeRecoveryBoot` |
| `jobs` | what the user has under way, and what the start has for the active tab |
| `sent` | messages written so far |

Every write of a row is a step of its own (`Insert`, `Flag`, `Token`,
`CloseDetails`, `Unflag`, `Acknowledge`, `PromoteAll`, `ClearAll`). `Restart`
ends the program at any point and starts it again, without a bound on how often;
`Reload` replaces the window under a living backend. A message is inserted or
replaced by its own id, so that saving it under another session moves it
(`Saved`). The order of the tabs and which was active are any. `Faults` has
`"spawn"`, and `"list"` and `"ack"` for commands that fail; `Acts` has three
things the code does not survive: `"dismiss"` closes a paused tab, `"early"` a
resumed session whose CLI has not reported, `"idle"` reloads a window with a
session nothing was saved of.

## Runs

| run | checks | shows |
|---|---|---|
| `duo_lockstep` | `TypeOK`, `NeverIdle`, `MentorTurnsRouted`, `CompletedByFinalReview`, `RunEnds` | The loop of the two agents alone, with plan gate and budget: each prompt is answered as what it was asked for, only a final review completes the run, and every run comes to a decision. |
| `duo_live` | `BoundedRounds`, `EditsGetReviewed`, `QueuedReviewIsTaken`, `WindsDownOverBudget` | Live review, drift nudges, mentor-wins tie-breaks and a cap that turns or the analyst exhaust at any moment: no edit and no queued turn stays behind without a review on its way, and over the cap nothing new is begun. |
| `duo_user` | `BlockedRunIsStill`, `BoundedRounds`, `BudgetStopIsFinal` | Pause, resume (twice over), tie-break, stop and messages of the user at any moment. |
| `timers` | `NeverFailsOpen`, `ReasonedDecision` | The order of the three timers holds however late each step is, a server that hangs included. |
| `approvals_cards` | `PromptReachable`, `OnlyGrantedRun` | Two sessions, one of them cleared, closed or interrupted, and Approve all while prompts arrive, are answered one by one and time out: no prompt of the other session is lost, nothing runs unapproved. |
| `approvals_modes` | `TypeOK`, `OnlyGrantedRun`, `EveryCallAnswered` | All tools and modes, a SpecWriter session, questions of two parts; with a user who may do nothing at all, every hook is answered. |
| `selfdrive_plan` | `TypeOK`, `RunningIsAlive`, `DoneIsChecked`, `Implements` | A plan of two sessions under everything the user does between handlers, aborts, a stop, a reset and restarts. |
| `selfdrive_turns` | `ModeRestored`, `KeepsJudging` | All decisions but abort, two checks, two fixes, two rechecks: the mode is given back, and a run that stays running is judged again and again. |
| `selfdrive_stale` | `VerdictsStayPut` (violated) | A disagreement, see below. |
| `codex_stop` | `TypeOK`, `BusyTells`, `InterruptsAreAimed`, `KillsAreAimed`, `PlanIsKept`, `StopUnsticks` | A session under stop, forced stop, plan mode and an app-server that wedges, exits, refuses, reports an error or cannot be spawned again. |
| `crash_recovery` | `TypeOK`, `SavedIsFindable`, `AllIsShown`, `LiveIsFlagged`, `NothingIsLost` | Crashes, exits and reloads between any two writes of sessions that are created, used, resumed and closed. |
| `crash_dismissed` | `NothingIsLost` (violated) | A disagreement, see below. |

Deadlock is checked in `timers` and in the runs of CrashRecovery, which never
stop (the program can always be started again). It is not checked in the others:
a run that is complete or stopped, a session whose calls are answered, and a user
who has spent the clicks of the instance really have nothing left to do.

Bounds of Duo. `MaxDialogueRounds` is 1 or 2: reaching the last round, one less
and one more are all there. `MaxAttempts` is one more than that, as after a
tie-break for the mentor the code counts without end. Two concerns are enough
for a repeated and a new one. A turn costs
0 or 1, so a `BudgetCap` of 4, 2 or 1 is reached by turns of either agent or by
the analyst, early, late or never. `MaxResumes` 2 lets two resumes overlap, and
`MaxRepeats` 1 lets the listeners they leak hear one turn again. `MaxEdits` 2 with `OpThreshold` 2
gives an edit below and one at the threshold, and an edit during a review. One
fetch of each kind may be suspended; a second of one kind needs a second turn
meanwhile and does the same.

Bounds of Approvals. Two calls make every pair race. `Parts` 2 lets a
question change between two parts. `Ending` limits the sessions whose life ends
to one, so that the other shows what it must not lose. Calls that differ in
their serial only are symmetric; the run with a liveness property uses no
symmetry. `approvals_modes` ends no session and `approvals_cards` has one kind
of tool: the two dimensions are checked apart.

Bounds of ApprovalTimers. Decision timeout 8, margins 7 and 5 and a lag of 2
stand for the 300, 20 and 40 seconds of the code; the margins are the smallest
that lag allows, and the theorems cover all others.

Bounds of SelfDrive. `selfdrive_plan`: two sessions (a first and a last), one
check, one fix, no recheck, two suspended handlers (`Slots`) and one unanswered
message; the decisions are advance and abort, which alone move the plan.
`selfdrive_turns`: two checks, two fixes, two rechecks and two unsure decisions,
so that each counter is below, at and reset from its ceiling; one handler at a
time, all decisions but abort, the user pauses, resumes and stops, and calls that
switch the mode succeed (no `"unsynced"`). The first has 2.7 million states, the
second half a million. Slots are
symmetric where nothing is assumed fair.

Bounds of Codex. One session, two messages and two clicks: a stop and its
escalation by hand, two stops (which the timer escalates), a stop and a plan toggle or
two toggles, with a message before and one after; 616,000 states. With three clicks it
has 2.5 million and passes as well, in more time than a run should take. One delta
stands for all of a turn, and a session reports one error, as `erred` stays. The
safety properties are also theorems for any number of sessions, which share only
the line at the mutex, and of messages and clicks. `StopUnsticks` excludes
`"anytime"`: an app-server fails while nothing but interrupts wait for its answer.

Bounds of CrashRecovery. Three ids (a session, the one it is resumed as, and one
more), two messages, a bar of two tabs, so that resuming meets a full bar and one
with room; crashes, exits and reloads are not bounded. A million states. Without `"idle"`
no window is reloaded with a session nothing was saved of, so that the cleanup of
placeholders (`session.rs:1103`) never meets a session in use.

Fairness. `Duo!FairSpec` assumes that an agent holding a prompt ends a turn and
that a git diff returns, nothing of timers and nothing of the user: `RunEnds`
holds because the handlers prompt the next agent themselves. Without the first
assumption the code has no answer of its own (a listed hazard). `Approvals!FairSpec`
assumes that the runtime polls a ready task and a timer that is due, and that an
event reaches the listener. Commands, clicks and the CLI are not fair:
`EveryCallAnswered` rests on the timer alone. Calls are finitely many in an
instance, so fairness to each step of the handlers is fairness to each handler.
`SelfDrive!Fairness` assumes that what a handler awaits returns (each await has a
timeout or an error path) and that the agent ends the turns it was given; nothing
of the user. `Codex!Fairness` assumes the timers, the commands at the head of the
line, the forced stop, the reader, the tasks of notifications, and the answers of
an app-server that works; not that a turn ends, and nothing of a server that has
wedged. `CrashRecovery` has no liveness property: `AllIsShown` says of a start
that has settled what it shows.

## Theorems

All are for every value of the constants under the assumptions named in the modules:
`ConstantsAssumption` and `BoundsAssumption` of Duo, `ApprovalsAssumption`,
`SelfDriveAssumption`, `CodexAssumption` and `RecoveryAssumption` (the types of the
configuration and of the bounds), and `TimersAssumption`, which asks that the margin
of curl exceeds three lags and that of the CLI two.

- **DuoProofs** `TypeCorrect`: one lemma per helper, then one step per action.
  `PausedIsQuiet`: every action that pauses the run detaches its listeners, and only
  the end of a resume attaches any. `BlockedStaysStill` and `BudgetStop` (action
  properties) follow: what leaked listeners hear changes nothing of a paused run, and
  a resume is refused while there is a blocker; left are the decision, Stop, and a
  resume that was clicked before the blocker, which the first excludes by its
  premise and the second names. `BoundedRoundsInvariant`:
  both handlers compare before they count, so the counter can only pass the limit
  behind a tie-break. `EditsAreCovered`: the property says nothing of edits counted
  while nobody listens; `Covered` adds that there are none, as live review alone
  counts them and detaching forgets them. Assumption: `TieBreakPolicy` is not
  `"primaryWins"`, which frees the mentor and arms no timer. `QueuedIsTaken`: the
  queue is filled when the mentor is not free, so each path that frees it must take
  from the queue, prompt the primary or leave the run; `Taken` adds the states
  nobody follows. It assumes the same of the policy, and `MaxResumes <= 1`: a second
  resume detaches in the middle of a followed run and forgets the mentor's mode, not
  what the first run's leaked listeners queue afterwards. `WindsDown` (an action
  property) has no assumption: each step is looked at for what it adds to the
  mentor's prompts and to the functions that will prompt it; at the cap the
  primary's turn pauses, live reviews are refused, and the rest answer at least as
  many prompts as they send. Four theorems are about
  the loop by itself, under the named assumption `Lockstep`: no live review, no
  drift nudge, no message of the user and no pause, with any rounds, repairs,
  budget, gate and tie-break. `OneIsAtWork` is their invariant: at most one of the
  primary, the mentor and `getGitDiff` has something to do, and what the mentor was
  asked is what `mentorMode` says. `MentorIsRouted` and `FinalReviewCompletes` follow
  from it. `SomebodyWorks` needs exactly one at work, and `Followed` adds what makes
  it inductive: when the primary ends its work the mentor is free, so that the final
  review is not put into a queue nobody empties. It also needs `TieBreakPolicy =
  "pause"`; the other two policies leave a followed run with nobody at work. Each
  part of `Lockstep` is needed by one of the four; the next section has
  counterexamples.
- **ApprovalTimersProofs** `FailsClosed`, `DecisionReachesTheCli`: `TimersInv`
  bounds the age of each state: curl starts within a lag, ends within its timeout
  and a lag, and a server that does not stall reaches each of its states by a sum of
  lags; three of them fit in curl's margin, two in the CLI's.
- **ApprovalsProofs** `TypeCorrect`: the question on display is the least index of
  the order with a question, whose existence needs the well-foundedness of the
  naturals. `NothingRunsUnapproved`: `GrantInvariant` adds to the property that
  every command which approves, on its way or answered, and every prompt left in the
  snapshot of Approve all is of a call the user approved. The snapshot is what makes
  it inductive: were the loop to read the live queue, a prompt that arrived after
  the click would be approved by it. `CardsAreReachable` follows a call from the
  event to the queue and to the command: as long as its hook waits the server holds
  its sender, and while its session lives it is in an event, in the queue or in a
  command not yet done. `ReachInvariant` adds that what the frontend holds, the
  snapshot of Approve all included, is of calls the server has handled (`Handled`) -
  a command for one it has yet to see would return without a decision - and that a
  click's command which is done has decided its call (`Decided`). It needs no
  assumption. For questions the modal carries the call, from where a submission can
  erase it, so the property of the runs, `PromptReachable`, is its corollary
  `PromptsAreReachable` for instances without questions.
- **SelfDriveProofs** `TypeCorrect`: the counters stay within the settings' budgets.
  The types alone are not inductive: `Fit` adds that a suspended handler which will
  work on a session names one of the plan.
- **SelfDrivePlanProofs** `ImplementsPlan`: each step of `SelfDrive` is a step of
  `PlanRun` or leaves its variables alone. What carries it is `InOrder`: the
  sessions before one are done, it is active and those after it are pending
  (`Ordered`); neither the current session nor one at the parity gate is pending;
  and nothing has changed since a start that waits for its preflight has read the
  guide (`ReadIsCurrent`). `SessionsDoneAreChecked` uses the same invariant.
  Assumption: `"preflight"` not in `Acts`; with it the statements are false.
- **SelfDriveAliveProofs** `RunningStaysAlive`: `Live` adds four parts. A starting
  handler is alone (`StartIsAlone`), one that is ending the run is still
  (`EndingIsStill`), a run whose listeners are off has a handler that attaches them
  (`HeardAgain`), and a running one has a prompt that will be answered or a handler
  that goes on (`Coming`). Assumptions: neither `"overlap"` nor `"preflight"` in
  `Acts`.
- **CodexProofs** `TypeCorrect`; `StopsHitTheirTurn`, for any number of sessions and
  even the hasty user: the invariant `Aim` orders the line at the mutex by age. A
  message sent after the click stands behind the interrupt (`Lined`), what has left
  the line is older than what is in it (`Below`), and no turn is known that was not
  sent (`Sent`). It rests on the lock being fair, which Tokio's is, and on the
  commands reaching it in the order of their calls. The other three
  assume that nobody sends while a forced stop is under way (`"hasty"` not in
  `Acts`), and nothing of failures. With it `BusyTells` and `PlanIsKept` are false; of
  `KillsAreAimed` TLC finds no counterexample up to three messages and two clicks.
  `KillsHitTheirTurn`: a stop that may still escalate, and every forced one, is meant
  for the last message (`Current`). `TurnsAreShown`: notifications are handled in any order, so what
  keeps the end of one turn from hiding the next is that a session with a process
  has at most one turn anywhere between the click and the task that handles its end,
  and is busy for that long (`Alone`, `Single`). An error ends that for its session,
  where the chat is then free with the turn still there; the theorem says so, and
  that the other sessions lose nothing by it (`Heard`). `Tells` adds what the forced stop
  needs: the pauses in the line are of forced stops of their own (`Paired`), what
  was sent before a forced stop stands before its pause in the line (`Ahead`), and
  when one has taken the handle nothing of it is left there (`Cleared`).
  `PlanModeIsKept`: the chat, the handle and the app-server agree on plan mode but
  for a command between them. `Asks` says what is true of a request and its answer:
  each has an identity of its own (`Ids`), whoever asked has the lock until then
  (`OnlyHead`, `Asked`), and native plan mode is on in the app-server or just being
  set (`Native`). `Wish` says of the line that a plan command in it carries what the
  banner shows, and that a message goes out as it was shown: with what the handle has
  now, if the plan command stands behind it (the chat may be set free by an error
  while a message waits), and else with what the banner shows. `Chosen` adds that no
  message which was shown as read-only waits when the process is replaced.
- **CrashRecoveryProofs** `TypeCorrect`; `SavedStaysFindable`; `LiveStaysFlagged`;
  `NothingSavedIsLost`. The effect of each step is a lemma of its own, in terms of
  rows, and four invariants rest on it. `Steady`: what runs, is in a tab, marked for
  the start or being closed has a row, and a session that is being created has one
  call and nothing else. `Keeping`: what is saved is flagged or closed, closed
  already when the exit clears the flags; so is whatever could be saved next (what
  runs, is in a tab or is being spawned), as its flag is written before its CLI
  runs. It needs that no window is reloaded with a session nothing was saved of
  (`"idle"`). `Flagging`: the session that a job waits for is nobody else's, so that
  no acknowledgement and no closing reaches it before its tab is live, and
  afterwards only the user's own closing does. It needs no assumption. `Holding` is
  what keeps messages resumable while they move from row to row: `close_session`
  knows the id whenever the row has one (`Ends`, `Knows`), both ends of a resumption
  have one (`Bound`), a tab in use shows all that is saved of it, so that saving
  erases nothing (`Covers`), and the messages of a session without an id are nobody
  else's, so that saving them takes them from no row (`Own`). It needs that neither
  a recovered tab (`"dismiss"`) nor a resumed session that has not reported
  (`"early"`) is closed; with `"dismiss"` the property is false, see
  `crash_dismissed`. `SettledIsShown`: `Showing` says what each of a start's steps
  has shown by the time it is over: a flagged row with something to show is in a tab
  with its CLI, or somebody still has to restore it, to acknowledge it or to close
  it (`Shown`, `Restores`), a resumption takes its tab away only for another
  (`Replaces`), and a start that is not a reload finds nothing running (`Asleep`).
  It assumes that the two calls of the start itself do not fail (`"list"`, `"ack"`
  not in `Faults`), whatever else does: with them the property is false, see the
  next section.

Every invariant and every safety property of a passing run but one is stated by one of
these theorems. `ModeRestored` is only model-checked: the code forgets the mode to give
back on so many paths (next section) that a theorem would have to assume most of them
away. Only model-checked are also the liveness properties `RunEnds` of Duo,
`EveryCallAnswered` of Approvals, `KeepsJudging` of SelfDrive and `StopUnsticks` of
Codex: they rest on fairness, thus on ENABLED, which is out of the prover's reach.
What the theorems with an assumption leave out TLC has looked at: where a property
fails without its assumption the next section says how.

## Disagreements between the code and its documentation

With a run that shows them:

- `selfdrive_stale` (`VerdictsStayPut`): a handler that comes back from the
  orchestrator looks only whether the run is running
  (`selfDriveStore.ts:1610`). After pause and resume it is, and the verdict about
  the earlier turn is executed on what the run is doing now, other than the
  comment above the check says.
- `crash_dismissed` (`NothingIsLost`): `close_session` looks the resume token up in
  memory (`session.rs:841`), where a session recovered from a crash has none, and
  writes NULL over the one in its row (`database.rs:707`). A recovered tab that is
  closed without resuming is in no list afterwards; the comment at
  `session.rs:1152` says it can be found later.

The others were found with the same modules and have no run of their own; each
says how to get its counterexample.

Duo:

- `RunningIsHeard` (defined in `Duo.tla`): the tie-break by the user sets a run
  running whose listeners the deadlock has detached; nothing attaches them
  again. `MaxDialogueRounds = 1`, policy `"pause"`, plan gate, one concern.
- A finished turn that waits for its final review can be forgotten by a run that
  completes or replies instead: with `DriftNudge = TRUE` the nudge gives the
  primary a second turn, which ends while the mentor judges the first. Its review
  is queued, and only the end of a live review takes from the queue
  (`duoStore.ts:1257`), not the approval of the first turn. State
  `run.status = "completed" => ~rev.finalReviewQueued` to see it. A message of the
  user does the same (`MaxUserMessages = 1`, `MaxFetches = 2`, no plan gate), and
  with it `MentorTurnsRouted` fails too. `QueuedReviewIsTaken` is what remains: it
  is never lost while the run goes on with the mentor free.
- `resume` looks for no other one under way (`duoStore.ts:641`), and the button
  stays while the first awaits its listeners (`DuoWorkspace.tsx:160`). A second click
  whose resume ends after a turn has blocked the run sets it running with the
  blocker, and one that ends after a budget stop ends that. State
  `run.blocker # "none" => run.status # "running"` with `MaxResumes = 2`; the
  properties of `duo_user` name the case. The first set of listeners leaks, so that
  each event is heard twice afterwards; `QueuedReviewIsTaken` and
  `WindsDownOverBudget` exclude it. The model attaches a set in one step, where the code
  awaits four `listen` calls.
- `CompletedByFinalReview` fails with `PlanGate = TRUE` and a pause: resume
  resets `mentorMode` (`duoStore.ts:854`), and the approval of the plan, which
  arrives later, completes the run.
- A tie-break for the primary prompts nobody, so `NeverIdle` fails under
  `TieBreakPolicy = "primaryWins"` (`duoStore.ts:623`), and `EditsGetReviewed`
  with it. It also fails with pauses, with live review, and under
  `"mentorWins"` after an answer that stayed unclear: the mentor is then never
  free again, so that the final review of the next turn is queued and nobody
  takes it from the queue.
- A live review and a final review that overlap share `mentorMode`
  (`duoStore.ts:986`), so `MentorTurnsRouted` fails with live review.
- After a tie-break for the mentor the rounds are unbounded (`duoStore.ts:1355`).
- The budget is looked at when the primary's turn ends, not when the mentor's
  turn or the analyst reaches the cap (`duoStore.ts:1034`, `:427`); the guide (line
  4601) does not tell these apart. A final review whose diff is awaited, the second
  request for an unparsable answer and a nudge under way therefore go out over the
  cap, and the primary then works one turn more. `WindsDownOverBudget` says that
  this is all.
- A turn of the primary that ends while the run is paused is not reviewed after
  resume (`duoStore.ts:636`, guide line 3186).

Approvals:

- `AnswersBelong` (defined in `Approvals.tla`) fails with two questions of two
  parts in one session: a question times out after its first part was answered,
  and the next question is sent the first part of the old one.
- `PromptReachable` fails with `Tools = {"question"}`: a question that arrives
  while the answer to the previous one is being submitted is erased when the
  submission returns (`QuestionModal.tsx:355`).
- Answering a question closes the modal over another session's pending one
  (`QuestionModal.tsx:356`, guide line 1071).
- A prompt whose request has timed out stays in the queue
  (`approval_server.rs:568`, guide line 1081).
- Questions open their modal in Auto-Accept mode also, other than the guide says
  (line 1076).

Codex:

- `StopUnsticks` fails with `Faults` that contain `"anytime"`, two sessions, one
  message and two clicks: a command that waits for an answer of the app-server
  holds the mutex of all sessions, so the kill of a forced stop, of whatever
  session, stands in line behind it for ever. `spawn.rs:1058` and
  `useStopSession.ts:40` say the stop always gets through.
- `BusyTells` fails with `Acts = {"hasty"}`: a message sent while a forced stop is
  suspended goes to the new process, and the end of the stop clears the busy flag
  of its turn (`useStopSession.ts:105`). The comment at `useStopSession.ts:60` has a
  stop touch no session that was already restarted. `PlanIsKept` fails with `{"plan",
  "hasty"}`; `InterruptsAreAimed` holds even then.
- An `error` notification sets the chat free (`process.ts:83`) whether or not the
  turn goes on: `map_error` does not look at `willRetry` (`translation.rs:1048`). Stop
  is gone while the turn runs, until its next delta; `BusyTells` without
  `ui[s].erred` shows it, with `"error"` in `Faults` and one message. The comment
  below that line speaks of "a terminal error", but nothing ends the turn.
- A process that is spawned again has lost its plan mode (`spawn.rs:948`) while
  the banner still says that Codex is read-only; `PlanIsKept` leaves this case
  out (`lost`).
- A session whose app-server has died still counts as running, and a send that
  fails leaves the chat busy until the user stops it.
- The `finally` of a forced stop deletes whatever entry is there, also one of a
  later stop; two forced stops can insert two processes.

Self-Drive:

- `Implements` fails with `Acts` that contain `"preflight"`: Start can be clicked
  twice, and the guide was captured before the preflight's awaits.
  `RunningIsAlive` fails with `"overlap"`: the second reset of stop
  (`selfDriveStore.ts:736`) hits a run started meanwhile, and a pause that a
  handler does after a stop (`:1563` and others) leaves a paused run without a
  project.
- `ModeRestored` fails with abort: it forgets the mode to give back, and a later
  resume and stop says "Mode restored." (`:749`) while the session stays in
  auto-accept. So it does with `"reset"` (`:785`) and, for a plan of two sessions,
  with `"complete"` (`:814`): the session is left in auto-accept, which the next start takes
  for the user's mode. With `"unsynced"` a call that fails is swallowed
  (`:3204`), the mode forgotten and "Mode restored." said all the same. And it does
  with two slots: a handler that goes on while the finished run gives the mode back
  makes it a paused one, and resume knows of no mode.
- `promptSent` and `verifyRequested` are set though the send failed, and prompts
  go out after the gates' awaits though the run was paused meanwhile.
- A second evaluation of the same turn judges the next session when the first
  advanced.
- The count of unsure decisions is not reset on resume; resume has branches for
  a blocker that is never set; the guide and the row are written by unordered
  asynchronous calls.
- Comments that say otherwise than the code: "recovering" in `handleFix` (the
  phase is "evaluating"), the snapshot before an advance (about `:2245`), "Same
  item cannot be rechecked twice" in the types (the cap is two), "Resume picks up
  at the next session" in `GuidePanel` (the run is idle then).

Crash recovery:

- `NothingIsLost` fails with `Acts = {"early"}`: a session resumed from the list
  and closed before its CLI has reported loses its token in the same way.
- `SavedIsFindable` fails with `Acts = {"idle"}`: a reload clears the flag of a
  session nothing was saved of, and what it writes later is in a row that is
  neither flagged nor closed, other than `database.rs` promises (about `:829`).
- `AllIsShown` fails with `Faults = {"list"}`: when the hydration fails the
  sessions are in no list, as they were not closed, though the toast sends the
  user there; and with `{"ack"}` and a full bar, or a resume that fails.
- Sessions reattached after a reload are acknowledged like the others, so that a
  crash afterwards does not bring their tabs back (`crash-recovery.ts:253`).
- The exit saves no transcripts, other than `useCrashRecoverySnapshot.ts` says;
  nobody calls what `mark_session_closed_if_stale` says its caller does; the
  start and a fast user can resume the same session twice; restored tabs ignore
  the limit of tabs.

## What is not modelled

In Duo: `start`, `reset` and recovery; prompts that fail to be sent; the end of
an agent's process;
the
content of prompts, verdicts and the audit. In Approvals: Codex requests, the
preview's callbacks on the same server, the index of the prompt on display (the
user can move to every prompt, so the queue is a set), the activity feed, a
second click on a button whose command is under way, the growth of `pending` by
abandoned requests (their entries are inert), and the creation of sessions. In
ApprovalTimers: everything but time.

In SelfDrive: the texts of prompts and of the supervisor's feed, what a gate
looks at (its result is any), the debounced saving of the row as a step of its
own (it is written with what it saves), a crash between the two halves of a
stop, prompts that fail to be sent. In Codex: sending while the session is busy,
the reset to a fresh thread, approvals, models and efforts, retries, the timer that
sends the last message again after a dropped compaction (`process.ts:58`, 3, 8 and 15
seconds) and the watcher of compactions that stall; a spawn
that succeeds hands over an app-server that works, and commands reach the lock in
the order in which the window calls them, which nothing in the code enforces for two
calls within microseconds. In CrashRecovery: the Resume Session list has
room for every closed session (the window asks for 20, `ProjectPicker.tsx:75`,
`database.rs:841`; and a project's own history ends at 20 too); the user acts
only when the list was read, and on tabs whose messages were loaded; a save is
atomic at its call; the loading of messages is one step with the tab it is for;
the snapshot's order, the status "connected", the pause of a CLI and its own
exit, the process tracker, and resuming as a fresh thread are left out, and
session logs are on (without them nothing is saved).

Hazards that `PROJECT.json` does not list for its length, none with a property:
an approval server that cannot bind (`approval_server.rs:188`); sessions that
`reset` and `start` of Duo leave behind (`duoStore.ts:712`), prompts whose send
fails (`:770`), the endless tie-break (`:1355`); a
hook's connection that closes (`approval_server.rs:543`) and a prompt that
outlives its request (`:568`); a process that ends between check and use
(`process.rs:505`); late pauses and the restored row of Self-Drive
(`selfDriveStore.ts:391`, `:1563`, `:3470`); a snapshot remembered as saved
before it is (`useCrashRecoverySnapshot.ts:90`).

The rest of the program, by far its largest part by lines, is prompts of SpecWriter and
the assistants, rendering, settings, translation between formats and one-call
input and output; its behaviour is in its data, which a model of states does
not reach. Whole components are listed in `PROJECT.json` with their reasons.

## Plan

In this order:

1. `SessionModes`: the three copies of a mode, with the approval server's part
   taken from Approvals, and the plan mode of Codex taken from Codex. Property:
   they agree when nothing is under way.
2. `DuoLifecycle`: start, reset and recovery around an abstract `Duo` (running,
   paused, completed), which Duo is shown to implement. Crashes between steps,
   with the rows as in CrashRecovery.
3. The stop of a Claude session with its watchdog, beside the one of Codex; the
   process tracker that reaps what a crash has left.
4. Approvals of Codex on the line at the mutex, and the reset to a fresh thread.
5. Theorems: a form of `PromptReachable` for questions that cannot overtake a
   submission, and of the theorems under `Lockstep` for runs that are
   paused, which fail today only in what a paused run forgets.

Runs are few on purpose. As modules are added the two runs of disagreements give
way first: what they show is in this file.
