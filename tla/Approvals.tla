------------------------------ MODULE Approvals ------------------------------
(***************************************************************************)
(* Tool approvals of Claude sessions, from the PreToolUse hook to the      *)
(* answer: the approval server (agents/claude_code/approval_server.rs),    *)
(* the listener, the queue and the two modals of the frontend, and the     *)
(* commands between them (resolve_tool_approval, submit_question_answer).  *)
(*                                                                         *)
(* One action is one stretch of a task without an await.  The request id   *)
(* of a call is the call itself: the server draws a fresh one for each, so *)
(* the queue's approvalSeenIds never filters any.  The modal can navigate  *)
(* to every prompt of its queue, so the queue is a set here.               *)
(***************************************************************************)
EXTENDS Integers, Sequences, FiniteSets, SequencesExt

CONSTANTS
  Sessions,    \* Claude sessions of the app
  SpecWriters, \* those of SpecWriter: in session_modes, not in sessions
  Tools,       \* kinds of tools the CLI calls, see below
  Serials,     \* tells apart calls of one session and one tool
  Modes,       \* modes the user chooses from, see below
  Parts,       \* questions asked by one AskUserQuestion
  NoQuestion,  \* a session without a pending question
  \* Bounds on the environment.
  Ending,      \* sessions that are interrupted, cleared or closed
  MaxCalls     \* tool calls made

\* "read" is any of AUTO_APPROVED_TOOLS, "write" any of PLAN_MODE_ALLOWED_TOOLS,
\* "question" is AskUserQuestion, "enter" and "exit" are Enter- and ExitPlanMode,
\* "bash" is any other tool.
ToolKinds == {"read", "write", "bash", "question", "enter", "exit"}

\* "accept" also stands for DontAsk and BypassPermissions, "normal" for Auto and
\* for a session without an entry.
SessionMode == {"normal", "accept", "plan"}

ASSUME ApprovalsAssumption ==
  /\ SpecWriters \subseteq Sessions /\ Ending \subseteq Sessions /\ Tools \subseteq ToolKinds
  /\ Modes \subseteq SessionMode /\ Parts \in Nat \ {0} /\ MaxCalls \in Nat

Calls == [session : Sessions, tool : Tools, serial : Serials]

\* "sent": the hook's request is on its way.  "waiting": handle_tool_approval
\* awaits the decision.  "elapsed": its timer fired, and the entry of pending is
\* still there.  "dropped": the CLI gave the call up and its connection closed.
Stages == {"unused", "sent", "waiting", "elapsed", "allowed", "denied", "dropped"}
Outstanding == {"sent", "waiting", "elapsed"}

VARIABLES
  stage,    \* each call's request at the server
  pending,  \* the server's map of undecided requests
  mode,     \* session_modes
  events,   \* tool-approval-request events on their way to the listener
  queue,    \* approvalQueue
  rules,    \* alwaysAllowedTools
  ipc,      \* commands that resolve a request, sent or answered
  batch,    \* rest of the snapshot handleApproveAll works through
  question, \* sessionQuestions
  order,    \* insertion order of that map
  modal,    \* QuestionModal: showQuestionModal, and whose parts `answers` holds
  life,     \* sessions being cleared or closed
  answers,  \* answers sent to a CLI
  granted,  \* calls the user has approved, one by one, by a rule or all at once
  permitted \* calls the mode or the kind of the tool let pass

serverVars   == <<stage, pending, mode, events, permitted>>
promptVars   == <<queue, rules, ipc, batch, granted>>
questionVars == <<question, order, modal, answers>>
vars == <<serverVars, promptVars, questionVars, life>>

Origins == {"click", "all", "rule", "answer", "cancel"}
Commands == [call : Calls, ok : BOOLEAN, from : Origins, done : BOOLEAN]
Command(c, ok, from) == [call |-> c, ok |-> ok, from |-> from, done |-> FALSE]

Init ==
  /\ stage = [c \in Calls |-> "unused"] /\ pending = {} /\ events = <<>>
  /\ mode = [s \in Sessions |-> IF s \in SpecWriters THEN "plan" ELSE "normal"]
  /\ queue = {} /\ rules = {} /\ ipc = {} /\ batch = {}
  /\ question = [s \in Sessions |-> NoQuestion] /\ order = <<>>
  /\ modal = [open |-> FALSE, draft |-> <<>>]
  /\ life = [s \in Sessions |-> "live"]
  /\ answers = {} /\ granted = {} /\ permitted = {}

----------------------------------------------------------------------------
\* The approval server.

\* The CLI starts the hook of a tool call; it asks one question at a time.
CallTool(c) ==
  /\ stage[c] = "unused" /\ life[c.session] \in {"live", "clearing"}
  /\ Cardinality({d \in Calls : stage[d] # "unused"}) < MaxCalls
  /\ c.tool = "question" =>
       \A d \in Calls : d.session = c.session /\ d.tool = "question"
                          => stage[d] \notin Outstanding
  /\ stage' = [stage EXCEPT ![c] = "sent"]
  /\ UNCHANGED <<pending, mode, events, permitted, promptVars, questionVars, life>>

AllowedByMode(c) ==
  \/ c.tool = "read"
  \/ mode[c.session] = "accept" /\ c.tool \in {"write", "bash"}
  \/ mode[c.session] = "plan" /\ c.tool = "write"

\* Mutant: the session's mode takes the name of the tool.
ModeAfterRaw(c) == c.tool
ModeAfter(c) == IF c.tool = "enter" THEN "plan" ELSE "normal"

\* handle_tool_approval up to its await.
Handle(c) ==
  /\ stage[c] = "sent"
  /\ UNCHANGED <<promptVars, questionVars, life>>
  /\ \/ /\ AllowedByMode(c)
        /\ stage' = [stage EXCEPT ![c] = "allowed"]
        /\ permitted' = permitted \cup {c}
        /\ UNCHANGED <<pending, mode, events>>
     \/ /\ c.tool \in {"enter", "exit"} /\ c.session \notin SpecWriters
        /\ stage' = [stage EXCEPT ![c] = "allowed"]
        /\ permitted' = permitted \cup {c}
        /\ mode' = [mode EXCEPT ![c.session] = ModeAfter(c)]
        /\ UNCHANGED <<pending, events>>
     \/ /\ c.tool \in {"enter", "exit"} /\ c.session \in SpecWriters
        /\ stage' = [stage EXCEPT ![c] = "denied"]
        /\ UNCHANGED <<pending, mode, events, permitted>>
     \/ /\ ~AllowedByMode(c) /\ c.tool \notin {"enter", "exit"}
        /\ stage' = [stage EXCEPT ![c] = "waiting"]
        /\ pending' = pending \cup {c} /\ events' = Append(events, c)
        /\ UNCHANGED <<mode, permitted>>
     \/ \* The event cannot be emitted.
        /\ ~AllowedByMode(c) /\ c.tool \notin {"enter", "exit"}
        /\ stage' = [stage EXCEPT ![c] = "denied"]
        /\ UNCHANGED <<pending, mode, events, permitted>>

\* Mutant: questions have no timer.
TimerElapsesNot(c) ==
  /\ stage[c] = "waiting" /\ c \notin Range(events) /\ c.tool # "question"
  /\ stage' = [stage EXCEPT ![c] = "elapsed"]
  /\ UNCHANGED <<pending, mode, events, permitted, promptVars, questionVars, life>>

\* DECISION_TIMEOUT_SECS have passed: far more than an event takes to reach the
\* listener.  A decision that is there wins.
TimerElapses(c) ==
  /\ stage[c] = "waiting" /\ c \notin Range(events)
  /\ stage' = [stage EXCEPT ![c] = "elapsed"]
  /\ UNCHANGED <<pending, mode, events, permitted, promptVars, questionVars, life>>

\* Mutant: a call nobody decided is let pass.
CleanUpOpen(c) ==
  /\ stage[c] = "elapsed"
  /\ stage' = [stage EXCEPT ![c] = "allowed"]
  /\ pending' = pending \ {c}
  /\ UNCHANGED <<mode, events, permitted, promptVars, questionVars, life>>

CleanUp(c) ==
  /\ stage[c] = "elapsed"
  /\ stage' = [stage EXCEPT ![c] = "denied"]
  /\ pending' = pending \ {c}
  /\ UNCHANGED <<mode, events, permitted, promptVars, questionVars, life>>

\* resolve: a decision for a request that nobody waits for any more is lost.
Resolve(c, ok) ==
  /\ pending' = pending \ {c}
  /\ stage' = IF c \in pending /\ stage[c] = "waiting"
                THEN [stage EXCEPT ![c] = IF ok THEN "allowed" ELSE "denied"]
                ELSE stage

\* The hooks of a session end with its turn or its process: their connections
\* close and the server drops their handlers where they are.
DropCalls(s) ==
  stage' = [c \in Calls |->
             IF c.session = s /\ stage[c] \in Outstanding THEN "dropped" ELSE stage[c]]

----------------------------------------------------------------------------
\* The frontend's listener and the commands it and the modals send.

AddToOrder(s) == order' = IF s \in Range(order) THEN order ELSE Append(order, s)

\* Opening the question modal resets what was typed; showing it again does not.
OpenModal == IF modal.open THEN modal ELSE [open |-> TRUE, draft |-> <<>>]

\* useToolApprovalListener.
Deliver ==
  LET c == Head(events)
  IN  /\ events # <<>> /\ events' = Tail(events)
      /\ UNCHANGED <<stage, pending, mode, permitted, rules, batch, answers, life>>
      /\ \/ /\ c.tool = "question"
            /\ question' = [question EXCEPT ![c.session] = c]
            /\ AddToOrder(c.session) /\ modal' = OpenModal
            /\ UNCHANGED <<queue, ipc, granted>>
         \/ /\ c.tool # "question" /\ <<c.session, c.tool>> \in rules
            /\ ipc' = ipc \cup {Command(c, TRUE, "rule")}
            /\ granted' = granted \cup {c}
            /\ UNCHANGED <<queue, question, order, modal>>
         \/ /\ c.tool # "question" /\ <<c.session, c.tool>> \notin rules
            /\ queue' = queue \cup {c}
            /\ UNCHANGED <<ipc, granted, question, order, modal>>

\* handleResponse: Approve, Deny or Always allow on a prompt of the queue.  The
\* prompt stays until the command returns; a click meanwhile is left out.
Respond(c, ok, always) ==
  /\ c \in queue /\ (always => ok)
  /\ \A i \in ipc : i.call # c
  /\ ipc' = ipc \cup {Command(c, ok, "click")}
  /\ rules' = IF always THEN rules \cup {<<c.session, c.tool>>} ELSE rules
  /\ granted' = IF ok THEN granted \cup {c} ELSE granted
  /\ UNCHANGED <<serverVars, queue, batch, questionVars, life>>

\* handleApproveAll takes a snapshot of the queue and sends one command at a time,
\* in an order that tells nothing apart.  Its button needs two prompts, its key one;
\* a second click meanwhile is left out.
ApproveAll ==
  /\ queue # {} /\ \A i \in ipc : i.from # "all"
  /\ \E c \in queue : /\ ipc' = ipc \cup {Command(c, TRUE, "all")}
                     /\ batch' = queue \ {c}
  /\ granted' = granted \cup queue
  /\ UNCHANGED <<serverVars, queue, rules, questionVars, life>>

\* A command reaches the backend.  submit_question_answer needs the process.
Arrive(i) ==
  /\ i \in ipc /\ ~i.done
  /\ IF i.from = "answer" /\ life[i.call.session] \in {"closing", "closed"}
       THEN UNCHANGED <<stage, pending>>
       ELSE Resolve(i.call, i.ok)
  /\ ipc' = IF i.from \in {"rule", "cancel"} THEN ipc \ {i}
            ELSE (ipc \ {i}) \cup {[i EXCEPT !.done = TRUE]}
  /\ UNCHANGED <<mode, events, permitted, queue, rules, batch, granted, questionVars, life>>

\* A command's result, an error included, reaches the frontend.
ResponseReturns(i) ==
  /\ i \in ipc /\ i.done /\ i.from = "click"
  /\ ipc' = ipc \ {i} /\ queue' = queue \ {i.call}
  /\ UNCHANGED <<serverVars, rules, batch, granted, questionVars, life>>

\* The loop sends the next command, if any is left to send.
SendNext(i, rest) ==
  \/ rest = {} /\ ipc' = ipc \ {i} /\ batch' = {}
  \/ \E c \in rest : /\ ipc' = (ipc \ {i}) \cup {Command(c, TRUE, "all")}
                    /\ batch' = rest \ {c}

\* Mutant: the loop goes on with whatever the queue holds by now.
BatchReturnsLive(i) ==
  /\ i \in ipc /\ i.done /\ i.from = "all"
  /\ queue' = queue \ {i.call} /\ SendNext(i, queue')
  /\ UNCHANGED <<serverVars, rules, granted, questionVars, life>>

BatchReturns(i) ==
  /\ i \in ipc /\ i.done /\ i.from = "all"
  /\ queue' = queue \ {i.call} /\ SendNext(i, batch)
  /\ UNCHANGED <<serverVars, rules, granted, questionVars, life>>

AnswerReturns(i) ==
  /\ i \in ipc /\ i.done /\ i.from = "answer"
  /\ ipc' = ipc \ {i}
  /\ question' = [question EXCEPT ![i.call.session] = NoQuestion]
  /\ AddToOrder(i.call.session)
  /\ modal' = [modal EXCEPT !.open = FALSE]
  /\ UNCHANGED <<serverVars, queue, rules, batch, granted, answers, life>>

----------------------------------------------------------------------------
\* The question modal shows the first pending question in the order of the map.

Displayed ==
  LET asked == {i \in DOMAIN order : question[order[i]] # NoQuestion}
  IN  IF asked = {} THEN NoQuestion
      ELSE question[order[CHOOSE i \in asked : \A j \in asked : i <= j]]

Submitting == \E i \in ipc : i.from = "answer"

\* handleSubmit for one part; the last one sends them all.
AnswerPart ==
  LET typed == Append(modal.draft, Displayed)
  IN  /\ modal.open /\ Displayed # NoQuestion /\ ~Submitting
      /\ modal' = [modal EXCEPT !.draft = typed]
      /\ \/ Len(typed) < Parts /\ UNCHANGED <<ipc, answers, granted>>
         \/ /\ Len(typed) >= Parts
            /\ ipc' = ipc \cup {Command(Displayed, TRUE, "answer")}
            /\ answers' = answers \cup {[to |-> Displayed, parts |-> Range(typed)]}
            /\ granted' = granted \cup {Displayed}
      /\ UNCHANGED <<serverVars, queue, rules, batch, question, order, life>>

\* handleCancel does not wait for its command.
CancelQuestion ==
  /\ modal.open /\ Displayed # NoQuestion
  /\ ipc' = ipc \cup {Command(Displayed, FALSE, "cancel")}
  /\ question' = [question EXCEPT ![Displayed.session] = NoQuestion]
  /\ modal' = [modal EXCEPT !.open = FALSE]
  /\ UNCHANGED <<serverVars, queue, rules, batch, granted, order, answers, life>>

----------------------------------------------------------------------------
\* Modes and the life of a session.

SetMode(s, m) ==
  /\ mode[s] # m /\ s \notin SpecWriters /\ life[s] = "live"
  /\ mode' = [mode EXCEPT ![s] = m]
  /\ UNCHANGED <<stage, pending, events, permitted, promptVars, questionVars, life>>

\* Mutant: the prompts of every session go.
ClearAllPrompts(s) ==
  /\ question' = [question EXCEPT ![s] = NoQuestion] /\ AddToOrder(s)
  /\ queue' = {}
  /\ rules' = {r \in rules : r[1] # s}
  /\ UNCHANGED <<ipc, batch, granted, modal, answers>>

\* clearApprovalState and clearEntries.
ClearPrompts(s) ==
  /\ question' = [question EXCEPT ![s] = NoQuestion] /\ AddToOrder(s)
  /\ queue' = {c \in queue : c.session # s}
  /\ rules' = {r \in rules : r[1] # s}
  /\ UNCHANGED <<ipc, batch, granted, modal, answers>>

\* /clear forgets the prompts and then restarts the process.
Clear(s) ==
  /\ life[s] = "live" /\ s \notin SpecWriters
  /\ life' = [life EXCEPT ![s] = "clearing"]
  /\ ClearPrompts(s)
  /\ UNCHANGED serverVars

\* The turn is interrupted, or the process is killed or dies.
Interrupt(s) ==
  /\ life[s] \in {"live", "clearing"}
  /\ \E c \in Calls : c.session = s /\ stage[c] \in Outstanding
  /\ DropCalls(s)
  /\ UNCHANGED <<pending, mode, events, permitted, promptVars, questionVars, life>>

Cleared(s) ==
  /\ life[s] = "clearing"
  /\ life' = [life EXCEPT ![s] = "live"]
  /\ DropCalls(s)
  /\ UNCHANGED <<pending, mode, events, permitted, promptVars, questionVars>>

\* close_session kills the process, and closeSession forgets the prompts.
Close(s) ==
  /\ life[s] = "live" /\ s \notin SpecWriters
  /\ life' = [life EXCEPT ![s] = "closing"]
  /\ DropCalls(s)
  /\ UNCHANGED <<pending, mode, events, permitted, promptVars, questionVars>>

Closed(s) ==
  /\ life[s] = "closing"
  /\ life' = [life EXCEPT ![s] = "closed"]
  /\ ClearPrompts(s)
  /\ UNCHANGED serverVars

----------------------------------------------------------------------------
Server == \E c \in Calls : CallTool(c) \/ Handle(c) \/ TimerElapses(c) \/ CleanUp(c)

Frontend ==
  \/ Deliver
  \/ \E i \in ipc : Arrive(i) \/ ResponseReturns(i) \/ BatchReturns(i) \/ AnswerReturns(i)

User ==
  \/ \E c \in queue, ok, always \in BOOLEAN : Respond(c, ok, always)
  \/ ApproveAll
  \/ AnswerPart
  \/ CancelQuestion
  \/ \E s \in Sessions, m \in Modes : SetMode(s, m)

SessionLife ==
  \E s \in Ending : Clear(s) \/ Cleared(s) \/ Interrupt(s) \/ Close(s) \/ Closed(s)

Next == Server \/ Frontend \/ User \/ SessionLife

Spec == Init /\ [][Next]_vars

\* The runtime polls its tasks and its timers, and events reach the listener;
\* nothing is asked of the user.  MaxCalls bounds the tasks, so fairness to each
\* step of theirs is fairness to each task.
FairSpec ==
  Spec /\ WF_vars(Deliver) /\ WF_vars(\E c \in Calls : Handle(c))
       /\ WF_vars(\E c \in Calls : TimerElapses(c)) /\ WF_vars(\E c \in Calls : CleanUp(c))

----------------------------------------------------------------------------
TypeOK ==
  /\ stage \in [Calls -> Stages] /\ pending \subseteq Calls /\ mode \in [Sessions -> SessionMode]
  /\ events \in Seq(Calls) /\ queue \subseteq Calls /\ batch \subseteq Calls
  /\ rules \subseteq Sessions \X Tools /\ ipc \subseteq Commands
  /\ question \in [Sessions -> Calls \cup {NoQuestion}] /\ order \in Seq(Sessions)
  /\ modal \in [open : BOOLEAN, draft : Seq(Calls)]
  /\ life \in [Sessions -> {"live", "clearing", "closing", "closed"}]
  /\ granted \subseteq Calls /\ permitted \subseteq Calls

\* No tool call is allowed unless its mode let it pass or the user approved this
\* very call: by a click on its prompt, by a rule, or with all the prompts that
\* were queued when Approve all was clicked (handle_tool_approval, ToolApproval).
OnlyGrantedRun == \A c \in Calls : stage[c] = "allowed" => c \in granted \cup permitted

\* A call that waits can be decided: the server still holds its sender, and the
\* user has its prompt or will get it, or a decision is on its way.
PromptReachable ==
  \A c \in Calls : stage[c] = "waiting" /\ life[c.session] = "live" =>
    /\ c \in pending
    /\ \/ c \in Range(events) \cup queue \cup Range(question)
       \/ \E i \in ipc : i.call = c /\ ~i.done

\* What a CLI is told was typed in answer to the question it asked.  It is not
\* where a question of several parts takes the place of another under the open
\* modal (README, Disagreements); no run checks it.
AnswersBelong == \A a \in answers : a.parts = {a.to}

\* Every call a CLI makes is answered or given up, whatever the user does: while
\* some wait there comes a time when none does.
EveryCallAnswered ==
  (\E c \in Calls : stage[c] \in Outstanding) ~> (\A c \in Calls : stage[c] \notin Outstanding)
============================================================================
