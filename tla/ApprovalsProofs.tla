--------------------------- MODULE ApprovalsProofs ---------------------------
(***************************************************************************)
(* Proofs about Approvals, for any number of sessions, tools and calls.    *)
(***************************************************************************)
EXTENDS Approvals, SequenceTheorems, WellFoundedInduction, TLAPS

\* A set of natural numbers that is not empty has a least element.
LEMMA LeastElement ==
  ASSUME NEW S \in SUBSET Nat, S # {}
  PROVE  \E i \in S : \A j \in S : i <= j
<1>1. \E i \in S : \A j \in S : ~ (<<j, i>> \in OpToRel(<, Nat))
  BY NatLessThanWellFounded, WFMin, Zenon
<1>2. \A i, j \in S : j < i => <<j, i>> \in OpToRel(<, Nat)
  BY DEF OpToRel
<1>3. PICK i \in S : \A j \in S : ~ (<<j, i>> \in OpToRel(<, Nat))
  BY <1>1
<1>4. ASSUME NEW j \in S PROVE i <= j
  <2>1. ~ (j < i)
    BY <1>2, <1>3
  <2> QED
    BY <2>1
<1> QED
  BY <1>4

----------------------------------------------------------------------------
\* The question on display is a call of the session that asked it.
LEMMA DisplayedType ==
  ASSUME TypeOK
  PROVE  Displayed \in Calls \cup {NoQuestion}
<1> DEFINE asked == {i \in DOMAIN order : question[order[i]] # NoQuestion}
<1>1. CASE asked = {}
  BY <1>1 DEF Displayed
<1>2. CASE asked # {}
  <2>1. asked \in SUBSET Nat /\ order \in Seq(Sessions)
    BY DEF TypeOK
  <2>2. \E i \in asked : \A j \in asked : i <= j
    BY <1>2, <2>1, LeastElement
  <2> DEFINE first == CHOOSE i \in asked : \A j \in asked : i <= j
  <2>3. first \in asked
    BY <2>2
  <2>4. order[first] \in Sessions
    BY <2>1, <2>3
  <2>5. question[order[first]] \in Calls \cup {NoQuestion}
    BY <2>4 DEF TypeOK
  <2>6. Displayed = question[order[first]]
    BY <1>2 DEF Displayed
  <2> QED
    BY <2>5, <2>6
<1> QED
  BY <1>1, <1>2

LEMMA CommandType ==
  ASSUME NEW c \in Calls, NEW ok \in BOOLEAN, NEW from \in Origins
  PROVE  Command(c, ok, from) \in Commands
BY DEF Command, Commands

----------------------------------------------------------------------------
\* Type correctness, one lemma for each of the disjuncts of Next.

LEMMA ServerType == TypeOK /\ Server => TypeOK'
<1> SUFFICES ASSUME TypeOK, NEW c \in Calls,
                    CallTool(c) \/ Handle(c) \/ TimerElapses(c) \/ CleanUp(c)
             PROVE  TypeOK'
  BY DEF Server
<1> USE DEF TypeOK, serverVars, promptVars, questionVars, Stages
<1>1. CASE CallTool(c)
  BY <1>1 DEF CallTool
<1>2. CASE Handle(c)
  <2>1. events' \in Seq(Calls)
    <3>1. events' = events \/ events' = Append(events, c)
      BY <1>2 DEF Handle
    <3>2. events \in Seq(Calls)
      OBVIOUS
    <3>3. Append(events, c) \in Seq(Calls)
      BY <3>2, AppendProperties
    <3> QED
      BY <3>1, <3>2, <3>3
  <2>2. mode' \in [Sessions -> SessionMode]
    BY <1>2 DEF Handle, ModeAfter, SessionMode, Calls
  <2> QED
    BY <1>2, <2>1, <2>2 DEF Handle
<1>3. CASE TimerElapses(c)
  BY <1>3 DEF TimerElapses
<1>4. CASE CleanUp(c)
  BY <1>4 DEF CleanUp
<1> QED
  BY <1>1, <1>2, <1>3, <1>4

LEMMA OrderType ==
  ASSUME order \in Seq(Sessions), NEW s \in Sessions, AddToOrder(s)
  PROVE  order' \in Seq(Sessions)
BY DEF AddToOrder

LEMMA OpenModalType ==
  ASSUME modal \in [open : BOOLEAN, draft : Seq(Calls)]
  PROVE  OpenModal \in [open : BOOLEAN, draft : Seq(Calls)]
<1>1. <<>> \in Seq(Calls)
  OBVIOUS
<1>2. CASE modal.open
  BY <1>2 DEF OpenModal
<1>3. CASE ~ modal.open
  <2>1. OpenModal = [open |-> TRUE, draft |-> <<>>]
    BY <1>3 DEF OpenModal
  <2> QED
    BY <1>1, <2>1
<1> QED
  BY <1>2, <1>3

LEMMA FrontendType == TypeOK /\ Frontend => TypeOK'
<1> SUFFICES ASSUME TypeOK, Frontend PROVE TypeOK'
  OBVIOUS
<1> USE DEF serverVars, promptVars, questionVars
<1>1. CASE Deliver
  <2> DEFINE c == Head(events)
  <2>1. c \in Calls /\ c.session \in Sessions /\ events' \in Seq(Calls)
    <3>1. events \in Seq(Calls) /\ events # <<>> /\ events' = Tail(events)
      BY <1>1 DEF Deliver, TypeOK
    <3>2. c \in Calls /\ events' \in Seq(Calls)
      BY <3>1, HeadTailProperties
    <3> QED
      BY <3>2 DEF Calls
  <2>2. Command(c, TRUE, "rule") \in Commands
    BY <2>1, CommandType DEF Origins
  <2>3. CASE c.tool = "question"
    <3>1. question' \in [Sessions -> Calls \cup {NoQuestion}]
      BY <1>1, <2>1, <2>3 DEF Deliver, TypeOK
    <3>2. order' \in Seq(Sessions)
      BY <1>1, <2>1, <2>3, OrderType DEF Deliver, TypeOK
    <3>3. modal' \in [open : BOOLEAN, draft : Seq(Calls)]
      BY <1>1, <2>3, OpenModalType DEF Deliver, TypeOK
    <3> QED
      BY <1>1, <2>1, <2>3, <3>1, <3>2, <3>3 DEF Deliver, TypeOK
  <2>4. CASE c.tool # "question"
    BY <1>1, <2>1, <2>2, <2>4 DEF Deliver, TypeOK
  <2> QED
    BY <2>3, <2>4
<1> SUFFICES ASSUME NEW i \in ipc,
                    Arrive(i) \/ ResponseReturns(i) \/ BatchReturns(i) \/ AnswerReturns(i)
             PROVE  TypeOK'
  BY <1>1 DEF Frontend
<1>2. i \in Commands /\ i.call \in Calls /\ i.call.session \in Sessions
  BY DEF TypeOK, Commands, Calls
<1>3. CASE Arrive(i)
  <2>1. [i EXCEPT !.done = TRUE] \in Commands
    BY <1>2 DEF Commands
  <2>2. stage' \in [Calls -> Stages] /\ pending' \subseteq Calls
    BY <1>2, <1>3 DEF Arrive, Resolve, TypeOK, Stages
  <2> QED
    BY <1>3, <2>1, <2>2 DEF Arrive, TypeOK
<1>4. CASE ResponseReturns(i)
  BY <1>4 DEF ResponseReturns, TypeOK
<1>5. CASE BatchReturns(i)
  <2>1. \A c \in Calls : Command(c, TRUE, "all") \in Commands
    BY CommandType DEF Origins
  <2> QED
    BY <1>5, <2>1 DEF BatchReturns, SendNext, TypeOK
<1>6. CASE AnswerReturns(i)
  <2>1. order' \in Seq(Sessions)
    BY <1>2, <1>6, OrderType DEF AnswerReturns, TypeOK
  <2>2. question' \in [Sessions -> Calls \cup {NoQuestion}]
    BY <1>2, <1>6 DEF AnswerReturns, TypeOK
  <2>3. modal' \in [open : BOOLEAN, draft : Seq(Calls)]
    BY <1>6 DEF AnswerReturns, TypeOK
  <2> QED
    BY <1>6, <2>1, <2>2, <2>3 DEF AnswerReturns, TypeOK
<1> QED
  BY <1>3, <1>4, <1>5, <1>6

LEMMA UserType == TypeOK /\ User => TypeOK'
<1> SUFFICES ASSUME TypeOK, User PROVE TypeOK'
  OBVIOUS
<1> USE DEF serverVars, promptVars, questionVars
<1>1. ASSUME NEW c \in queue, NEW ok \in BOOLEAN, NEW always \in BOOLEAN,
             Respond(c, ok, always)
      PROVE  TypeOK'
  <2>1. c \in Calls /\ c.session \in Sessions /\ c.tool \in Tools
    BY DEF TypeOK, Calls
  <2>2. Command(c, ok, "click") \in Commands
    BY <2>1, CommandType DEF Origins
  <2>3. rules' \subseteq Sessions \X Tools
    BY <1>1, <2>1 DEF Respond, TypeOK
  <2> QED
    BY <1>1, <2>1, <2>2, <2>3 DEF Respond, TypeOK
<1>2. CASE ApproveAll
  <2>1. \A c \in Calls : Command(c, TRUE, "all") \in Commands
    BY CommandType DEF Origins
  <2> QED
    BY <1>2, <2>1 DEF ApproveAll, TypeOK
<1>3. Displayed # NoQuestion => Displayed \in Calls /\ Displayed.session \in Sessions
  BY DisplayedType DEF Calls
<1>4. CASE AnswerPart
  <2> DEFINE typed == Append(modal.draft, Displayed)
  <2>1. Displayed \in Calls /\ modal.draft \in Seq(Calls)
    BY <1>3, <1>4 DEF AnswerPart, TypeOK
  <2>2. typed \in Seq(Calls)
    BY <2>1, AppendProperties
  <2>3. modal' = [modal EXCEPT !.draft = typed]
    BY <1>4 DEF AnswerPart
  <2>4. modal' \in [open : BOOLEAN, draft : Seq(Calls)]
    BY <2>2, <2>3 DEF TypeOK
  <2>5. Command(Displayed, TRUE, "answer") \in Commands
    BY <2>1, CommandType DEF Origins
  <2>6. ipc' \subseteq Commands /\ granted' \subseteq Calls
    BY <1>4, <2>1, <2>5 DEF AnswerPart, TypeOK
  <2> QED
    BY <1>4, <2>4, <2>6 DEF AnswerPart, TypeOK
<1>5. CASE CancelQuestion
  <2>1. Displayed \in Calls /\ Displayed.session \in Sessions
    BY <1>3, <1>5 DEF CancelQuestion
  <2>2. Command(Displayed, FALSE, "cancel") \in Commands
    BY <2>1, CommandType DEF Origins
  <2>3. modal' \in [open : BOOLEAN, draft : Seq(Calls)]
    BY <1>5 DEF CancelQuestion, TypeOK
  <2>4. question' \in [Sessions -> Calls \cup {NoQuestion}]
    BY <1>5, <2>1 DEF CancelQuestion, TypeOK
  <2> QED
    BY <1>5, <2>2, <2>3, <2>4 DEF CancelQuestion, TypeOK
<1>6. ASSUME NEW s \in Sessions, NEW m \in Modes, SetMode(s, m)
      PROVE  TypeOK'
  BY <1>6, ApprovalsAssumption DEF SetMode, TypeOK
<1> QED
  BY <1>1, <1>2, <1>4, <1>5, <1>6 DEF User

LEMMA SessionLifeType == TypeOK /\ SessionLife => TypeOK'
<1> SUFFICES ASSUME TypeOK, NEW s \in Ending,
                    Clear(s) \/ Cleared(s) \/ Interrupt(s) \/ Close(s) \/ Closed(s)
             PROVE  TypeOK'
  BY DEF SessionLife
<1> USE DEF serverVars, promptVars, questionVars
<1>1. s \in Sessions
  BY ApprovalsAssumption
<1>2. ClearPrompts(s) => /\ queue' \subseteq Calls /\ rules' \subseteq Sessions \X Tools
                         /\ question' \in [Sessions -> Calls \cup {NoQuestion}]
                         /\ order' \in Seq(Sessions)
  BY <1>1, OrderType DEF ClearPrompts, TypeOK
<1>3. DropCalls(s) => stage' \in [Calls -> Stages]
  BY DEF DropCalls, TypeOK, Stages
<1>4. CASE Clear(s)
  BY <1>2, <1>4 DEF Clear, ClearPrompts, TypeOK
<1>5. CASE Cleared(s)
  BY <1>3, <1>5 DEF Cleared, TypeOK
<1>6. CASE Interrupt(s)
  BY <1>3, <1>6 DEF Interrupt, TypeOK
<1>7. CASE Close(s)
  BY <1>3, <1>7 DEF Close, TypeOK
<1>8. CASE Closed(s)
  BY <1>2, <1>8 DEF Closed, ClearPrompts, TypeOK
<1> QED
  BY <1>4, <1>5, <1>6, <1>7, <1>8

\* In every reachable state each variable has its type: the maps are total, and
\* every prompt, event, command and question is of a call of some session.
THEOREM TypeCorrect == Spec => []TypeOK
<1>1. Init => TypeOK
  <2> SUFFICES ASSUME Init PROVE TypeOK
    OBVIOUS
  <2>1. \A S : <<>> \in Seq(S)
    OBVIOUS
  <2>2. modal \in [open : BOOLEAN, draft : Seq(Calls)]
    BY <2>1 DEF Init
  <2>3. events \in Seq(Calls) /\ order \in Seq(Sessions)
    BY <2>1 DEF Init
  <2> QED
    BY <2>2, <2>3 DEF Init, TypeOK, Stages, SessionMode
<1>2. TypeOK /\ [Next]_vars => TypeOK'
  <2>1. TypeOK /\ UNCHANGED vars => TypeOK'
    BY DEF TypeOK, vars, serverVars, promptVars, questionVars
  <2> QED
    BY <2>1, ServerType, FrontendType, UserType, SessionLifeType DEF Next
<1> QED
  BY <1>1, <1>2, PTL DEF Spec

----------------------------------------------------------------------------
\* OnlyGrantedRun is not inductive: a call becomes allowed by a command that was
\* sent before.  Every command that approves, and every call Approve all has yet
\* to send a command for, must have been granted when the user clicked.
GrantInvariant ==
  /\ OnlyGrantedRun
  /\ \A i \in ipc : i.ok => i.call \in granted
  /\ batch \subseteq granted

\* The mode or the user: what no step takes back.
LEMMA GrantsLast == TypeOK /\ [Next]_vars => granted \subseteq granted' /\ permitted \subseteq permitted'
<1> SUFFICES ASSUME TypeOK, [Next]_vars
             PROVE  granted \subseteq granted' /\ permitted \subseteq permitted'
  OBVIOUS
<1> USE DEF serverVars, promptVars, questionVars
<1>1. CASE Server
  BY <1>1 DEF Server, CallTool, Handle, TimerElapses, CleanUp
<1>2. CASE Frontend
  BY <1>2 DEF Frontend, Deliver, Arrive, ResponseReturns, BatchReturns, AnswerReturns
<1>3. CASE User
  BY <1>3 DEF User, Respond, ApproveAll, AnswerPart, CancelQuestion, SetMode
<1>4. CASE SessionLife
  BY <1>4 DEF SessionLife, Clear, ClearPrompts, Cleared, Interrupt, Close, Closed
<1> QED
  BY <1>1, <1>2, <1>3, <1>4 DEF Next, vars

\* A step that allows no further call keeps OnlyGrantedRun.
LEMMA NothingAllowed ==
  ASSUME TypeOK, [Next]_vars, OnlyGrantedRun,
         \A c \in Calls : stage'[c] = "allowed" => stage[c] = "allowed"
  PROVE  OnlyGrantedRun'
BY GrantsLast DEF OnlyGrantedRun

LEMMA ServerGrants == TypeOK /\ GrantInvariant /\ Server => GrantInvariant'
<1> SUFFICES ASSUME TypeOK, GrantInvariant, NEW c \in Calls,
                    CallTool(c) \/ Handle(c) \/ TimerElapses(c) \/ CleanUp(c)
             PROVE  GrantInvariant'
  BY DEF Server
<1> USE DEF serverVars, promptVars, questionVars
<1>1. UNCHANGED promptVars
  BY DEF CallTool, Handle, TimerElapses, CleanUp
<1>2. [Next]_vars
  BY DEF Next, Server
<1>3. CASE CallTool(c) \/ TimerElapses(c) \/ CleanUp(c)
  <2>1. \A d \in Calls : stage'[d] = "allowed" => stage[d] = "allowed"
    BY <1>3 DEF CallTool, TimerElapses, CleanUp, TypeOK
  <2> QED
    BY <1>1, <1>2, <2>1, NothingAllowed DEF GrantInvariant
<1>4. CASE Handle(c)
  <2>1. \A d \in Calls : stage'[d] = "allowed" => stage[d] = "allowed" \/ d \in permitted'
    BY <1>4 DEF Handle, TypeOK
  <2>2. OnlyGrantedRun'
    BY <1>2, <2>1, GrantsLast DEF GrantInvariant, OnlyGrantedRun
  <2> QED
    BY <1>1, <2>2 DEF GrantInvariant
<1> QED
  BY <1>3, <1>4

LEMMA FrontendGrants == TypeOK /\ GrantInvariant /\ Frontend => GrantInvariant'
<1> SUFFICES ASSUME TypeOK, GrantInvariant, Frontend PROVE GrantInvariant'
  OBVIOUS
<1> USE DEF serverVars, promptVars, questionVars
<1>1. [Next]_vars
  BY DEF Next
<1>2. UNCHANGED stage => OnlyGrantedRun'
  BY <1>1, NothingAllowed DEF GrantInvariant
<1>3. CASE Deliver
  BY <1>2, <1>3 DEF Deliver, Command, GrantInvariant
<1> SUFFICES ASSUME NEW i \in ipc,
                    Arrive(i) \/ ResponseReturns(i) \/ BatchReturns(i) \/ AnswerReturns(i)
             PROVE  GrantInvariant'
  BY <1>3 DEF Frontend
<1>4. i \in Commands
  BY DEF TypeOK
<1>5. CASE Arrive(i)
  <2>1. \A d \in Calls : stage'[d] = "allowed" => stage[d] = "allowed" \/ (i.ok /\ d = i.call)
    BY <1>5 DEF Arrive, Resolve, TypeOK
  <2>2. OnlyGrantedRun'
    BY <1>1, <2>1, GrantsLast DEF GrantInvariant, OnlyGrantedRun
  <2>3. [i EXCEPT !.done = TRUE].ok = i.ok /\ [i EXCEPT !.done = TRUE].call = i.call
    BY <1>4 DEF Commands
  <2> QED
    BY <1>5, <2>2, <2>3 DEF Arrive, GrantInvariant
<1>6. CASE ResponseReturns(i)
  BY <1>2, <1>6 DEF ResponseReturns, GrantInvariant
<1>7. CASE BatchReturns(i)
  BY <1>2, <1>7 DEF BatchReturns, SendNext, Command, GrantInvariant
<1>8. CASE AnswerReturns(i)
  BY <1>2, <1>8 DEF AnswerReturns, GrantInvariant
<1> QED
  BY <1>5, <1>6, <1>7, <1>8

LEMMA UserGrants == TypeOK /\ GrantInvariant /\ User => GrantInvariant'
<1> SUFFICES ASSUME TypeOK, GrantInvariant, User PROVE GrantInvariant'
  OBVIOUS
<1> USE DEF serverVars, promptVars, questionVars
<1>1. [Next]_vars
  BY DEF Next
<1>2. UNCHANGED stage
  BY DEF User, Respond, ApproveAll, AnswerPart, CancelQuestion, SetMode
<1>3. OnlyGrantedRun'
  BY <1>1, <1>2, NothingAllowed DEF GrantInvariant
<1>4. granted \subseteq granted'
  BY <1>1, GrantsLast
<1>5. ASSUME NEW c \in queue, NEW ok \in BOOLEAN, NEW always \in BOOLEAN,
             Respond(c, ok, always)
      PROVE  GrantInvariant'
  BY <1>3, <1>4, <1>5 DEF Respond, Command, GrantInvariant
<1>6. CASE ApproveAll
  BY <1>3, <1>4, <1>6 DEF ApproveAll, Command, GrantInvariant
<1>7. CASE AnswerPart
  BY <1>3, <1>4, <1>7 DEF AnswerPart, Command, GrantInvariant
<1>8. CASE CancelQuestion
  BY <1>3, <1>8 DEF CancelQuestion, Command, GrantInvariant
<1>9. ASSUME NEW s \in Sessions, NEW m \in Modes, SetMode(s, m)
      PROVE  GrantInvariant'
  BY <1>3, <1>9 DEF SetMode, GrantInvariant
<1> QED
  BY <1>5, <1>6, <1>7, <1>8, <1>9 DEF User

LEMMA SessionLifeGrants == TypeOK /\ GrantInvariant /\ SessionLife => GrantInvariant'
<1> SUFFICES ASSUME TypeOK, GrantInvariant, SessionLife PROVE GrantInvariant'
  OBVIOUS
<1> USE DEF serverVars, promptVars, questionVars
<1>1. [Next]_vars
  BY DEF Next
<1>2. UNCHANGED <<ipc, batch, granted>>
  BY DEF SessionLife, Clear, ClearPrompts, Cleared, Interrupt, Close, Closed
<1>3. \A c \in Calls : stage'[c] = "allowed" => stage[c] = "allowed"
  BY DEF SessionLife, Clear, Cleared, Interrupt, Close, Closed, DropCalls, TypeOK
<1>4. OnlyGrantedRun'
  BY <1>1, <1>3, NothingAllowed DEF GrantInvariant
<1> QED
  BY <1>2, <1>4 DEF GrantInvariant

\* No tool runs that neither its session's mode nor the user let pass, whatever
\* the number of sessions, prompts and commands on their way: not by a stale
\* click, a late decision, a batch that overlaps new prompts or a /clear.
THEOREM NothingRunsUnapproved == Spec => []OnlyGrantedRun
<1>1. Init => GrantInvariant
  BY DEF Init, GrantInvariant, OnlyGrantedRun
<1>2. TypeOK /\ GrantInvariant /\ [Next]_vars => GrantInvariant'
  <2>1. GrantInvariant /\ UNCHANGED vars => GrantInvariant'
    BY DEF GrantInvariant, OnlyGrantedRun, vars, serverVars, promptVars
  <2> QED
    BY <2>1, ServerGrants, FrontendGrants, UserGrants, SessionLifeGrants DEF Next
<1>3. GrantInvariant => OnlyGrantedRun
  BY DEF GrantInvariant
<1> QED
  BY <1>1, <1>2, <1>3, TypeCorrect, PTL DEF Spec

----------------------------------------------------------------------------
\* PromptReachable speaks of a prompt, an event or a command, which is lost when
\* a command returns that has not decided the call, or when one is for a call
\* that the server has yet to see.  So what the frontend holds is of calls that
\* the server has handled, and a click that returns has decided its call.
Known(c) == stage[c] \notin {"unused", "sent"}

Handled ==
  /\ \A c \in Range(events) \cup queue \cup batch : Known(c)
  /\ \A i \in ipc : Known(i.call)
  /\ \A s \in Sessions : question[s] # NoQuestion => Known(question[s])

Decided == \A i \in ipc : i.done /\ i.from \in {"click", "all"} => stage[i.call] # "waiting"

Carried(c) ==
  \/ c \in Range(events) \cup queue
  \/ \E i \in ipc : i.call = c /\ ~i.done

\* A question is carried by the modal, from where the answer to an older one can
\* take it.
CardReachable ==
  \A c \in Calls : stage[c] = "waiting" =>
    /\ c \in pending
    /\ life[c.session] = "live" /\ c.tool # "question" => Carried(c)

ReachInvariant == Handled /\ Decided /\ CardReachable

LEMMA RangeOfTail ==
  ASSUME NEW S, NEW q \in Seq(S), q # <<>>
  PROVE  Range(q) = Range(Tail(q)) \cup {Head(q)}
<1>1. /\ Head(q) = q[1] /\ 1 \in DOMAIN q
      /\ DOMAIN Tail(q) = 1 .. Len(q) - 1 /\ DOMAIN q = 1 .. Len(q) /\ Len(q) \in Nat \ {0}
      /\ \A k \in 1 .. Len(q) - 1 : Tail(q)[k] = q[k + 1]
  OBVIOUS
<1>2. \A k \in 1 .. Len(q) - 1 : k + 1 \in 1 .. Len(q)
  BY <1>1
<1>3. Range(Tail(q)) \cup {Head(q)} \subseteq Range(q)
  BY <1>1, <1>2 DEF Range
<1>4. ASSUME NEW k \in DOMAIN q PROVE q[k] \in Range(Tail(q)) \cup {Head(q)}
  <2>1. CASE k = 1
    BY <1>1, <2>1
  <2>2. CASE k # 1
    <3> DEFINE j == k - 1
    <3>1. j \in 1 .. Len(q) - 1 /\ j + 1 = k
      BY <1>1, <2>2
    <3> HIDE DEF j
    <3> QED
      BY <1>1, <3>1 DEF Range
  <2> QED
    BY <2>1, <2>2
<1> QED
  BY <1>3, <1>4 DEF Range

LEMMA RangeOfAppend ==
  ASSUME NEW S, NEW q \in Seq(S), NEW x \in S
  PROVE  Range(Append(q, x)) = Range(q) \cup {x}
<1>1. /\ DOMAIN Append(q, x) = 1 .. Len(q) + 1 /\ DOMAIN q = 1 .. Len(q) /\ Len(q) \in Nat
      /\ \A k \in 1 .. Len(q) : Append(q, x)[k] = q[k]
      /\ Append(q, x)[Len(q) + 1] = x
  OBVIOUS
<1>2. Len(q) + 1 \in 1 .. Len(q) + 1 /\ 1 .. Len(q) \subseteq 1 .. Len(q) + 1
  BY <1>1
<1>3. Range(q) \cup {x} \subseteq Range(Append(q, x))
  BY <1>1, <1>2 DEF Range
<1>4. ASSUME NEW k \in 1 .. Len(q) + 1 PROVE Append(q, x)[k] \in Range(q) \cup {x}
  <2>1. k \in 1 .. Len(q) \/ k = Len(q) + 1
    BY <1>1
  <2> QED
    BY <1>1, <2>1 DEF Range
<1> QED
  BY <1>1, <1>3, <1>4 DEF Range

\* The question on display is some session's.
LEMMA DisplayedAsked ==
  ASSUME TypeOK, Displayed # NoQuestion
  PROVE  \E s \in Sessions : question[s] = Displayed
<1> DEFINE asked == {i \in DOMAIN order : question[order[i]] # NoQuestion}
<1>1. asked # {}
  BY DEF Displayed
<1>2. asked \in SUBSET Nat /\ order \in Seq(Sessions)
  BY DEF TypeOK
<1>3. \E i \in asked : \A j \in asked : i <= j
  BY <1>1, <1>2, LeastElement
<1> DEFINE first == CHOOSE i \in asked : \A j \in asked : i <= j
<1>4. first \in asked
  BY <1>3
<1>5. order[first] \in Sessions
  BY <1>2, <1>4
<1>6. Displayed = question[order[first]]
  BY <1>1 DEF Displayed
<1> QED
  BY <1>5, <1>6

\* What the frontend has of a call that waits, it has after a step that lets no
\* other call wait, takes nothing from it and sends commands for known calls only.
LEMMA ReachSame ==
  ASSUME TypeOK, ReachInvariant,
         \A c \in Calls : Known(c) => Known(c)',
         \A c \in Calls : stage'[c] = "waiting" => stage[c] = "waiting" /\ c \in pending',
         \A c \in Range(events') \cup queue' \cup batch' : c \in Calls /\ Known(c),
         \A i \in ipc' : i \in ipc \/ (i.call \in Calls /\ Known(i.call) /\ ~i.done),
         \A s \in Sessions : question'[s] # NoQuestion =>
           question'[s] \in Calls /\ Known(question'[s]),
         \A c \in Calls : stage'[c] = "waiting" /\ life'[c.session] = "live"
                          /\ c.tool # "question" =>
           life[c.session] = "live" /\ (Carried(c) => Carried(c)')
  PROVE  ReachInvariant'
<1>1. \A i \in ipc : i.call \in Calls
  BY DEF TypeOK, Commands
<1>2. Handled'
  BY <1>1 DEF ReachInvariant, Handled
<1>3. Decided'
  BY <1>1 DEF ReachInvariant, Decided
<1>4. CardReachable'
  BY DEF ReachInvariant, CardReachable
<1> QED
  BY <1>2, <1>3, <1>4 DEF ReachInvariant

\* What everything that is known is known of.
LEMMA KnownCalls ==
  ASSUME TypeOK, Handled
  PROVE  /\ \A c \in Range(events) \cup queue \cup batch : c \in Calls /\ Known(c)
         /\ \A i \in ipc : i.call \in Calls /\ Known(i.call)
         /\ \A s \in Sessions : question[s] # NoQuestion => question[s] \in Calls /\ Known(question[s])
         /\ Displayed # NoQuestion => Displayed \in Calls /\ Known(Displayed)
<1>1. Range(events) \subseteq Calls
  <2>1. events \in Seq(Calls)
    BY DEF TypeOK
  <2> QED
    BY <2>1 DEF Range
<1>2. \A s \in Sessions : question[s] # NoQuestion => question[s] \in Calls /\ Known(question[s])
  BY DEF TypeOK, Handled
<1>3. Displayed # NoQuestion => Displayed \in Calls /\ Known(Displayed)
  BY <1>2, DisplayedAsked
<1>4. \A i \in ipc : i.call \in Calls
  BY DEF TypeOK, Commands
<1> QED
  BY <1>1, <1>2, <1>3, <1>4 DEF TypeOK, Handled

LEMMA ServerReach == TypeOK /\ ReachInvariant /\ Server => ReachInvariant'
<1> SUFFICES ASSUME TypeOK, ReachInvariant, NEW c \in Calls,
                    CallTool(c) \/ Handle(c) \/ TimerElapses(c) \/ CleanUp(c)
             PROVE  ReachInvariant'
  BY DEF Server
<1> USE DEF serverVars, promptVars, questionVars
<1>0. Handled
  BY DEF ReachInvariant
<1>1. UNCHANGED <<queue, batch, ipc, question, life>>
  BY DEF CallTool, Handle, TimerElapses, CleanUp
<1>2. stage \in [Calls -> Stages] /\ events \in Seq(Calls)
  BY DEF TypeOK
<1>3. ASSUME UNCHANGED events, \A d \in Calls : Known(d) => Known(d)',
             \A d \in Calls : stage'[d] = "waiting" => stage[d] = "waiting" /\ d \in pending'
      PROVE  ReachInvariant'
  <2>1. \A d \in Calls : Carried(d) => Carried(d)'
    BY <1>1, <1>3 DEF Carried
  <2> QED
    BY <1>0, <1>1, <1>3, <2>1, KnownCalls, ReachSame
<1>4. \A d \in Calls : stage[d] = "waiting" => d \in pending
  BY DEF ReachInvariant, CardReachable
<1>5. CASE CallTool(c)
  <2>1. /\ UNCHANGED <<events, pending>> /\ stage[c] = "unused"
        /\ stage' = [stage EXCEPT ![c] = "sent"]
    BY <1>5 DEF CallTool
  <2>2. \A d \in Calls : Known(d) => Known(d)'
    BY <1>2, <2>1 DEF Known
  <2>3. \A d \in Calls : stage'[d] = "waiting" => stage[d] = "waiting" /\ d \in pending'
    BY <1>2, <1>4, <2>1
  <2> QED
    BY <1>3, <2>1, <2>2, <2>3
<1>6. CASE TimerElapses(c)
  <2>1. UNCHANGED <<events, pending>> /\ stage' = [stage EXCEPT ![c] = "elapsed"]
    BY <1>6 DEF TimerElapses
  <2>2. \A d \in Calls : Known(d) => Known(d)'
    BY <1>2, <2>1 DEF Known
  <2>3. \A d \in Calls : stage'[d] = "waiting" => stage[d] = "waiting" /\ d \in pending'
    BY <1>2, <1>4, <2>1
  <2> QED
    BY <1>3, <2>1, <2>2, <2>3
<1>7. CASE CleanUp(c)
  <2>1. /\ UNCHANGED events /\ stage' = [stage EXCEPT ![c] = "denied"]
        /\ pending' = pending \ {c}
    BY <1>7 DEF CleanUp
  <2>2. \A d \in Calls : Known(d) => Known(d)'
    BY <1>2, <2>1 DEF Known
  <2>3. \A d \in Calls : stage'[d] = "waiting" => stage[d] = "waiting" /\ d \in pending'
    BY <1>2, <1>4, <2>1
  <2> QED
    BY <1>3, <2>1, <2>2, <2>3
<1>8. CASE Handle(c)
  <2>1. stage[c] = "sent"
    BY <1>8 DEF Handle
  <2>2. CASE stage' = [stage EXCEPT ![c] = "waiting"]
             /\ pending' = pending \cup {c} /\ events' = Append(events, c)
    <3>1. Range(events') = Range(events) \cup {c}
      BY <1>2, <2>2, RangeOfAppend
    <3>2. \A d \in Calls : Known(d) => Known(d)'
      BY <1>2, <2>2 DEF Known
    <3>3. Known(c)'
      BY <1>2, <2>2 DEF Known
    <3>4. \A d \in Calls : stage'[d] = "waiting" => d \in pending' /\ (d # c => stage[d] = "waiting")
      BY <1>2, <1>4, <2>2
    <3>5. Handled'
      BY <1>0, <1>1, <3>1, <3>2, <3>3, KnownCalls DEF Handled
    <3>6. Decided'
      <4>1. \A i \in ipc : i.call # c /\ i.call \in Calls
        BY <1>0, <2>1, KnownCalls DEF Known
      <4> QED
        BY <1>1, <3>4, <4>1 DEF ReachInvariant, Decided
    <3>7. CardReachable'
      <4>1. \A d \in Calls : Carried(d) => Carried(d)'
        BY <1>1, <3>1 DEF Carried
      <4>2. Carried(c)'
        BY <3>1 DEF Carried
      <4> QED
        BY <1>1, <3>4, <4>1, <4>2 DEF ReachInvariant, CardReachable
    <3> QED
      BY <3>5, <3>6, <3>7 DEF ReachInvariant
  <2>3. CASE (stage' = [stage EXCEPT ![c] = "allowed"] \/ stage' = [stage EXCEPT ![c] = "denied"])
             /\ UNCHANGED <<pending, events>>
    <3>1. \A d \in Calls : Known(d) => Known(d)'
      BY <1>2, <2>3 DEF Known
    <3>2. \A d \in Calls : stage'[d] = "waiting" => stage[d] = "waiting" /\ d \in pending'
      BY <1>2, <1>4, <2>3
    <3> QED
      BY <1>3, <2>3, <3>1, <3>2
  <2> QED
    BY <1>8, <2>2, <2>3 DEF Handle
<1> QED
  BY <1>5, <1>6, <1>7, <1>8

LEMMA FrontendReach == TypeOK /\ ReachInvariant /\ Frontend => ReachInvariant'
<1> SUFFICES ASSUME TypeOK, ReachInvariant, Frontend PROVE ReachInvariant'
  OBVIOUS
<1> USE DEF serverVars, promptVars, questionVars
<1>0. Handled /\ Decided
  BY DEF ReachInvariant
<1>1. \A d \in Calls : stage[d] = "waiting" => d \in pending
  BY DEF ReachInvariant, CardReachable
<1>2. /\ \A d \in Range(events) \cup queue \cup batch : d \in Calls /\ Known(d)
      /\ \A i \in ipc : i.call \in Calls /\ Known(i.call)
      /\ \A s \in Sessions : question[s] # NoQuestion => question[s] \in Calls /\ Known(question[s])
  BY <1>0, KnownCalls
<1>3. CASE Deliver
  <2> DEFINE c == Head(events)
  <2>1. events \in Seq(Calls) /\ events # <<>> /\ events' = Tail(events)
        /\ UNCHANGED <<stage, pending, batch, life>>
    BY <1>3 DEF Deliver, TypeOK
  <2>2. Range(events) = Range(events') \cup {c}
    BY <2>1, RangeOfTail
  <2> HIDE DEF c
  <2>3. c \in Calls /\ Known(c) /\ c.session \in Sessions
    <3>1. c \in Calls /\ Known(c)
      BY <1>2, <2>2
    <3> QED
      BY <3>1 DEF Calls
  <2>4. \/ /\ c.tool = "question" /\ question' = [question EXCEPT ![c.session] = c]
           /\ UNCHANGED <<queue, ipc>>
        \/ /\ c.tool # "question" /\ ipc' = ipc \cup {Command(c, TRUE, "rule")}
           /\ UNCHANGED <<queue, question>>
        \/ /\ c.tool # "question" /\ queue' = queue \cup {c}
           /\ UNCHANGED <<ipc, question>>
    BY <1>3 DEF Deliver, c
  <2>5. Command(c, TRUE, "rule").call = c /\ ~Command(c, TRUE, "rule").done
    BY DEF Command
  <2>6. \A d \in Calls : d.tool # "question" /\ Carried(d) => Carried(d)'
    BY <2>2, <2>4, <2>5 DEF Carried
  <2>7. \A s \in Sessions : question'[s] # NoQuestion =>
          question'[s] \in Calls /\ Known(question'[s])
    BY <1>2, <2>3, <2>4 DEF TypeOK
  <2>8. \A d \in Calls : Known(d) => Known(d)'
    BY <2>1 DEF Known
  <2> QED
    BY <1>1, <1>2, <2>1, <2>2, <2>3, <2>4, <2>5, <2>6, <2>7, <2>8, ReachSame
<1> SUFFICES ASSUME NEW i \in ipc,
                    Arrive(i) \/ ResponseReturns(i) \/ BatchReturns(i) \/ AnswerReturns(i)
             PROVE  ReachInvariant'
  BY <1>3 DEF Frontend
<1>4. i \in Commands /\ i.call \in Calls /\ i.call.session \in Sessions /\ Known(i.call)
  <2>1. i \in Commands
    BY DEF TypeOK
  <2> QED
    BY <1>2, <2>1 DEF Commands, Calls
<1>5. CASE Arrive(i)
  <2> DEFINE k == [i EXCEPT !.done = TRUE]
  <2>1. k.call = i.call /\ k.from = i.from /\ k.done
    BY <1>4 DEF Commands
  <2>2. /\ UNCHANGED <<events, queue, batch, question, life>>
        /\ ipc' = ipc \ {i} \/ (ipc' = (ipc \ {i}) \cup {k} /\ i.from \notin {"rule", "cancel"})
        /\ i.from = "answer" => life[i.call.session] \in {"closing", "closed"}
                                \/ Resolve(i.call, i.ok)
        /\ i.from = "answer" /\ life[i.call.session] \in {"closing", "closed"} =>
             UNCHANGED <<stage, pending>>
        /\ i.from # "answer" => Resolve(i.call, i.ok)
    BY <1>5 DEF Arrive
  <2> HIDE DEF k
  <2>3. /\ UNCHANGED <<stage, pending>> /\ i.from = "answer"
           /\ life[i.call.session] \in {"closing", "closed"}
        \/ Resolve(i.call, i.ok)
    BY <2>2
  <2>4. /\ \A d \in Calls : Known(d) => Known(d)'
        /\ \A d \in Calls : stage'[d] = "waiting" => stage[d] = "waiting" /\ d \in pending'
        /\ stage'[i.call] = "waiting" =>
             i.from = "answer" /\ life[i.call.session] \in {"closing", "closed"}
    BY <1>1, <1>4, <2>3 DEF Resolve, Known, TypeOK
  <2>5. Handled'
    BY <1>2, <1>4, <2>1, <2>2, <2>4 DEF Handled
  <2>6. Decided'
    BY <1>0, <1>2, <1>4, <2>1, <2>2, <2>4 DEF Decided
  <2>7. CardReachable'
    <3> SUFFICES ASSUME NEW d \in Calls, stage'[d] = "waiting"
                 PROVE  /\ d \in pending'
                        /\ life'[d.session] = "live" /\ d.tool # "question" => Carried(d)'
      BY DEF CardReachable, Carried
    <3>1. stage[d] = "waiting" /\ d \in pending'
      BY <2>4
    <3>2. ASSUME life'[d.session] = "live", d.tool # "question" PROVE Carried(d)'
      <4>1. Carried(d)
        BY <2>2, <3>1, <3>2 DEF ReachInvariant, CardReachable
      <4>2. d # i.call
        BY <2>2, <2>4, <3>2
      <4> QED
        BY <2>2, <4>1, <4>2 DEF Carried
    <3> QED
      BY <3>1, <3>2
  <2> QED
    BY <2>5, <2>6, <2>7 DEF ReachInvariant
<1>6. ASSUME UNCHANGED <<stage, pending, events, life>>, i.done
      PROVE  /\ \A d \in Calls : Known(d) => Known(d)'
             /\ \A d \in Calls : stage'[d] = "waiting" => stage[d] = "waiting" /\ d \in pending'
  BY <1>1, <1>6 DEF Known
<1>7. CASE ResponseReturns(i)
  <2>1. /\ UNCHANGED <<stage, pending, events, batch, question, life>>
        /\ ipc' = ipc \ {i} /\ queue' = queue \ {i.call} /\ i.done /\ i.from = "click"
    BY <1>7 DEF ResponseReturns
  <2>2. \A d \in Calls : stage'[d] = "waiting" /\ Carried(d) => Carried(d)'
    BY <1>0, <2>1 DEF Decided, Carried
  <2> QED
    BY <1>2, <1>6, <2>1, <2>2, ReachSame
<1>8. CASE BatchReturns(i)
  <2>1. /\ UNCHANGED <<stage, pending, events, question, life>>
        /\ queue' = queue \ {i.call} /\ i.done /\ i.from = "all"
        /\ batch' \subseteq batch
        /\ \A k \in ipc' : k \in ipc \/ \E c \in batch : k = Command(c, TRUE, "all")
        /\ \A k \in ipc : k = i \/ k \in ipc'
    BY <1>8 DEF BatchReturns, SendNext
  <2>2. \A c : Command(c, TRUE, "all").call = c /\ ~Command(c, TRUE, "all").done
    BY DEF Command
  <2>3. \A d \in Calls : stage'[d] = "waiting" /\ Carried(d) => Carried(d)'
    BY <1>0, <2>1 DEF Decided, Carried
  <2>4. ASSUME NEW k \in ipc', k \notin ipc
        PROVE  k.call \in Calls /\ Known(k.call) /\ ~k.done
    <3>1. PICK c \in batch : k = Command(c, TRUE, "all")
      BY <2>1, <2>4
    <3>2. k.call = c /\ ~k.done
      BY <2>2, <3>1
    <3> QED
      BY <1>2, <3>2
  <2> QED
    BY <1>2, <1>6, <2>1, <2>3, <2>4, ReachSame
<1>9. CASE AnswerReturns(i)
  <2>1. /\ UNCHANGED <<stage, pending, events, queue, batch, life>>
        /\ ipc' = ipc \ {i} /\ i.done
        /\ question' = [question EXCEPT ![i.call.session] = NoQuestion]
    BY <1>9 DEF AnswerReturns
  <2>2. \A d \in Calls : Carried(d) => Carried(d)'
    BY <2>1 DEF Carried
  <2>3. \A s \in Sessions : question'[s] # NoQuestion =>
          question'[s] \in Calls /\ Known(question'[s])
    BY <1>2, <2>1 DEF TypeOK
  <2> QED
    BY <1>2, <1>6, <2>1, <2>2, <2>3, ReachSame
<1> QED
  BY <1>5, <1>7, <1>8, <1>9

LEMMA UserReach == TypeOK /\ ReachInvariant /\ User => ReachInvariant'
<1> SUFFICES ASSUME TypeOK, ReachInvariant, User PROVE ReachInvariant'
  OBVIOUS
<1> USE DEF serverVars, promptVars, questionVars
<1>1. Handled /\ \A d \in Calls : stage[d] = "waiting" => d \in pending
  BY DEF ReachInvariant, CardReachable
<1>2. /\ \A d \in Range(events) \cup queue \cup batch : d \in Calls /\ Known(d)
      /\ \A s \in Sessions : question[s] # NoQuestion => question[s] \in Calls /\ Known(question[s])
      /\ Displayed # NoQuestion => Displayed \in Calls /\ Known(Displayed)
  BY <1>1, KnownCalls
<1>3. \A c, ok, from : Command(c, ok, from).call = c /\ ~Command(c, ok, from).done
  BY DEF Command
<1>4. ASSUME UNCHANGED <<stage, pending, events, queue, life>>, batch' \subseteq queue \cup batch,
             ipc \subseteq ipc',
             \A k \in ipc' : k \in ipc \/ (k.call \in Calls /\ Known(k.call) /\ ~k.done),
             \A s \in Sessions : question'[s] # NoQuestion => question'[s] = question[s]
      PROVE  ReachInvariant'
  <2>1. \A d \in Calls : Known(d) => Known(d)'
    BY <1>4 DEF Known
  <2>2. \A d \in Calls : Carried(d) => Carried(d)'
    BY <1>4 DEF Carried
  <2> QED
    BY <1>1, <1>2, <1>4, <2>1, <2>2, ReachSame
<1>0. ASSUME NEW n, n.call \in Calls, Known(n.call), ~n.done, ipc' = ipc \cup {n}
      PROVE  /\ ipc \subseteq ipc'
             /\ \A k \in ipc' : k \in ipc \/ (k.call \in Calls /\ Known(k.call) /\ ~k.done)
  BY <1>0
<1>5. ASSUME NEW c \in queue, NEW ok \in BOOLEAN, NEW always \in BOOLEAN,
             Respond(c, ok, always)
      PROVE  ReachInvariant'
  BY <1>2, <1>3, <1>4, <1>5 DEF Respond
<1>6. CASE ApproveAll
  <2>1. PICK c \in queue : ipc' = ipc \cup {Command(c, TRUE, "all")} /\ batch' = queue \ {c}
    BY <1>6 DEF ApproveAll
  <2> DEFINE n == Command(c, TRUE, "all")
  <2>0. n.call = c /\ ~n.done
    BY <1>3
  <2>3. UNCHANGED <<stage, pending, events, queue, life, question>>
    BY <1>6 DEF ApproveAll
  <2>5. ipc' = ipc \cup {n}
    BY <2>1
  <2> HIDE DEF n
  <2>2. n.call \in Calls /\ Known(n.call)
    BY <1>2, <2>0
  <2>4. /\ ipc \subseteq ipc'
        /\ \A k \in ipc' : k \in ipc \/ (k.call \in Calls /\ Known(k.call) /\ ~k.done)
    BY <1>0, <2>0, <2>2, <2>5
  <2> QED
    BY <1>4, <2>1, <2>3, <2>4
<1>7. CASE AnswerPart
  <2>1. /\ UNCHANGED <<stage, pending, events, queue, batch, life, question>>
        /\ Displayed # NoQuestion
        /\ ipc' = ipc \/ ipc' = ipc \cup {Command(Displayed, TRUE, "answer")}
    BY <1>7 DEF AnswerPart
  <2> DEFINE n == Command(Displayed, TRUE, "answer")
  <2>2. n.call = Displayed /\ ~n.done
    BY <1>3
  <2>3. ipc' = ipc \/ ipc' = ipc \cup {n}
    BY <2>1
  <2> HIDE DEF n
  <2>4. n.call \in Calls /\ Known(n.call)
    <3>1. Displayed \in Calls /\ Known(Displayed)
      BY <1>2, <2>1
    <3> QED
      BY <2>2, <3>1
  <2>5. /\ ipc \subseteq ipc'
        /\ \A k \in ipc' : k \in ipc \/ (k.call \in Calls /\ Known(k.call) /\ ~k.done)
    BY <1>0, <2>2, <2>3, <2>4
  <2> QED
    BY <1>4, <2>1, <2>5
<1>8. CASE CancelQuestion
  <2>1. \A s \in Sessions : question'[s] # NoQuestion => question'[s] = question[s]
    BY <1>8 DEF CancelQuestion, TypeOK
  <2>2. /\ UNCHANGED <<stage, pending, events, queue, batch, life>> /\ Displayed # NoQuestion
        /\ ipc' = ipc \cup {Command(Displayed, FALSE, "cancel")}
    BY <1>8 DEF CancelQuestion
  <2> DEFINE n == Command(Displayed, FALSE, "cancel")
  <2>3. n.call = Displayed /\ ~n.done /\ ipc' = ipc \cup {n}
    BY <1>3, <2>2
  <2> HIDE DEF n
  <2>4. n.call \in Calls /\ Known(n.call)
    <3>1. Displayed \in Calls /\ Known(Displayed)
      BY <1>2, <2>2
    <3> QED
      BY <2>3, <3>1
  <2>5. /\ ipc \subseteq ipc'
        /\ \A k \in ipc' : k \in ipc \/ (k.call \in Calls /\ Known(k.call) /\ ~k.done)
    BY <1>0, <2>3, <2>4
  <2> QED
    BY <1>4, <2>1, <2>2, <2>5
<1>9. ASSUME NEW s \in Sessions, NEW m \in Modes, SetMode(s, m)
      PROVE  ReachInvariant'
  BY <1>4, <1>9 DEF SetMode
<1> QED
  BY <1>5, <1>6, <1>7, <1>8, <1>9 DEF User

\* A session's prompts go only when its calls are over, or will be before it lives
\* again.
LEMMA SessionLifeReach == TypeOK /\ ReachInvariant /\ SessionLife => ReachInvariant'
<1> SUFFICES ASSUME TypeOK, ReachInvariant, NEW s \in Ending,
                    Clear(s) \/ Cleared(s) \/ Interrupt(s) \/ Close(s) \/ Closed(s)
             PROVE  ReachInvariant'
  BY DEF SessionLife
<1> USE DEF serverVars, promptVars, questionVars
<1>1. Handled /\ \A d \in Calls : stage[d] = "waiting" => d \in pending
  BY DEF ReachInvariant, CardReachable
<1>2. /\ \A d \in Range(events) \cup queue \cup batch : d \in Calls /\ Known(d)
      /\ \A t \in Sessions : question[t] # NoQuestion => question[t] \in Calls /\ Known(question[t])
  BY <1>1, KnownCalls
<1>3. s \in Sessions /\ \A d \in Calls : d.session \in Sessions
  BY ApprovalsAssumption DEF Calls
<1>4. UNCHANGED <<pending, events, ipc, batch>>
  BY DEF Clear, ClearPrompts, Cleared, Interrupt, Close, Closed
<1>5. CASE Clear(s) \/ Closed(s)
  <2>1. /\ UNCHANGED stage /\ queue' = {c \in queue : c.session # s}
        /\ question' = [question EXCEPT ![s] = NoQuestion]
        /\ \/ life' = [life EXCEPT ![s] = "clearing"]
           \/ life' = [life EXCEPT ![s] = "closed"]
    BY <1>5 DEF Clear, Closed, ClearPrompts
  <2>2. \A d \in Calls : life'[d.session] = "live" => d.session # s /\ life[d.session] = "live"
    BY <1>3, <2>1 DEF TypeOK
  <2>3. \A d \in Calls : d.session # s /\ Carried(d) => Carried(d)'
    BY <1>4, <2>1 DEF Carried
  <2>4. \A t \in Sessions : question'[t] # NoQuestion => question'[t] = question[t]
    BY <1>3, <2>1 DEF TypeOK
  <2>5. \A d \in Calls : Known(d) => Known(d)'
    BY <2>1 DEF Known
  <2> QED
    BY <1>1, <1>2, <1>4, <2>1, <2>2, <2>3, <2>4, <2>5, ReachSame
<1>6. CASE Cleared(s) \/ Interrupt(s) \/ Close(s)
  <2>1. /\ UNCHANGED <<queue, question>> /\ DropCalls(s)
        /\ \A t \in Sessions \ {s} : life'[t] = life[t]
    BY <1>6 DEF Cleared, Interrupt, Close, TypeOK
  <2>2. /\ \A d \in Calls : Known(d) => Known(d)'
        /\ \A d \in Calls : stage'[d] = "waiting" => d.session # s /\ stage[d] = "waiting"
    BY <2>1 DEF DropCalls, Known, Outstanding
  <2>3. \A d \in Calls : Carried(d) => Carried(d)'
    BY <1>4, <2>1 DEF Carried
  <2>4. \A d \in Calls : stage'[d] = "waiting" /\ life'[d.session] = "live" =>
          life[d.session] = "live"
    BY <1>3, <2>1, <2>2
  <2> QED
    BY <1>1, <1>2, <1>4, <2>1, <2>2, <2>3, <2>4, ReachSame
<1> QED
  BY <1>5, <1>6

\* A call that waits and is no question is held by the server, and its prompt, an
\* event that will bring it or a decision of it is in the frontend's hands: for any
\* number of calls, sessions and clicks, whoever else's prompts are cleared.
THEOREM CardsAreReachable == Spec => []CardReachable
<1>1. Init => ReachInvariant
  <2> SUFFICES ASSUME Init PROVE ReachInvariant
    OBVIOUS
  <2>1. Range(events) = {}
    BY DEF Init, Range
  <2> QED
    BY <2>1 DEF Init, ReachInvariant, Handled, Decided, CardReachable
<1>2. TypeOK /\ ReachInvariant /\ [Next]_vars => ReachInvariant'
  <2>1. ReachInvariant /\ UNCHANGED vars => ReachInvariant'
    BY DEF ReachInvariant, Handled, Decided, CardReachable, Known, Carried, vars, serverVars,
           promptVars, questionVars
  <2> QED
    BY <2>1, ServerReach, FrontendReach, UserReach, SessionLifeReach DEF Next
<1>3. ReachInvariant => CardReachable
  BY DEF ReachInvariant
<1> QED
  BY <1>1, <1>2, <1>3, TypeCorrect, PTL DEF Spec

\* Where no questions are asked, no waiting call of a live session is out of the
\* user's reach.
THEOREM PromptsAreReachable ==
  ASSUME "question" \notin Tools
  PROVE  Spec => []PromptReachable
<1>1. CardReachable => PromptReachable
  <2>1. \A c \in Calls : c.tool # "question"
    BY DEF Calls
  <2> QED
    BY <2>1 DEF CardReachable, Carried, PromptReachable
<1> QED
  BY <1>1, CardsAreReachable, PTL

============================================================================
