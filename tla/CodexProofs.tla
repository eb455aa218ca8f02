---------------------------- MODULE CodexProofs ----------------------------
(***************************************************************************)
(* Theorems about the lock, the handle and the app-server of Codex: the    *)
(* types; an interrupt names no later turn (Aim), a forced stop kills none *)
(* (Current), a turn at work shows (AllTell), and a message goes out in    *)
(* the mode it was sent in (AllKeep).                                      *)
(***************************************************************************)
EXTENDS Codex, TLAPS

UiType == [busy : BOOLEAN, plan : BOOLEAN, lost : BOOLEAN, erred : BOOLEAN,
           stop : {"idle", "stopping", "forcing"}, upto : MaybeTurn]
Forced == [at : {"pausing", "killing", "spawning", "inserting", "done"}, upto : MaybeTurn]
HandleType == [held : BOOLEAN, writer : BOOLEAN, next : Nat,
               known : MaybeTurn, plan : BOOLEAN, native : BOOLEAN]
ServerType == [is : {"up", "wedged", "gone"}, todo : SUBSET Requests,
               turns : Seq(Turns), running : MaybeTurn, said : MaybeTurn,
               plan : BOOLEAN, lines : Seq(Notes \cup Replies), tasks : SUBSET Notes]

\* What each variable is, with the sets named.
LEMMA Types ==
  TypeOK <=> /\ ui \in [Sessions -> UiType]
             /\ forces \in [Sessions -> Seq(Forced)]
             /\ queue \in Seq(Commands)
             /\ handle \in [Sessions -> HandleType]
             /\ server \in [Sessions -> ServerType]
             /\ sends \in [Sessions -> MaybeTurn]
             /\ clicks \in 0 .. MaxClicks
BY DEF TypeOK, UiType, Forced, HandleType, ServerType

LEMMA TypesNext ==
  ASSUME ui' \in [Sessions -> UiType], forces' \in [Sessions -> Seq(Forced)],
         queue' \in Seq(Commands), handle' \in [Sessions -> HandleType],
         server' \in [Sessions -> ServerType], sends' \in [Sessions -> MaybeTurn],
         clicks' \in 0 .. MaxClicks
  PROVE  TypeOK'
BY DEF TypeOK, UiType, Forced, HandleType, ServerType

\* An order that is called becomes a command at the end of the line.
LEMMA CallTypes ==
  ASSUME queue \in Seq(Commands), NEW s \in Sessions, NEW o \in Orders, Call(s, o)
  PROVE  queue' \in Seq(Commands)
BY DEF Call, Commands

\* What happens at the head of the line leaves a line of commands.
LEMMA LineTypes ==
  ASSUME queue \in Seq(Commands), queue # <<>>
  PROVE  /\ Head(queue) \in Commands
         /\ Tail(queue) \in Seq(Commands)
         /\ Len(queue) \in Nat \ {0}
OBVIOUS

LEMMA SendTypes == ASSUME TypeOK, NEW s \in Sessions, Send(s) PROVE TypeOK'
<1> USE CodexAssumption
<1>1. ui' \in [Sessions -> UiType]
  <2>1. ui \in [Sessions -> UiType] /\ ui[s] \in UiType BY Types
  <2>2. [ui[s] EXCEPT !.busy = TRUE] \in UiType BY <2>1 DEF UiType
  <2>3. QED BY <2>1, <2>2 DEF Send
<1>2. sends' \in [Sessions -> MaybeTurn]
  BY Types DEF Send, MaybeTurn
<1>3. queue' \in Seq(Commands)
  <2> DEFINE o == [op |-> "send", turn |-> sends[s] + 1,
                   shown |-> ui[s].plan /\ ~ui[s].lost]
  <2>1. o \in Orders
    <3>1. sends[s] + 1 \in Turns BY Types DEF Send, Turns, MaybeTurn
    <3>2. QED BY <3>1 DEF Orders
  <2>2. Call(s, o) BY DEF Send
  <2>3. QED BY <2>1, <2>2, CallTypes, Types
<1>4. QED BY <1>1, <1>2, <1>3, Types DEF Send, TypeOK, UiType

LEMMA EscalateTypes ==
  ASSUME TypeOK, NEW s \in Sessions, Escalate(s), clicks' \in 0 .. MaxClicks PROVE TypeOK'
<1> USE CodexAssumption
<1>1. ui' \in [Sessions -> UiType]
  <2>1. ui \in [Sessions -> UiType] /\ ui[s] \in UiType BY Types
  <2>2. [ui[s] EXCEPT !.stop = "forcing"] \in UiType BY <2>1 DEF UiType
  <2>3. QED BY <2>1, <2>2 DEF Escalate
<1>2. forces' \in [Sessions -> Seq(Forced)]
  <2>1. [at |-> "pausing", upto |-> ui[s].upto] \in Forced
    BY Types DEF Forced, UiType
  <2>2. Append(forces[s], [at |-> "pausing", upto |-> ui[s].upto]) \in Seq(Forced)
    BY <2>1, Types
  <2>3. QED BY <2>2, Types DEF Escalate
<1>3. queue' \in Seq(Commands)
  <2>1. [op |-> "pause"] \in Orders BY DEF Orders
  <2>2. QED BY <2>1, CallTypes, Types DEF Escalate
<1>4. QED BY <1>1, <1>2, <1>3, Types DEF Escalate, TypeOK, UiType, Forced

LEMMA ClickTypes == ASSUME TypeOK, Click PROVE clicks' \in 0 .. MaxClicks
BY CodexAssumption DEF TypeOK, Click

LEMMA StopTypes == ASSUME TypeOK, NEW s \in Sessions, Stop(s) PROVE TypeOK'
<1>1. ui' \in [Sessions -> UiType]
  <2>1. ui \in [Sessions -> UiType] /\ ui[s] \in UiType BY Types
  <2>2. [ui[s] EXCEPT !.stop = "stopping", !.upto = sends[s]] \in UiType BY <2>1, Types DEF UiType
  <2>3. QED BY <2>1, <2>2 DEF Stop
<1>2. queue' \in Seq(Commands)
  <2>1. [op |-> "interrupt", upto |-> sends[s]] \in Orders BY Types DEF Orders
  <2>2. QED BY <2>1, CallTypes, Types DEF Stop
<1>3. QED BY <1>1, <1>2, ClickTypes, Types DEF Stop, TypeOK, UiType

LEMMA ToggleTypes == ASSUME TypeOK, NEW s \in Sessions, TogglePlan(s) PROVE TypeOK'
<1>1. ui' \in [Sessions -> UiType]
  <2>1. ui \in [Sessions -> UiType] /\ ui[s] \in UiType BY Types
  <2>2. [ui[s] EXCEPT !.plan = ~@, !.lost = FALSE] \in UiType BY <2>1 DEF UiType
  <2>3. QED BY <2>1, <2>2 DEF TogglePlan
<1>2. queue' \in Seq(Commands)
  <2>1. (~ui[s].plan) \in BOOLEAN BY Types DEF UiType
  <2>2. [op |-> "plan", on |-> ~ui[s].plan] \in Orders BY <2>1 DEF Orders
  <2>3. QED BY <2>2, CallTypes, Types DEF TogglePlan
<1>3. QED BY <1>1, <1>2, ClickTypes, Types DEF TogglePlan, TypeOK, UiType

\* A request that is asked keeps its place in the line and is known to the
\* app-server.
LEMMA AskTypes ==
  ASSUME TypeOK, queue # <<>>, NEW s \in Sessions, NEW r \in Requests, Ask(s, r)
  PROVE  /\ queue' \in Seq(Commands)
         /\ handle' \in [Sessions -> HandleType]
         /\ server' \in [Sessions -> ServerType]
<1>1. r.id \in Nat BY DEF Requests
<1>2. queue' \in Seq(Commands)
  <2>1. queue[1] \in Commands /\ 1 \in DOMAIN queue BY Types, LineTypes
  <2>2. [queue[1] EXCEPT !.id = r.id, !.at = "waiting"] \in Commands
    BY <1>1, <2>1 DEF Commands
  <2>3. queue' = [queue EXCEPT ![1] = [queue[1] EXCEPT !.id = r.id, !.at = "waiting"]]
    BY <2>1 DEF Ask
  <2>4. QED BY <2>1, <2>2, <2>3, Types
<1>3. handle' \in [Sessions -> HandleType]
  <2>1. handle[s] \in HandleType /\ handle[s].next + 1 \in Nat BY Types DEF HandleType
  <2>2. [handle[s] EXCEPT !.next = @ + 1] \in HandleType BY <2>1 DEF HandleType
  <2>3. QED BY <2>2, Types DEF Ask
<1>4. server' \in [Sessions -> ServerType]
  <2>1. server \in [Sessions -> ServerType] /\ server[s] \in ServerType BY Types
  <2>2. server[s].todo \cup {r} \in SUBSET Requests BY <2>1 DEF ServerType
  <2>3. [server[s] EXCEPT !.todo = @ \cup {r}] \in ServerType BY <2>1, <2>2 DEF ServerType
  <2>4. QED BY <2>1, <2>3 DEF Ask
<1>5. QED BY <1>2, <1>3, <1>4

LEMMA ReleaseTypes == ASSUME TypeOK, queue # <<>>, Release PROVE queue' \in Seq(Commands)
BY Types, LineTypes DEF Release

\* What the head of the line is when its order is of a kind.
LEMMA HeadTypes ==
  ASSUME TypeOK, queue # <<>>
  PROVE  /\ Head(queue).order \in Orders /\ Head(queue).s \in Sessions
         /\ Head(queue).order.op = "send" =>
              Head(queue).order.turn \in Turns /\ Head(queue).order.shown \in BOOLEAN
         /\ Head(queue).order.op = "interrupt" => Head(queue).order.upto \in MaybeTurn
         /\ Head(queue).order.op = "plan" => Head(queue).order.on \in BOOLEAN
<1>1. Head(queue) \in Commands BY Types, LineTypes
<1>2. Head(queue).order \in Orders /\ Head(queue).s \in Sessions BY <1>1 DEF Commands
<1>3. QED BY <1>2 DEF Orders

LEMMA SendStartsTypes == ASSUME TypeOK, NEW s \in Sessions, SendStarts(s) PROVE TypeOK'
<1>1. queue # <<>> BY DEF SendStarts, Takes
<1>2. CASE Reaches(s)
  <2> DEFINE r == TurnRequest(s, Head(queue).order)
  <2>1. r \in Requests
    <3>1. Head(queue).order.turn \in Turns /\ Head(queue).order.shown \in BOOLEAN
      BY <1>1, HeadTypes DEF SendStarts, Takes
    <3>2. handle[s].next \in Nat /\ handle[s].plan \in BOOLEAN /\ handle[s].native \in BOOLEAN
          /\ ui[s].lost \in BOOLEAN
      BY Types DEF HandleType, UiType
    <3>3. QED BY <3>1, <3>2 DEF TurnRequest, Requests
  <2>2. Ask(s, r) BY <1>2 DEF SendStarts
  <2>3. QED BY <1>1, <2>1, <2>2, AskTypes, Types, TypesNext DEF SendStarts
<1>3. CASE ~Reaches(s)
  BY <1>1, <1>3, ReleaseTypes, Types, TypesNext DEF SendStarts
<1>4. QED BY <1>2, <1>3

LEMMA InterruptStartsTypes ==
  ASSUME TypeOK, NEW s \in Sessions, InterruptStarts(s) PROVE TypeOK'
<1>1. queue # <<>> BY DEF InterruptStarts, Takes
<1>2. CASE Reaches(s) /\ handle[s].known # 0
  <2> DEFINE r == [id |-> handle[s].next, op |-> "interrupt", turn |-> handle[s].known,
                   upto |-> Head(queue).order.upto]
  <2>1. r \in Requests
    <3>1. Head(queue).order.upto \in MaybeTurn
      BY <1>1, HeadTypes DEF InterruptStarts, Takes
    <3>2. handle[s].next \in Nat /\ handle[s].known \in Turns
      BY <1>2, Types, CodexAssumption DEF HandleType, MaybeTurn, Turns
    <3>3. QED BY <3>1, <3>2 DEF Requests
  <2>2. Ask(s, r) BY <1>2 DEF InterruptStarts
  <2>3. QED BY <1>1, <2>1, <2>2, AskTypes, Types, TypesNext DEF InterruptStarts
<1>3. CASE ~(Reaches(s) /\ handle[s].known # 0)
  BY <1>1, <1>3, ReleaseTypes, Types, TypesNext DEF InterruptStarts
<1>4. QED BY <1>2, <1>3

LEMMA PlanStartsTypes == ASSUME TypeOK, NEW s \in Sessions, PlanStarts(s) PROVE TypeOK'
<1> DEFINE on == Head(queue).order.on
           r == [id |-> handle[s].next, op |-> "settings", on |-> on]
<1>1. queue # <<>> /\ on \in BOOLEAN BY HeadTypes DEF PlanStarts, Takes
<1>2. handle[s].next \in Nat BY Types DEF HandleType
<1> HIDE DEF on
<1>3. r \in Requests BY <1>1, <1>2 DEF Requests
<1>4. CASE Reaches(s)
  <2>1. /\ server' = [server EXCEPT ![s].todo = @ \cup {r}]
        /\ handle' = [handle EXCEPT ![s].plan = on, ![s].next = @ + 1]
        /\ queue' = [queue EXCEPT ![1].id = handle[s].next, ![1].at = "waiting"]
        /\ UNCHANGED <<ui, forces, sends, clicks>>
    BY <1>4 DEF PlanStarts, Reaches, on
  <2>2. server[s].todo \cup {r} \in SUBSET Requests BY <1>3, Types DEF ServerType
  <2>3. server' \in [Sessions -> ServerType]
    <3>1. server \in [Sessions -> ServerType] /\ server[s] \in ServerType BY Types
    <3>2. [server[s] EXCEPT !.todo = @ \cup {r}] \in ServerType
      BY <2>2, <3>1 DEF ServerType
    <3>3. QED BY <2>1, <3>1, <3>2
  <2>4. handle' \in [Sessions -> HandleType]
    <3>1. handle[s] \in HandleType /\ handle[s].next + 1 \in Nat BY Types DEF HandleType
    <3>2. [handle[s] EXCEPT !.plan = on, !.next = @ + 1] \in HandleType
      BY <1>1, <3>1 DEF HandleType
    <3>3. QED BY <2>1, <3>2, Types
  <2>5. queue' \in Seq(Commands)
    <3>1. queue[1] \in Commands /\ 1 \in DOMAIN queue BY <1>1, Types, LineTypes
    <3>2. [queue[1] EXCEPT !.id = handle[s].next, !.at = "waiting"] \in Commands
      BY <1>2, <3>1 DEF Commands
    <3>3. queue' = [queue EXCEPT ![1] = [queue[1] EXCEPT !.id = handle[s].next,
                                                         !.at = "waiting"]]
      BY <2>1, <3>1
    <3>4. QED BY <3>1, <3>2, <3>3, Types
  <2>6. QED BY <2>1, <2>3, <2>4, <2>5, Types, TypesNext
<1>5. CASE handle[s].held /\ ~handle[s].writer
  <2>1. /\ handle' = [handle EXCEPT ![s].plan = on, ![s].native = FALSE]
        /\ ui' = [ui EXCEPT ![s].plan = on]
        /\ Release
        /\ UNCHANGED <<server, forces, sends, clicks>>
    BY <1>5 DEF PlanStarts, Reaches, on
  <2>2. handle' \in [Sessions -> HandleType] BY <1>1, <2>1, Types DEF HandleType
  <2>3. ui' \in [Sessions -> UiType]
    <3>1. ui \in [Sessions -> UiType] /\ ui[s] \in UiType BY Types
    <3>2. [ui[s] EXCEPT !.plan = on] \in UiType BY <1>1, <3>1 DEF UiType
    <3>3. QED BY <2>1, <3>1, <3>2
  <2>4. QED BY <1>1, <2>1, <2>2, <2>3, ReleaseTypes, Types, TypesNext
<1>6. CASE ~handle[s].held
  <2>1. /\ ui' = [ui EXCEPT ![s].plan = ~on]
        /\ Release
        /\ UNCHANGED <<handle, server, forces, sends, clicks>>
    BY <1>6 DEF PlanStarts, Reaches, on
  <2>2. ui' \in [Sessions -> UiType]
    <3>1. ui \in [Sessions -> UiType] /\ ui[s] \in UiType BY Types
    <3>2. [ui[s] EXCEPT !.plan = ~on] \in UiType BY <1>1, <3>1 DEF UiType
    <3>3. QED BY <2>1, <3>1, <3>2
  <2>3. QED BY <1>1, <2>1, <2>2, ReleaseTypes, Types, TypesNext
<1>7. QED BY <1>4, <1>5, <1>6 DEF Reaches

LEMMA AckTypes == ASSUME TypeOK, NEW s \in Sessions, AckTimesOut(s) PROVE TypeOK'
BY ReleaseTypes, Types, TypesNext DEF AckTimesOut

\* A forced stop that moves on or leaves is still a sequence of forced stops.
LEMMA MovesTypes ==
  ASSUME TypeOK, NEW s \in Sessions, NEW i \in DOMAIN forces[s],
         NEW to \in {"pausing", "killing", "spawning", "inserting", "done"}, Moves(s, i, to)
  PROVE  forces' \in [Sessions -> Seq(Forced)]
<1>1. forces[s] \in Seq(Forced) /\ forces[s][i] \in Forced BY Types
<1>2. [forces[s][i] EXCEPT !.at = to] \in Forced BY <1>1 DEF Forced
<1>3. [forces[s] EXCEPT ![i] = [forces[s][i] EXCEPT !.at = to]] \in Seq(Forced) BY <1>1, <1>2
<1>4. QED BY <1>3, Types DEF Moves

LEMMA LeavesTypes ==
  ASSUME TypeOK, NEW s \in Sessions, NEW i \in DOMAIN forces[s], Leaves(s, i)
  PROVE  forces' \in [Sessions -> Seq(Forced)]
<1>1. forces[s] \in Seq(Forced) BY Types
<1>2. SubSeq(forces[s], 1, i - 1) \o SubSeq(forces[s], i + 1, Len(forces[s])) \in Seq(Forced)
  BY <1>1
<1>3. QED BY <1>2, Types DEF Leaves

LEMMA PauseTypes == ASSUME TypeOK, NEW s \in Sessions, PauseTakes(s) PROVE TypeOK'
<1>1. forces' \in [Sessions -> Seq(Forced)] BY MovesTypes DEF PauseTakes
<1>2. handle' \in [Sessions -> HandleType] BY Types DEF PauseTakes, HandleType
<1>3. queue' \in Seq(Commands) BY ReleaseTypes DEF PauseTakes, Takes
<1>4. QED BY <1>1, <1>2, <1>3, Types, TypesNext DEF PauseTakes

LEMMA GoneTypes ==
  ASSUME TypeOK, NEW s \in Sessions,
         server' = [server EXCEPT ![s].is = "gone", ![s].running = 0, ![s].turns = <<>>]
  PROVE  server' \in [Sessions -> ServerType]
<1>1. server[s] \in ServerType /\ 0 \in MaybeTurn /\ <<>> \in Seq(Turns)
  BY Types, CodexAssumption DEF MaybeTurn
<1>2. [server[s] EXCEPT !.is = "gone", !.running = 0, !.turns = <<>>] \in ServerType
  BY <1>1 DEF ServerType
<1>3. QED BY <1>2, Types

LEMMA KilledTypes == ASSUME TypeOK, NEW s \in Sessions, Killed(s) PROVE TypeOK'
<1>1. forces' \in [Sessions -> Seq(Forced)] BY MovesTypes DEF Killed
<1>2. server' \in [Sessions -> ServerType] BY GoneTypes DEF Killed
<1>3. QED BY <1>1, <1>2, Types, TypesNext DEF Killed

LEMMA SpawnedTypes == ASSUME TypeOK, NEW s \in Sessions, Spawned(s) PROVE TypeOK'
<1>1. forces' \in [Sessions -> Seq(Forced)] BY MovesTypes DEF Spawned
<1>2. queue' \in Seq(Commands)
  <2>1. [op |-> "insert"] \in Orders BY DEF Orders
  <2>2. QED BY <2>1, CallTypes, Types DEF Spawned
<1>3. QED BY <1>1, <1>2, Types, TypesNext DEF Spawned

LEMMA SpawnFailsTypes == ASSUME TypeOK, NEW s \in Sessions, SpawnFails(s) PROVE TypeOK'
<1>1. forces' \in [Sessions -> Seq(Forced)] BY LeavesTypes DEF SpawnFails
<1>2. ui' \in [Sessions -> UiType] BY Types DEF SpawnFails, UiType
<1>3. QED BY <1>1, <1>2, Types, TypesNext DEF SpawnFails

\* A process that is new is of the type of any other.
LEMMA NewTypes == NewHandle \in HandleType /\ NewServer \in ServerType
<1>1. NewHandle \in HandleType BY CodexAssumption DEF NewHandle, HandleType, MaybeTurn
<1>2. NewServer \in ServerType BY CodexAssumption DEF NewServer, ServerType, MaybeTurn
<1>3. QED BY <1>1, <1>2

LEMMA InsertTypes == ASSUME TypeOK, NEW s \in Sessions, InsertTakes(s) PROVE TypeOK'
<1>1. forces' \in [Sessions -> Seq(Forced)] BY MovesTypes DEF InsertTakes
<1>2. handle' \in [Sessions -> HandleType] /\ server' \in [Sessions -> ServerType]
  BY NewTypes, Types DEF InsertTakes
<1>3. ui' \in [Sessions -> UiType] BY Types DEF InsertTakes, UiType
<1>4. queue' \in Seq(Commands) BY ReleaseTypes DEF InsertTakes, Takes
<1>5. QED BY <1>1, <1>2, <1>3, <1>4, Types, TypesNext DEF InsertTakes

LEMMA ReturnsTypes == ASSUME TypeOK, NEW s \in Sessions, Returns(s) PROVE TypeOK'
<1>1. forces' \in [Sessions -> Seq(Forced)] BY LeavesTypes DEF Returns
<1>2. ui' \in [Sessions -> UiType] BY Types DEF Returns, Unbusy, UiType
<1>3. QED BY <1>1, <1>2, Types, TypesNext DEF Returns

\* A line that is written leaves lines.
LEMMA WrittenTypes ==
  ASSUME NEW v \in ServerType, NEW n \in Notes \cup Replies
  PROVE  Append(v.lines, n) \in Seq(Notes \cup Replies)
BY DEF ServerType

LEMMA PairTypes == ASSUME NEW S, NEW a \in S, NEW b \in S PROVE <<a, b>> \in Seq(S)
OBVIOUS

LEMMA AnswerTypes == ASSUME TypeOK, NEW s \in Sessions, Answer(s) PROVE TypeOK'
<1>1. PICK r \in server[s].todo, ok \in BOOLEAN :
        LET lacks == [server[s] EXCEPT !.todo = @ \ {r}]
             does ==
               CASE r.op = "turn" ->
                      [lacks EXCEPT !.turns = Append(@, r.turn), !.lines = Append(@, Reply(r, TRUE))]
                 [] r.op = "interrupt" ->
                      [lacks EXCEPT !.running = 0,
                                    !.lines = @ \o <<Reply(r, TRUE),
                                                    [kind |-> "completed", turn |-> r.turn]>>]
                 [] r.op = "settings" ->
                      [lacks EXCEPT !.plan = r.on,
                                    !.lines = @ \o <<[kind |-> "plan", on |-> r.on],
                                                     Reply(r, TRUE)>>]
        IN server' = [server EXCEPT ![s] =
                            IF ok THEN does
                                  ELSE [lacks EXCEPT !.lines = Append(@, Reply(r, FALSE))]]
  BY DEF Answer
<1> DEFINE lacks == [server[s] EXCEPT !.todo = @ \ {r}]
<1>2. r \in Requests /\ server[s] \in ServerType BY Types DEF ServerType
<1>3. lacks \in ServerType BY <1>2 DEF ServerType
<1>4. r.id \in Nat /\ r.op \in {"turn", "interrupt", "settings"}
      /\ (r.op \in {"turn", "interrupt"} => r.turn \in Turns)
      /\ (r.op = "settings" => r.on \in BOOLEAN)
  BY <1>2 DEF Requests
<1>5. \A yes \in BOOLEAN : Reply(r, yes) \in Notes \cup Replies
  BY <1>4 DEF Reply, Replies
<1> HIDE DEF lacks
<1>6. CASE ~ok
  <2>1. server' = [server EXCEPT ![s] = [lacks EXCEPT !.lines = Append(@, Reply(r, FALSE))]]
    BY <1>1, <1>6 DEF lacks
  <2>2. Append(lacks.lines, Reply(r, FALSE)) \in Seq(Notes \cup Replies)
    BY <1>3, <1>5, WrittenTypes
  <2>3. [lacks EXCEPT !.lines = Append(@, Reply(r, FALSE))] \in ServerType
    BY <1>3, <2>2 DEF ServerType
  <2>4. server' \in [Sessions -> ServerType] BY <2>1, <2>3, Types
  <2>5. QED BY <2>4, Types, TypesNext DEF Answer
<1>7. CASE ok /\ r.op = "turn"
  <2>1. server' = [server EXCEPT ![s] = [lacks EXCEPT !.turns = Append(@, r.turn),
                                                      !.lines = Append(@, Reply(r, TRUE))]]
    BY <1>1, <1>7 DEF lacks
  <2>2. Append(lacks.lines, Reply(r, TRUE)) \in Seq(Notes \cup Replies)
    BY <1>3, <1>5, WrittenTypes
  <2>3. Append(lacks.turns, r.turn) \in Seq(Turns) BY <1>3, <1>4, <1>7 DEF ServerType
  <2>4. [lacks EXCEPT !.turns = Append(@, r.turn), !.lines = Append(@, Reply(r, TRUE))]
          \in ServerType
    BY <1>3, <2>2, <2>3 DEF ServerType
  <2>5. server' \in [Sessions -> ServerType] BY <2>1, <2>4, Types
  <2>6. QED BY <2>5, Types, TypesNext DEF Answer
<1>8. CASE ok /\ r.op = "interrupt"
  <2> DEFINE more == <<Reply(r, TRUE), [kind |-> "completed", turn |-> r.turn]>>
  <2>1. server' = [server EXCEPT ![s] = [lacks EXCEPT !.running = 0, !.lines = @ \o more]]
    BY <1>1, <1>8 DEF lacks
  <2>2. [kind |-> "completed", turn |-> r.turn] \in Notes BY <1>4, <1>8 DEF Notes
  <2>3. more \in Seq(Notes \cup Replies) BY <1>5, <2>2, PairTypes
  <2> HIDE DEF more
  <2>4. lacks.lines \o more \in Seq(Notes \cup Replies) BY <1>3, <2>3 DEF ServerType
  <2>5. 0 \in MaybeTurn BY CodexAssumption DEF MaybeTurn
  <2>8. [lacks EXCEPT !.running = 0, !.lines = @ \o more] \in ServerType
    BY <1>3, <2>4, <2>5 DEF ServerType
  <2>6. server' \in [Sessions -> ServerType] BY <2>1, <2>8, Types
  <2>7. QED BY <2>6, Types, TypesNext DEF Answer
<1>9. CASE ok /\ r.op = "settings"
  <2> DEFINE more == <<[kind |-> "plan", on |-> r.on], Reply(r, TRUE)>>
  <2>1. server' = [server EXCEPT ![s] = [lacks EXCEPT !.plan = r.on, !.lines = @ \o more]]
    BY <1>1, <1>9 DEF lacks
  <2>2. [kind |-> "plan", on |-> r.on] \in Notes BY <1>4, <1>9 DEF Notes
  <2>3. more \in Seq(Notes \cup Replies) BY <1>5, <2>2, PairTypes
  <2> HIDE DEF more
  <2>4. lacks.lines \o more \in Seq(Notes \cup Replies) BY <1>3, <2>3 DEF ServerType
  <2>5. [lacks EXCEPT !.plan = r.on, !.lines = @ \o more] \in ServerType
    BY <1>3, <1>4, <1>9, <2>4 DEF ServerType
  <2>6. server' \in [Sessions -> ServerType] BY <2>1, <2>5, Types
  <2>7. QED BY <2>6, Types, TypesNext DEF Answer
<1>10. QED BY <1>4, <1>6, <1>7, <1>8, <1>9

\* What a turn writes is a note.
LEMMA NoticeTypes ==
  ASSUME NEW kind \in {"started", "delta", "completed"}, NEW turn \in Turns
  PROVE  Notice(kind, turn) \in Notes
BY DEF Notice, Notes

LEMMA RunningTypes ==
  ASSUME TypeOK, NEW s \in Sessions, server[s].running # 0 PROVE server[s].running \in Turns
<1>1. server[s].running \in MaybeTurn BY Types DEF ServerType
<1>2. QED BY <1>1, CodexAssumption DEF MaybeTurn, Turns

LEMMA TurnStartsTypes == ASSUME TypeOK, NEW s \in Sessions, TurnStarts(s) PROVE TypeOK'
<1> DEFINE v == server[s]
           turn == Head(v.turns)
<1>1. v \in ServerType BY Types
<1>2. turn \in Turns /\ Tail(v.turns) \in Seq(Turns)
  BY <1>1 DEF TurnStarts, ServerType
<1>3. Append(v.lines, Notice("started", turn)) \in Seq(Notes \cup Replies)
  BY <1>1, <1>2, NoticeTypes, WrittenTypes
<1>4. turn \in MaybeTurn BY <1>2, CodexAssumption DEF Turns, MaybeTurn
<1>5. [v EXCEPT !.running = turn, !.turns = Tail(@), !.lines = Append(@, Notice("started", turn))]
        \in ServerType
  BY <1>1, <1>2, <1>3, <1>4 DEF ServerType
<1>6. server' \in [Sessions -> ServerType] BY <1>5, Types DEF TurnStarts
<1>7. QED BY <1>6, Types, TypesNext DEF TurnStarts

LEMMA DeltaTypes == ASSUME TypeOK, NEW s \in Sessions, Delta(s) PROVE TypeOK'
<1> DEFINE v == server[s]
<1>1. v \in ServerType BY Types
<1>2. v.running \in Turns /\ v.running \in MaybeTurn
  BY <1>1, RunningTypes DEF Delta, ServerType
<1>3. Append(v.lines, Notice("delta", v.running)) \in Seq(Notes \cup Replies)
  BY <1>1, <1>2, NoticeTypes, WrittenTypes
<1>4. [v EXCEPT !.said = v.running, !.lines = Append(@, Notice("delta", v.running))]
        \in ServerType
  BY <1>1, <1>2, <1>3 DEF ServerType
<1>5. server' \in [Sessions -> ServerType] BY <1>4, Types DEF Delta
<1>6. QED BY <1>5, Types, TypesNext DEF Delta

LEMMA TurnEndsTypes == ASSUME TypeOK, NEW s \in Sessions, TurnEnds(s) PROVE TypeOK'
<1> DEFINE v == server[s]
<1>1. v \in ServerType BY Types
<1>2. v.running \in Turns /\ 0 \in MaybeTurn
  BY RunningTypes, CodexAssumption DEF TurnEnds, MaybeTurn
<1>3. Append(v.lines, Notice("completed", v.running)) \in Seq(Notes \cup Replies)
  BY <1>1, <1>2, NoticeTypes, WrittenTypes
<1>4. [v EXCEPT !.running = 0, !.lines = Append(@, Notice("completed", v.running))]
        \in ServerType
  BY <1>1, <1>2, <1>3 DEF ServerType
<1>5. server' \in [Sessions -> ServerType] BY <1>4, Types DEF TurnEnds
<1>6. QED BY <1>5, Types, TypesNext DEF TurnEnds

LEMMA ErrorTypes == [kind |-> "error"] \in Notes
BY DEF Notes

LEMMA ErrsTypes == ASSUME TypeOK, NEW s \in Sessions, Errs(s) PROVE TypeOK'
<1> DEFINE v == server[s]
<1>1. v \in ServerType BY Types
<1>2. Append(v.lines, [kind |-> "error"]) \in Seq(Notes \cup Replies)
  BY <1>1, ErrorTypes, WrittenTypes
<1>3. [v EXCEPT !.lines = Append(@, [kind |-> "error"])] \in ServerType
  BY <1>1, <1>2 DEF ServerType
<1>4. server' \in [Sessions -> ServerType] BY <1>3, Types DEF Errs
<1>5. QED BY <1>4, Types, TypesNext DEF Errs

LEMMA FailureTypes ==
  ASSUME TypeOK, NEW s \in Sessions, Wedge(s) \/ Exit(s) \/ WriterFails(s) PROVE TypeOK'
<1>1. CASE Wedge(s)
  <2>1. [server[s] EXCEPT !.is = "wedged"] \in ServerType BY Types DEF ServerType
  <2>2. server' \in [Sessions -> ServerType] BY <1>1, <2>1, Types DEF Wedge
  <2>3. QED BY <1>1, <2>2, Types, TypesNext DEF Wedge
<1>2. CASE Exit(s)
  BY <1>2, GoneTypes, Types, TypesNext DEF Exit
<1>3. CASE WriterFails(s)
  <2>1. handle' \in [Sessions -> HandleType] BY <1>3, Types DEF WriterFails, HandleType
  <2>2. QED BY <1>3, <2>1, Types, TypesNext DEF WriterFails
<1>4. QED BY <1>1, <1>2, <1>3

LEMMA ReadTypes == ASSUME TypeOK, NEW s \in Sessions, Read(s) PROVE TypeOK'
<1> DEFINE v == server[s]
           line == Head(v.lines)
           rest == [v EXCEPT !.lines = Tail(@)]
<1>1. v \in ServerType BY Types
<1>2. line \in Notes \cup Replies /\ Tail(v.lines) \in Seq(Notes \cup Replies)
  BY <1>1 DEF Read, ServerType
<1>3. rest \in ServerType BY <1>1, <1>2 DEF ServerType
<1>4. UNCHANGED <<forces, sends, clicks>> BY DEF Read
<1>5. CASE line.kind = "reply"
  <2>1. line \in Replies BY <1>2, <1>5 DEF Notes
  <2>2. server' \in [Sessions -> ServerType] BY <1>3, <1>5, Types DEF Read
  <2>3. CASE Awaits(s, line.id)
    <3>1. Resume(s, line.ok) BY <1>5, <2>3 DEF Read
    <3>2. line.ok \in BOOLEAN BY <2>1 DEF Replies
    <3>3. queue # <<>> /\ queue' \in Seq(Commands)
      BY <2>3, <3>1, ReleaseTypes DEF Awaits, Resume
    <3>4. CASE Head(queue).order.op = "plan"
      <4>1. Head(queue).order.on \in BOOLEAN BY <3>3, <3>4, HeadTypes
      <4> DEFINE on == Head(queue).order.on
      <4>5. /\ handle' = [handle EXCEPT ![s].native = on /\ line.ok]
            /\ ui' = [ui EXCEPT ![s].plan = on]
        BY <3>1, <3>4 DEF Resume
      <4>6. on \in BOOLEAN /\ (on /\ line.ok) \in BOOLEAN BY <3>2, <4>1
      <4>7. [handle[s] EXCEPT !.native = on /\ line.ok] \in HandleType
        BY <4>6, Types DEF HandleType
      <4>8. [ui[s] EXCEPT !.plan = on] \in UiType BY <4>6, Types DEF UiType
      <4>2. handle' \in [Sessions -> HandleType] BY <4>5, <4>7, Types
      <4>3. ui' \in [Sessions -> UiType] BY <4>5, <4>8, Types
      <4>4. QED BY <1>4, <2>2, <3>3, <4>2, <4>3, Types, TypesNext
    <3>5. CASE Head(queue).order.op # "plan"
      BY <1>4, <2>2, <3>1, <3>3, <3>5, Types, TypesNext DEF Resume
    <3>6. QED BY <3>4, <3>5
  <2>4. CASE ~Awaits(s, line.id)
    <3>1. UNCHANGED <<ui, queue, handle>> BY <1>5, <2>4 DEF Read
    <3>2. QED BY <1>4, <2>2, <3>1, Types, TypesNext
  <2>5. QED BY <2>3, <2>4
<1>6. CASE line.kind # "reply"
  <2>1. line \in Notes BY <1>2, <1>6 DEF Replies
  <2>2. server' = [server EXCEPT ![s] = [rest EXCEPT !.tasks = @ \cup {line}]]
        /\ UNCHANGED <<ui, queue, handle>>
    BY <1>6 DEF Read
  <2> HIDE DEF rest, line
  <2>3. [rest EXCEPT !.tasks = @ \cup {line}] \in ServerType BY <1>3, <2>1 DEF ServerType
  <2>4. server' \in [Sessions -> ServerType] BY <2>2, <2>3, Types
  <2>5. QED BY <1>4, <2>2, <2>4, Types, TypesNext
<1>7. QED BY <1>5, <1>6

LEMMA HandleTypes == ASSUME TypeOK, NEW s \in Sessions, Handle(s) PROVE TypeOK'
<1>1. PICK note \in server[s].tasks :
         /\ server' = [server EXCEPT ![s].tasks = @ \ {note}]
         /\ handle' = [handle EXCEPT ![s].known = CASE note.kind = "started" -> note.turn
                                                   [] note.kind = "completed" -> 0
                                                   [] OTHER -> @]
         /\ ui' = [ui EXCEPT ![s] = CASE note.kind = "completed" -> Unbusy(@)
                                      [] note.kind = "delta" -> [@ EXCEPT !.busy = TRUE]
                                      [] note.kind = "error" -> [Unbusy(@) EXCEPT !.erred = TRUE]
                                      [] note.kind = "plan" -> [@ EXCEPT !.plan = note.on]
                                      [] OTHER -> @]
  BY DEF Handle
<1>2. note \in Notes BY Types DEF ServerType
<1>3. (note.kind = "started" => note.turn \in MaybeTurn)
      /\ (note.kind = "plan" => note.on \in BOOLEAN) /\ 0 \in MaybeTurn
  BY <1>2, CodexAssumption DEF Notes, Turns, MaybeTurn
<1>4. server' \in [Sessions -> ServerType]
  <2>1. [server[s] EXCEPT !.tasks = @ \ {note}] \in ServerType BY Types DEF ServerType
  <2>2. QED BY <1>1, <2>1, Types
<1>5. handle' \in [Sessions -> HandleType]
  <2> DEFINE to == CASE note.kind = "started" -> note.turn
                     [] note.kind = "completed" -> 0
                     [] OTHER -> handle[s].known
  <2>1. to \in MaybeTurn
    <3>1. handle[s].known \in MaybeTurn BY Types DEF HandleType
    <3>2. QED BY <1>3, <3>1
  <2>2. handle' = [handle EXCEPT ![s].known = to] BY <1>1
  <2> HIDE DEF to
  <2>3. QED BY <2>1, <2>2, Types DEF HandleType
<1>6. ui' \in [Sessions -> UiType]
  <2> DEFINE to == CASE note.kind = "completed" -> Unbusy(ui[s])
                     [] note.kind = "delta" -> [ui[s] EXCEPT !.busy = TRUE]
                     [] note.kind = "error" -> [Unbusy(ui[s]) EXCEPT !.erred = TRUE]
                     [] note.kind = "plan" -> [ui[s] EXCEPT !.plan = note.on]
                     [] OTHER -> ui[s]
  <2>1. to \in UiType
    <3>1. ui[s] \in UiType BY Types
    <3>2. Unbusy(ui[s]) \in UiType BY <3>1 DEF Unbusy, UiType
    <3>3. [ui[s] EXCEPT !.busy = TRUE] \in UiType BY <3>1 DEF UiType
    <3>4. note.kind = "plan" => [ui[s] EXCEPT !.plan = note.on] \in UiType
      BY <1>3, <3>1 DEF UiType
    <3>5. [Unbusy(ui[s]) EXCEPT !.erred = TRUE] \in UiType BY <3>2 DEF UiType
    <3>6. CASE note.kind = "completed" BY <3>2, <3>6
    <3>7. CASE note.kind = "delta" BY <3>3, <3>7
    <3>8. CASE note.kind = "plan" BY <3>4, <3>8
    <3>9. CASE note.kind = "error" BY <3>5, <3>9
    <3>10. CASE note.kind \notin {"completed", "delta", "plan", "error"} BY <3>1, <3>10
    <3>11. QED BY <3>6, <3>7, <3>8, <3>9, <3>10
  <2>2. ui' = [ui EXCEPT ![s] = to] BY <1>1
  <2> HIDE DEF to
  <2>3. QED BY <2>1, <2>2, Types
<1>7. QED BY <1>4, <1>5, <1>6, Types, TypesNext DEF Handle

LEMMA InitTypes == Init => TypeOK
<1> SUFFICES ASSUME Init PROVE TypeOK OBVIOUS
<1>1. 0 \in MaybeTurn /\ 0 \in 0 .. MaxClicks BY CodexAssumption DEF MaybeTurn
<1>2. handle \in [Sessions -> HandleType] /\ server \in [Sessions -> ServerType]
  BY NewTypes DEF Init
<1>3. QED BY <1>1, <1>2, Types DEF Init, UiType, Forced

LEMMA NextTypes == TypeOK /\ [Next]_vars => TypeOK'
<1> SUFFICES ASSUME TypeOK, [Next]_vars PROVE TypeOK' OBVIOUS
<1>1. CASE UNCHANGED vars BY <1>1, Types, TypesNext DEF vars
<1>2. ASSUME NEW s \in Sessions, User(s) \/ TimerFires(s) PROVE TypeOK'
  <2>1. StopAgain(s) \/ TimerFires(s) => Escalate(s) /\ clicks' \in 0 .. MaxClicks
    BY ClickTypes, Types DEF StopAgain, TimerFires
  <2>2. QED BY <1>2, <2>1, SendTypes, StopTypes, EscalateTypes, ToggleTypes DEF User
<1>3. ASSUME NEW s \in Sessions, Command(s) PROVE TypeOK'
  BY <1>3, SendStartsTypes, InterruptStartsTypes, PlanStartsTypes, AckTypes, PauseTypes,
     InsertTypes DEF Command
<1>4. ASSUME NEW s \in Sessions, Forcing(s) PROVE TypeOK'
  BY <1>4, KilledTypes, SpawnedTypes, SpawnFailsTypes, ReturnsTypes DEF Forcing
<1>5. ASSUME NEW s \in Sessions, Answer(s) \/ AppServer(s) \/ WriterFails(s) PROVE TypeOK'
  BY <1>5, AnswerTypes, TurnStartsTypes, DeltaTypes, TurnEndsTypes, ErrsTypes, FailureTypes
     DEF AppServer
<1>6. ASSUME NEW s \in Sessions, Read(s) \/ Handle(s) PROVE TypeOK'
  BY <1>6, ReadTypes, HandleTypes
<1>7. QED BY <1>1, <1>2, <1>3, <1>4, <1>5, <1>6 DEF Next

\* The variables keep their types: no request names a turn that was not sent,
\* and every line and every command is of a kind somebody handles.
THEOREM TypeCorrect == Spec => []TypeOK
<1>1. QED BY InitTypes, NextTypes, PTL DEF Spec


-----------------------------------------------------------------------------
(* Interrupts hit their turn: a message sent after the click on Stop stands *)
(* behind the interrupt in the line for the lock, so when the interrupt     *)
(* reads the current turn nothing that is newer has left the line.          *)


\* No turn after u has left the line of session s.
Below(s, u) ==
    /\ handle[s].known <= u
    /\ server[s].running <= u
    /\ \A k \in DOMAIN server[s].turns : server[s].turns[k] <= u
    /\ \A r \in server[s].todo : r.op = "turn" => r.turn <= u
    /\ \A k \in DOMAIN server[s].lines :
         server[s].lines[k].kind = "started" => server[s].lines[k].turn <= u
    /\ \A n \in server[s].tasks : n.kind = "started" => n.turn <= u

IsSend(c, s) == c.s = s /\ c.order.op = "send"

\* Nothing newer than an interrupt has left the line or stands before it.
Lined == \A i \in DOMAIN queue : queue[i].order.op = "interrupt" =>
    /\ Below(queue[i].s, queue[i].order.upto)
    /\ \A j \in 1 .. i - 1 : IsSend(queue[j], queue[i].s) =>
         queue[j].order.turn <= queue[i].order.upto

\* Nothing is newer than the last message sent.
Sent == \A s \in Sessions :
    /\ Below(s, sends[s])
    /\ \A i \in DOMAIN queue : IsSend(queue[i], s) => queue[i].order.turn <= sends[s]

Aim == TypeOK /\ InterruptsAreAimed /\ Lined /\ Sent

\* The same after the step.
BelowNext(s, u) ==
    /\ handle'[s].known <= u
    /\ server'[s].running <= u
    /\ \A k \in DOMAIN server'[s].turns : server'[s].turns[k] <= u
    /\ \A r \in server'[s].todo : r.op = "turn" => r.turn <= u
    /\ \A k \in DOMAIN server'[s].lines :
         server'[s].lines[k].kind = "started" => server'[s].lines[k].turn <= u
    /\ \A n \in server'[s].tasks : n.kind = "started" => n.turn <= u

\* The step lets no turn leave the line.
Quiet == \A t \in Sessions, u \in Nat : Below(t, u) => BelowNext(t, u)

LEMMA Bounds == MaybeTurn \subseteq Nat /\ Turns \subseteq Nat
BY CodexAssumption DEF MaybeTurn, Turns

\* What the line holds.
LEMMA LineFacts ==
  ASSUME TypeOK, NEW i \in DOMAIN queue
  PROVE  /\ queue[i].s \in Sessions /\ queue[i].order \in Orders
         /\ queue[i].order.op = "interrupt" => queue[i].order.upto \in Nat
         /\ queue[i].order.op = "send" => queue[i].order.turn \in Nat
<1>1. queue[i] \in Commands BY Types
<1>2. queue[i].s \in Sessions /\ queue[i].order \in Orders BY <1>1 DEF Commands
<1>3. QED BY <1>2, Bounds DEF Orders

\* Below is a matter of the handle and the app-server alone.
LEMMA Untouched == ASSUME UNCHANGED <<handle, server>> PROVE Quiet
BY DEF Quiet, Below, BelowNext

LEMMA Higher ==
  ASSUME TypeOK, NEW s \in Sessions, NEW u \in Nat, NEW w \in Nat, u <= w, Below(s, u)
  PROVE  Below(s, w)
<1>1. handle[s].known \in Nat BY Types, Bounds DEF HandleType
<1>2. server[s] \in ServerType BY Types
<1>3. server[s].running \in Nat BY <1>2, Bounds DEF ServerType
<1>4. \A k \in DOMAIN server[s].turns : server[s].turns[k] \in Nat
  <2>1. server[s].turns \in Seq(Turns) BY <1>2 DEF ServerType
  <2>2. \A k \in DOMAIN server[s].turns : server[s].turns[k] \in Turns BY <2>1
  <2>3. QED BY <2>2, Bounds
<1>5. \A r \in server[s].todo : r.op = "turn" => r.turn \in Nat
  BY <1>2, Bounds DEF ServerType, Requests
<1>6. \A k \in DOMAIN server[s].lines :
        server[s].lines[k].kind = "started" => server[s].lines[k].turn \in Nat
  <2>1. TAKE k \in DOMAIN server[s].lines
  <2>2. server[s].lines[k] \in Notes \cup Replies BY <1>2 DEF ServerType
  <2>3. QED BY <2>2, Bounds DEF Notes, Replies
<1>7. \A n \in server[s].tasks : n.kind = "started" => n.turn \in Nat
  BY <1>2, Bounds DEF ServerType, Notes
<1>8. QED BY <1>1, <1>3, <1>4, <1>5, <1>6, <1>7 DEF Below

-----------------------------------------------------------------------------
(* The line *)

LEMMA LinedNext ==
  ASSUME \A i \in DOMAIN queue' : queue'[i].order.op = "interrupt" =>
           /\ BelowNext(queue'[i].s, queue'[i].order.upto)
           /\ \A j \in 1 .. i - 1 : IsSend(queue'[j], queue'[i].s) =>
                queue'[j].order.turn <= queue'[i].order.upto
  PROVE  Lined'
BY DEF Lined, Below, BelowNext, IsSend

\* The line is the same but for how far its holder is.
SameLine ==
    /\ DOMAIN queue' = DOMAIN queue
    /\ \A i \in DOMAIN queue : queue'[i].s = queue[i].s /\ queue'[i].order = queue[i].order

LEMMA LinedSame == ASSUME TypeOK, Lined, Quiet, SameLine PROVE Lined'
<1> SUFFICES ASSUME NEW i \in DOMAIN queue, queue[i].order.op = "interrupt"
             PROVE  /\ BelowNext(queue[i].s, queue[i].order.upto)
                    /\ \A j \in 1 .. i - 1 : IsSend(queue'[j], queue[i].s) =>
                         queue'[j].order.turn <= queue[i].order.upto
  BY LinedNext DEF SameLine
<1>1. \A j \in 1 .. i - 1 : j \in DOMAIN queue BY Types
<1>2. \A j \in 1 .. i - 1 : queue'[j].s = queue[j].s /\ queue'[j].order = queue[j].order
  BY <1>1 DEF SameLine
<1>3. QED BY <1>2, LineFacts DEF Lined, Quiet, IsSend

\* Who leaves the head of the line leaves the others in their order.
LEMMA LinedRelease ==
  ASSUME TypeOK, queue # <<>>, Lined, Quiet, Release PROVE Lined'
<1> SUFFICES ASSUME NEW i \in DOMAIN queue', queue'[i].order.op = "interrupt"
             PROVE  /\ BelowNext(queue'[i].s, queue'[i].order.upto)
                    /\ \A j \in 1 .. i - 1 : IsSend(queue'[j], queue'[i].s) =>
                         queue'[j].order.turn <= queue'[i].order.upto
  BY LinedNext
<1>1. /\ DOMAIN queue' = 1 .. Len(queue) - 1 /\ DOMAIN queue = 1 .. Len(queue)
      /\ Len(queue) \in Nat
      /\ \A j \in DOMAIN queue' : queue'[j] = queue[j + 1]
  BY Types DEF Release
<1>2. i + 1 \in DOMAIN queue /\ i \in Nat /\ queue'[i] = queue[i + 1] BY <1>1
<1>3. /\ Below(queue[i + 1].s, queue[i + 1].order.upto)
      /\ \A j \in 1 .. i : IsSend(queue[j], queue[i + 1].s) =>
           queue[j].order.turn <= queue[i + 1].order.upto
  BY <1>2 DEF Lined
<1>4. BelowNext(queue[i + 1].s, queue[i + 1].order.upto)
  BY <1>2, <1>3, LineFacts DEF Quiet
<1>5. \A j \in 1 .. i - 1 : IsSend(queue'[j], queue'[i].s) =>
        queue'[j].order.turn <= queue'[i].order.upto
  <2>1. TAKE j \in 1 .. i - 1
  <2>2. j + 1 \in 1 .. i /\ queue'[j] = queue[j + 1] BY <1>1, <1>2
  <2>3. QED BY <1>2, <1>3, <2>2
<1>6. QED BY <1>2, <1>4, <1>5

\* Who joins the line stands behind the interrupts that are in it.
LEMMA LinedCall ==
  ASSUME TypeOK, Lined, Quiet, NEW s \in Sessions, NEW o \in Orders, Call(s, o),
         o.op = "interrupt" =>
           /\ BelowNext(s, o.upto)
           /\ \A j \in DOMAIN queue : IsSend(queue[j], s) => queue[j].order.turn <= o.upto
  PROVE  Lined'
<1> SUFFICES ASSUME NEW i \in DOMAIN queue', queue'[i].order.op = "interrupt"
             PROVE  /\ BelowNext(queue'[i].s, queue'[i].order.upto)
                    /\ \A j \in 1 .. i - 1 : IsSend(queue'[j], queue'[i].s) =>
                         queue'[j].order.turn <= queue'[i].order.upto
  BY LinedNext
<1> DEFINE c == [s |-> s, order |-> o, id |-> 0, at |-> "queued"]
<1>1. /\ DOMAIN queue' = 1 .. Len(queue) + 1 /\ DOMAIN queue = 1 .. Len(queue)
      /\ Len(queue) \in Nat
      /\ \A j \in DOMAIN queue : queue'[j] = queue[j]
      /\ queue'[Len(queue) + 1] = c
  BY Types DEF Call
<1>2. c.s = s /\ c.order = o OBVIOUS
<1> HIDE DEF c
<1>3. CASE i \in DOMAIN queue
  <2>1. queue'[i] = queue[i] /\ \A j \in 1 .. i - 1 : queue'[j] = queue[j] BY <1>1, <1>3
  <2>2. QED BY <1>3, <2>1, LineFacts DEF Lined, Quiet
<1>4. CASE i = Len(queue) + 1
  <2>1. queue'[i] = c /\ 1 .. i - 1 = DOMAIN queue BY <1>1, <1>4
  <2>2. \A j \in 1 .. i - 1 : queue'[j] = queue[j] BY <1>1, <2>1
  <2>3. QED BY <1>2, <2>1, <2>2
<1>5. QED BY <1>1, <1>3, <1>4

-----------------------------------------------------------------------------
(* The other two parts *)

LEMMA SentNext ==
  ASSUME \A t \in Sessions :
           /\ BelowNext(t, sends'[t])
           /\ \A i \in DOMAIN queue' : IsSend(queue'[i], t) => queue'[i].order.turn <= sends'[t]
  PROVE  Sent'
BY DEF Sent, Below, BelowNext, IsSend

\* Every message that waits did so before.
NoNewSend == \A i \in DOMAIN queue' : queue'[i].order.op = "send" =>
    \E j \in DOMAIN queue : queue[j].s = queue'[i].s /\ queue[j].order = queue'[i].order

LEMMA SentQuiet == ASSUME TypeOK, Sent, Quiet, NoNewSend, UNCHANGED sends PROVE Sent'
<1> SUFFICES ASSUME NEW t \in Sessions
             PROVE  /\ BelowNext(t, sends[t])
                    /\ \A i \in DOMAIN queue' : IsSend(queue'[i], t) =>
                         queue'[i].order.turn <= sends[t]
  BY SentNext
<1>1. sends[t] \in Nat BY Types, Bounds
<1>2. QED BY <1>1 DEF Sent, Quiet, NoNewSend, IsSend

LEMMA ReleaseIsQuiet == ASSUME TypeOK, queue # <<>>, Release PROVE NoNewSend
<1>1. /\ DOMAIN queue' = 1 .. Len(queue) - 1 /\ DOMAIN queue = 1 .. Len(queue)
      /\ Len(queue) \in Nat
      /\ \A j \in DOMAIN queue' : queue'[j] = queue[j + 1] /\ j + 1 \in DOMAIN queue
  BY Types DEF Release
<1>2. QED BY <1>1 DEF NoNewSend

\* Every interrupt the app-server has not answered was there before.
NoNewInterrupt == \A t \in Sessions : \A r \in server'[t].todo :
    r.op = "interrupt" => r \in server[t].todo

LEMMA AimedQuiet == ASSUME InterruptsAreAimed, NoNewInterrupt PROVE InterruptsAreAimed'
BY DEF InterruptsAreAimed, NoNewInterrupt

\* A step that lets nothing leave the line and calls nothing keeps the aim.
LEMMA QuietAims ==
  ASSUME Aim, Quiet, NoNewInterrupt, UNCHANGED sends,
         SameLine \/ (queue # <<>> /\ Release)
  PROVE  InterruptsAreAimed' /\ Lined' /\ Sent'
<1>1. SameLine => NoNewSend BY DEF SameLine, NoNewSend
<1>2. NoNewSend BY <1>1, ReleaseIsQuiet DEF Aim
<1>3. QED BY <1>2, AimedQuiet, LinedSame, LinedRelease, SentQuiet DEF Aim

LEMMA Idle == UNCHANGED queue => SameLine
BY DEF SameLine

\* A step of the chat that calls a command other than a message.
LEMMA CallAims ==
  ASSUME Aim, NEW s \in Sessions, NEW o \in Orders, Call(s, o), o.op # "send",
         o.op = "interrupt" => o.upto = sends[s], UNCHANGED <<handle, server, sends>>
  PROVE  InterruptsAreAimed' /\ Lined' /\ Sent'
<1>1. Quiet BY Untouched
<1>2. sends[s] \in Nat BY Types, Bounds DEF Aim
<1>3. BelowNext(s, sends[s]) BY <1>1, <1>2 DEF Aim, Sent, Quiet
<1>4. \A j \in DOMAIN queue : IsSend(queue[j], s) => queue[j].order.turn <= sends[s]
  BY DEF Aim, Sent
<1>5. Lined' BY <1>1, <1>3, <1>4, LinedCall DEF Aim
<1>6. NoNewSend
  <2> DEFINE c == [s |-> s, order |-> o, id |-> 0, at |-> "queued"]
  <2>1. \A i \in DOMAIN queue' : queue'[i] = c \/ (i \in DOMAIN queue /\ queue'[i] = queue[i])
    BY Types DEF Call, Aim
  <2>2. c.order = o OBVIOUS
  <2> HIDE DEF c
  <2>3. QED BY <2>1, <2>2 DEF NoNewSend
<1>7. NoNewInterrupt BY DEF NoNewInterrupt
<1>8. QED BY <1>1, <1>5, <1>6, <1>7, AimedQuiet, SentQuiet DEF Aim

-----------------------------------------------------------------------------
(* The steps *)

LEMMA SendAims ==
  ASSUME Aim, NEW s \in Sessions, Send(s) PROVE InterruptsAreAimed' /\ Lined' /\ Sent'
<1> DEFINE o == [op |-> "send", turn |-> sends[s] + 1,
                 shown |-> ui[s].plan /\ ~ui[s].lost]
           c == [s |-> s, order |-> o, id |-> 0, at |-> "queued"]
<1>1. Quiet BY Untouched DEF Send
<1>2. o \in Orders
  <2>1. sends[s] + 1 \in Turns
    BY Types, CodexAssumption DEF Send, Turns, MaybeTurn, Aim
  <2>2. QED BY <2>1 DEF Orders
<1>3. Lined' BY <1>1, <1>2, LinedCall DEF Send, Aim
<1>4. NoNewInterrupt BY DEF NoNewInterrupt, Send
<1>5. Sent'
  <2> SUFFICES ASSUME NEW t \in Sessions
               PROVE  /\ BelowNext(t, sends'[t])
                      /\ \A i \in DOMAIN queue' : IsSend(queue'[i], t) =>
                           queue'[i].order.turn <= sends'[t]
    BY SentNext
  <2>1. sends[t] \in Nat /\ sends'[t] \in Nat /\ sends[t] <= sends'[t]
        /\ (t = s => sends'[t] = sends[s] + 1)
    BY Types, Bounds DEF Send, Aim
  <2>2. Below(t, sends'[t]) BY <2>1, Higher DEF Aim, Sent
  <2>3. \A i \in DOMAIN queue' : queue'[i] = c \/ (i \in DOMAIN queue /\ queue'[i] = queue[i])
    BY Types DEF Send, Call, Aim
  <2>4. c.s = s /\ c.order.turn = sends[s] + 1 OBVIOUS
  <2> HIDE DEF c
  <2>5. ASSUME NEW i \in DOMAIN queue', IsSend(queue'[i], t)
        PROVE  queue'[i].order.turn <= sends'[t]
    <3>1. CASE queue'[i] = c BY <2>1, <2>4, <2>5, <3>1 DEF IsSend
    <3>2. CASE i \in DOMAIN queue /\ queue'[i] = queue[i]
      <4>1. queue[i].order.turn <= sends[t] BY <2>5, <3>2 DEF Aim, Sent
      <4>2. queue[i].order.turn \in Nat BY <2>5, <3>2, LineFacts DEF IsSend, Aim
      <4>3. QED BY <2>1, <3>2, <4>1, <4>2
    <3>3. QED BY <2>3, <3>1, <3>2
  <2>6. QED BY <1>1, <2>1, <2>2, <2>5 DEF Quiet
<1>6. QED BY <1>3, <1>4, <1>5, AimedQuiet DEF Aim

LEMMA ChatAims ==
  ASSUME Aim, NEW s \in Sessions, Stop(s) \/ Escalate(s) \/ TogglePlan(s) \/ Spawned(s)
  PROVE  InterruptsAreAimed' /\ Lined' /\ Sent'
<1>1. CASE Stop(s)
  <2>1. [op |-> "interrupt", upto |-> sends[s]] \in Orders BY Types DEF Orders, Aim
  <2>2. QED BY <1>1, <2>1, CallAims DEF Stop
<1>2. CASE Escalate(s)
  <2>1. [op |-> "pause"] \in Orders BY DEF Orders
  <2>2. QED BY <1>2, <2>1, CallAims DEF Escalate
<1>3. CASE TogglePlan(s)
  <2>1. (~ui[s].plan) \in BOOLEAN BY Types DEF UiType, Aim
  <2>2. [op |-> "plan", on |-> ~ui[s].plan] \in Orders BY <2>1 DEF Orders
  <2>3. QED BY <1>3, <2>2, CallAims DEF TogglePlan
<1>4. CASE Spawned(s)
  <2>1. [op |-> "insert"] \in Orders BY DEF Orders
  <2>2. QED BY <1>4, <2>1, CallAims DEF Spawned
<1>5. QED BY <1>1, <1>2, <1>3, <1>4

\* What the holder does as it asks keeps the line.
LEMMA AskLine ==
  ASSUME TypeOK, queue # <<>>, NEW n, queue' = [queue EXCEPT ![1].id = n, ![1].at = "waiting"]
  PROVE  SameLine
<1>1. 1 \in DOMAIN queue /\ queue[1] \in Commands BY Types, LineTypes
<1>2. /\ [queue[1] EXCEPT !.id = n, !.at = "waiting"].s = queue[1].s
      /\ [queue[1] EXCEPT !.id = n, !.at = "waiting"].order = queue[1].order
  BY <1>1 DEF Commands
<1>3. queue' = [queue EXCEPT ![1] = [queue[1] EXCEPT !.id = n, !.at = "waiting"]] BY <1>1
<1>4. QED BY <1>1, <1>2, <1>3 DEF SameLine

\* Only `known' and what the app-server holds of turns matter.
LEMMA SameTurns ==
  ASSUME TypeOK, NEW s \in Sessions,
         \A t \in Sessions \ {s} : handle'[t] = handle[t] /\ server'[t] = server[t],
         handle'[s].known = handle[s].known,
         server'[s].running = server[s].running, server'[s].turns = server[s].turns,
         server'[s].lines = server[s].lines, server'[s].tasks = server[s].tasks,
         \A r \in server'[s].todo : r.op = "turn" => r \in server[s].todo
  PROVE  Quiet
<1> SUFFICES ASSUME NEW t \in Sessions, NEW u \in Nat, Below(t, u) PROVE BelowNext(t, u)
  BY DEF Quiet
<1>1. CASE t = s BY <1>1 DEF Below, BelowNext
<1>2. CASE t # s BY <1>2 DEF Below, BelowNext
<1>3. QED BY <1>1, <1>2

LEMMA SendStartsAims ==
  ASSUME Aim, NEW s \in Sessions, SendStarts(s) PROVE InterruptsAreAimed' /\ Lined' /\ Sent'
<1>1. queue # <<>> BY DEF SendStarts, Takes
<1>2. CASE ~Reaches(s)
  <2>1. Quiet BY <1>2, Untouched DEF SendStarts
  <2>2. NoNewInterrupt BY <1>2 DEF SendStarts, NoNewInterrupt
  <2>3. QED BY <1>1, <1>2, <2>1, <2>2, QuietAims DEF SendStarts
<1>3. CASE Reaches(s)
  <2> DEFINE turn == Head(queue).order.turn
             r == TurnRequest(s, Head(queue).order)
  <2>1. r.op = "turn" /\ r.turn = turn /\ r.id = handle[s].next BY DEF TurnRequest
  <2> HIDE DEF r
  <2>2. /\ server' = [server EXCEPT ![s].todo = @ \cup {r}]
        /\ handle' = [handle EXCEPT ![s].next = @ + 1]
        /\ queue' = [queue EXCEPT ![1].id = r.id, ![1].at = "waiting"]
        /\ UNCHANGED sends
    BY <1>3 DEF SendStarts, Ask, r
  <2>3. SameLine BY <1>1, <2>2, AskLine DEF Aim
  <2>4. NoNewInterrupt
    <3>1. \A t \in Sessions : \A q \in server'[t].todo : q \in server[t].todo \/ q = r
      BY <2>2, Types DEF Aim, ServerType
    <3>2. QED BY <2>1, <3>1 DEF NoNewInterrupt
  <2>5. /\ queue[1] = Head(queue) /\ 1 \in DOMAIN queue /\ IsSend(queue[1], s)
        /\ queue[1].order.turn = turn
    BY <1>1, Types, LineTypes DEF SendStarts, Takes, IsSend, Aim
  <2> HIDE DEF turn
  <2>6. ASSUME NEW t \in Sessions, NEW u \in Nat, Below(t, u), t = s => turn <= u
        PROVE  BelowNext(t, u)
    <3>1. /\ handle'[t].known = handle[t].known
          /\ server'[t].running = server[t].running /\ server'[t].turns = server[t].turns
          /\ server'[t].lines = server[t].lines /\ server'[t].tasks = server[t].tasks
          /\ server'[t].todo = IF t = s THEN server[t].todo \cup {r} ELSE server[t].todo
      BY <2>2, Types DEF Aim, ServerType, HandleType
    <3>2. QED BY <2>1, <2>6, <3>1 DEF Below, BelowNext
  <2>7. Lined'
    <3> SUFFICES ASSUME NEW i \in DOMAIN queue, queue[i].order.op = "interrupt"
                 PROVE  /\ BelowNext(queue[i].s, queue[i].order.upto)
                        /\ \A j \in 1 .. i - 1 : IsSend(queue'[j], queue[i].s) =>
                             queue'[j].order.turn <= queue[i].order.upto
      BY <2>3, LinedNext DEF SameLine
    <3>1. i \in Nat /\ i # 1 /\ i > 0 BY <2>5, Types DEF IsSend, Aim
    <3>2. \A j \in 1 .. i - 1 : j \in DOMAIN queue BY Types DEF Aim
    <3>3. \A j \in 1 .. i - 1 : queue'[j].s = queue[j].s /\ queue'[j].order = queue[j].order
      BY <2>3, <3>2 DEF SameLine
    <3>4. /\ Below(queue[i].s, queue[i].order.upto)
          /\ \A j \in 1 .. i - 1 : IsSend(queue[j], queue[i].s) =>
               queue[j].order.turn <= queue[i].order.upto
      BY DEF Aim, Lined
    <3>5. queue[i].s = s => turn <= queue[i].order.upto
      BY <2>5, <3>1, <3>4
    <3>6. BelowNext(queue[i].s, queue[i].order.upto)
      BY <2>6, <3>4, <3>5, LineFacts DEF Aim
    <3>7. QED BY <3>3, <3>4, <3>6 DEF IsSend
  <2>8. Sent'
    <3> SUFFICES ASSUME NEW t \in Sessions
                 PROVE  /\ BelowNext(t, sends[t])
                        /\ \A i \in DOMAIN queue' : IsSend(queue'[i], t) =>
                             queue'[i].order.turn <= sends[t]
      BY <2>2, SentNext
    <3>1. sends[t] \in Nat BY Types, Bounds DEF Aim
    <3>2. t = s => turn <= sends[t] BY <2>5 DEF Aim, Sent
    <3>3. QED BY <2>3, <2>6, <3>1, <3>2 DEF Aim, Sent, SameLine, IsSend
  <2>9. QED BY <2>4, <2>7, <2>8, AimedQuiet DEF Aim
<1>4. QED BY <1>2, <1>3

\* The interrupt names a turn that had left the line, and nothing newer than
\* the click has.
LEMMA InterruptStartsAims ==
  ASSUME Aim, NEW s \in Sessions, InterruptStarts(s)
  PROVE  InterruptsAreAimed' /\ Lined' /\ Sent'
<1>1. queue # <<>> BY DEF InterruptStarts, Takes
<1>2. CASE ~(Reaches(s) /\ handle[s].known # 0)
  <2>1. Quiet BY <1>2, Untouched DEF InterruptStarts
  <2>2. NoNewInterrupt BY <1>2 DEF InterruptStarts, NoNewInterrupt
  <2>3. QED BY <1>1, <1>2, <2>1, <2>2, QuietAims DEF InterruptStarts
<1>3. CASE Reaches(s) /\ handle[s].known # 0
  <2> DEFINE upto == Head(queue).order.upto
             r == [id |-> handle[s].next, op |-> "interrupt", turn |-> handle[s].known,
                   upto |-> upto]
  <2>1. /\ server' = [server EXCEPT ![s].todo = @ \cup {r}]
        /\ handle' = [handle EXCEPT ![s].next = @ + 1]
        /\ queue' = [queue EXCEPT ![1].id = r.id, ![1].at = "waiting"]
        /\ UNCHANGED sends
    BY <1>3 DEF InterruptStarts, Ask
  <2>2. SameLine BY <1>1, <2>1, AskLine DEF Aim
  <2>3. r.op = "interrupt" /\ r.turn = handle[s].known /\ r.upto = upto OBVIOUS
  <2>4. /\ queue[1] = Head(queue) /\ 1 \in DOMAIN queue /\ queue[1].s = s
        /\ queue[1].order.op = "interrupt" /\ queue[1].order.upto = upto
    BY <1>1, Types, LineTypes DEF InterruptStarts, Takes, Aim
  <2> HIDE DEF r, upto
  <2>5. handle[s].known <= upto BY <2>4 DEF Aim, Lined, Below
  <2>6. \A t \in Sessions : \A q \in server'[t].todo : q \in server[t].todo \/ q = r
    BY <2>1, Types DEF Aim, ServerType
  <2>7. InterruptsAreAimed' BY <2>3, <2>5, <2>6 DEF Aim, InterruptsAreAimed
  <2>8. Quiet
    <3>1. /\ \A t \in Sessions \ {s} : handle'[t] = handle[t] /\ server'[t] = server[t]
          /\ handle'[s].known = handle[s].known
          /\ server'[s].running = server[s].running /\ server'[s].turns = server[s].turns
          /\ server'[s].lines = server[s].lines /\ server'[s].tasks = server[s].tasks
      BY <2>1, Types DEF Aim, ServerType, HandleType
    <3>2. QED BY <2>3, <2>6, <3>1, SameTurns DEF Aim
  <2>9. NoNewSend BY <2>2 DEF SameLine, NoNewSend
  <2>10. QED BY <2>1, <2>2, <2>7, <2>8, <2>9, LinedSame, SentQuiet DEF Aim
<1>4. QED BY <1>2, <1>3

LEMMA PlanStartsAims ==
  ASSUME Aim, NEW s \in Sessions, PlanStarts(s) PROVE InterruptsAreAimed' /\ Lined' /\ Sent'
<1> DEFINE r == [id |-> handle[s].next, op |-> "settings", on |-> Head(queue).order.on]
<1>1. queue # <<>> /\ UNCHANGED sends BY DEF PlanStarts, Takes
<1>2. SameLine \/ Release
  <2>1. CASE Reaches(s)
    <3>1. queue' = [queue EXCEPT ![1].id = handle[s].next, ![1].at = "waiting"]
      BY <2>1 DEF PlanStarts, Reaches
    <3>2. QED BY <1>1, <3>1, AskLine DEF Aim
  <2>2. QED BY <2>1 DEF PlanStarts, Reaches
<1>3. /\ \A t \in Sessions \ {s} : handle'[t] = handle[t] /\ server'[t] = server[t]
      /\ handle'[s].known = handle[s].known
      /\ server'[s].running = server[s].running /\ server'[s].turns = server[s].turns
      /\ server'[s].lines = server[s].lines /\ server'[s].tasks = server[s].tasks
      /\ \A q \in server'[s].todo : q \in server[s].todo \/ q = r
  BY Types DEF PlanStarts, Aim, ServerType, HandleType
<1>4. r.op = "settings" OBVIOUS
<1> HIDE DEF r
<1>5. Quiet BY <1>3, <1>4, SameTurns DEF Aim
<1>6. NoNewInterrupt BY <1>3, <1>4 DEF NoNewInterrupt
<1>7. QED BY <1>1, <1>2, <1>5, <1>6, QuietAims

-----------------------------------------------------------------------------
(* The steps of the app-server and of what comes from it *)

\* Below, of an app-server in itself.
Upto(v, u) ==
    /\ v.running <= u
    /\ \A k \in DOMAIN v.turns : v.turns[k] <= u
    /\ \A r \in v.todo : r.op = "turn" => r.turn <= u
    /\ \A k \in DOMAIN v.lines : v.lines[k].kind = "started" => v.lines[k].turn <= u
    /\ \A n \in v.tasks : n.kind = "started" => n.turn <= u

LEMMA Splits ==
  ASSUME NEW s \in Sessions, NEW u \in Nat, Below(s, u)
  PROVE  handle[s].known <= u /\ Upto(server[s], u)
BY DEF Below, Upto

LEMMA ServerQuiet ==
  ASSUME TypeOK, NEW s \in Sessions, NEW v, server' = [server EXCEPT ![s] = v],
         \A t \in Sessions \ {s} : handle'[t] = handle[t],
         \A u \in Nat : handle[s].known <= u /\ Upto(server[s], u) =>
           handle'[s].known <= u /\ Upto(v, u)
  PROVE  Quiet
<1> SUFFICES ASSUME NEW t \in Sessions, NEW u \in Nat, Below(t, u) PROVE BelowNext(t, u)
  BY DEF Quiet
<1>1. handle[t].known <= u /\ Upto(server[t], u) BY Splits
<1>2. handle'[t].known <= u /\ Upto(server'[t], u)
  <2>1. CASE t = s
    <3>1. server'[t] = v BY <2>1, Types
    <3>2. QED BY <1>1, <2>1, <3>1
  <2>2. CASE t # s
    <3>1. server'[t] = server[t] /\ handle'[t] = handle[t] BY <2>2, Types
    <3>2. QED BY <1>1, <3>1
  <2>3. QED BY <2>1, <2>2
<1>3. QED BY <1>2 DEF Upto, BelowNext

LEMMA NoMoreTodo ==
  ASSUME TypeOK, NEW s \in Sessions, NEW v, server' = [server EXCEPT ![s] = v],
         v.todo \subseteq server[s].todo
  PROVE  NoNewInterrupt
<1> SUFFICES ASSUME NEW t \in Sessions, NEW r \in server'[t].todo PROVE r \in server[t].todo
  BY DEF NoNewInterrupt
<1>1. CASE t = s
  <2>1. server'[t] = v BY <1>1, Types
  <2>2. QED BY <1>1, <2>1
<1>2. CASE t # s
  <2>1. server'[t] = server[t] BY <1>2, Types
  <2>2. QED BY <2>1
<1>3. QED BY <1>1, <1>2

\* A step of the app-server alone.
LEMMA ServerAims ==
  ASSUME Aim, NEW s \in Sessions, NEW v, server' = [server EXCEPT ![s] = v],
         UNCHANGED <<queue, handle, sends>>, v.todo \subseteq server[s].todo,
         \A u \in Nat : Upto(server[s], u) => Upto(v, u)
  PROVE  InterruptsAreAimed' /\ Lined' /\ Sent'
<1>1. Quiet BY ServerQuiet DEF Aim
<1>2. NoNewInterrupt BY NoMoreTodo DEF Aim
<1>3. QED BY <1>1, <1>2, QuietAims, Idle

\* What is written after the lines.
LEMMA OneMore ==
  ASSUME NEW S, NEW q \in Seq(S), NEW x \in S
  PROVE  \A k \in DOMAIN Append(q, x) :
           Append(q, x)[k] = x \/ (k \in DOMAIN q /\ Append(q, x)[k] = q[k])
OBVIOUS

LEMMA Joined ==
  ASSUME NEW S, NEW q \in Seq(S), NEW z \in Seq(S)
  PROVE  \A k \in DOMAIN (q \o z) : \/ k \in DOMAIN q /\ (q \o z)[k] = q[k]
                                    \/ \E j \in DOMAIN z : (q \o z)[k] = z[j]
<1>1. /\ q \o z \in Seq(S)
      /\ Len(q \o z) = Len(q) + Len(z)
      /\ \A k \in 1 .. Len(q) + Len(z) :
           (q \o z)[k] = IF k <= Len(q) THEN q[k] ELSE z[k - Len(q)]
  OBVIOUS
<1>2. /\ DOMAIN q = 1 .. Len(q) /\ DOMAIN z = 1 .. Len(z)
      /\ Len(q) \in Nat /\ Len(z) \in Nat
  OBVIOUS
<1>3. DOMAIN (q \o z) = 1 .. Len(q) + Len(z) BY <1>1
<1>4. TAKE k \in DOMAIN (q \o z)
<1>5. CASE k <= Len(q) BY <1>1, <1>2, <1>3, <1>5
<1>6. CASE ~(k <= Len(q))
  <2>1. k - Len(q) \in DOMAIN z BY <1>2, <1>3, <1>6
  <2>2. QED BY <1>1, <1>3, <1>6, <2>1
<1>7. QED BY <1>5, <1>6

LEMMA TwoMore ==
  ASSUME NEW S, NEW q \in Seq(S), NEW x \in S, NEW y \in S
  PROVE  \A k \in DOMAIN (q \o <<x, y>>) :
           (q \o <<x, y>>)[k] \in {x, y} \/ (k \in DOMAIN q /\ (q \o <<x, y>>)[k] = q[k])
<1>1. <<x, y>> \in Seq(S) BY PairTypes
<1>2. \A j \in DOMAIN <<x, y>> : <<x, y>>[j] \in {x, y} OBVIOUS
<1>3. QED BY <1>1, <1>2, Joined

LEMMA WorksAims ==
  ASSUME Aim, NEW s \in Sessions, TurnStarts(s) \/ Delta(s) \/ TurnEnds(s) \/ Errs(s)
  PROVE  InterruptsAreAimed' /\ Lined' /\ Sent'
<1> DEFINE w == server[s]
<1>1. w \in ServerType /\ w.turns \in Seq(Turns) /\ w.lines \in Seq(Notes \cup Replies)
  BY Types DEF Aim, ServerType
<1>2. CASE TurnStarts(s)
  <2> DEFINE turn == Head(w.turns)
             n == Notice("started", turn)
             v == [w EXCEPT !.running = turn, !.turns = Tail(@), !.lines = Append(@, n)]
  <2>1. server' = [server EXCEPT ![s] = v] /\ UNCHANGED <<queue, handle, sends>>
    BY <1>2 DEF TurnStarts
  <2>2. w.turns # <<>> BY <1>2 DEF TurnStarts
  <2>3. turn = w.turns[1] /\ 1 \in DOMAIN w.turns /\ turn \in Turns BY <1>1, <2>2
  <2>4. \A k \in DOMAIN Tail(w.turns) : k + 1 \in DOMAIN w.turns
                                         /\ Tail(w.turns)[k] = w.turns[k + 1]
    BY <1>1, <2>2
  <2>5. /\ v.running = turn /\ v.turns = Tail(w.turns) /\ v.lines = Append(w.lines, n)
        /\ v.todo = w.todo /\ v.tasks = w.tasks
    BY <1>1 DEF ServerType
  <2>6. n \in Notes \cup Replies /\ n.turn = turn BY <2>3, NoticeTypes DEF Notice
  <2> HIDE DEF v, n, turn, w
  <2>7. \A k \in DOMAIN v.lines : v.lines[k] = n \/ (k \in DOMAIN w.lines /\ v.lines[k] = w.lines[k])
    BY <1>1, <2>5, <2>6, OneMore
  <2>8. ASSUME NEW u \in Nat, Upto(w, u) PROVE Upto(v, u)
    <3>1. turn <= u BY <2>3, <2>8 DEF Upto
    <3>2. \A k \in DOMAIN v.turns : v.turns[k] <= u BY <2>4, <2>5, <2>8 DEF Upto
    <3>3. \A k \in DOMAIN v.lines : v.lines[k].kind = "started" => v.lines[k].turn <= u
      BY <2>6, <2>7, <2>8, <3>1 DEF Upto
    <3>4. QED BY <2>5, <2>8, <3>1, <3>2, <3>3 DEF Upto
  <2>9. QED BY <2>1, <2>5, <2>8, ServerAims DEF w
<1>3. CASE Delta(s)
  <2> DEFINE n == Notice("delta", w.running)
             v == [w EXCEPT !.said = w.running, !.lines = Append(@, n)]
  <2>1. server' = [server EXCEPT ![s] = v] /\ UNCHANGED <<queue, handle, sends>>
    BY <1>3 DEF Delta
  <2>2. w.running \in Turns BY <1>3, RunningTypes DEF Delta, Aim
  <2>3. n \in Notes \cup Replies /\ n.kind = "delta" BY <2>2, NoticeTypes DEF Notice
  <2>4. /\ v.running = w.running /\ v.turns = w.turns /\ v.lines = Append(w.lines, n)
        /\ v.todo = w.todo /\ v.tasks = w.tasks
    BY <1>1 DEF ServerType
  <2> HIDE DEF v, n, w
  <2>5. \A k \in DOMAIN v.lines : v.lines[k] = n \/ (k \in DOMAIN w.lines /\ v.lines[k] = w.lines[k])
    BY <1>1, <2>3, <2>4, OneMore
  <2>6. \A u \in Nat : Upto(w, u) => Upto(v, u) BY <2>3, <2>4, <2>5 DEF Upto
  <2>7. QED BY <2>1, <2>4, <2>6, ServerAims DEF w
<1>4. CASE TurnEnds(s)
  <2> DEFINE n == Notice("completed", w.running)
             v == [w EXCEPT !.running = 0, !.lines = Append(@, n)]
  <2>1. server' = [server EXCEPT ![s] = v] /\ UNCHANGED <<queue, handle, sends>>
    BY <1>4 DEF TurnEnds
  <2>2. w.running \in Turns BY <1>4, RunningTypes DEF TurnEnds, Aim
  <2>3. n \in Notes \cup Replies /\ n.kind = "completed" BY <2>2, NoticeTypes DEF Notice
  <2>4. /\ v.running = 0 /\ v.turns = w.turns /\ v.lines = Append(w.lines, n)
        /\ v.todo = w.todo /\ v.tasks = w.tasks
    BY <1>1 DEF ServerType
  <2> HIDE DEF v, n, w
  <2>5. \A k \in DOMAIN v.lines : v.lines[k] = n \/ (k \in DOMAIN w.lines /\ v.lines[k] = w.lines[k])
    BY <1>1, <2>3, <2>4, OneMore
  <2>6. \A u \in Nat : Upto(w, u) => Upto(v, u) BY <2>3, <2>4, <2>5 DEF Upto
  <2>7. QED BY <2>1, <2>4, <2>6, ServerAims DEF w
<1>5. CASE Errs(s)
  <2> DEFINE n == [kind |-> "error"]
             v == [w EXCEPT !.lines = Append(@, n)]
  <2>1. server' = [server EXCEPT ![s] = v] /\ UNCHANGED <<queue, handle, sends>>
    BY <1>5 DEF Errs
  <2>2. n \in Notes \cup Replies /\ n.kind = "error" BY ErrorTypes
  <2>3. /\ v.running = w.running /\ v.turns = w.turns /\ v.lines = Append(w.lines, n)
        /\ v.todo = w.todo /\ v.tasks = w.tasks
    BY <1>1 DEF ServerType
  <2> HIDE DEF v, n, w
  <2>4. \A k \in DOMAIN v.lines : v.lines[k] = n \/ (k \in DOMAIN w.lines /\ v.lines[k] = w.lines[k])
    BY <1>1, <2>2, <2>3, OneMore
  <2>5. \A u \in Nat : Upto(w, u) => Upto(v, u) BY <2>2, <2>3, <2>4 DEF Upto
  <2>6. QED BY <2>1, <2>3, <2>5, ServerAims DEF w
<1>6. QED BY <1>2, <1>3, <1>4, <1>5

\* A process that goes, hangs or is not read from any more.
LEMMA FailureAims ==
  ASSUME Aim, NEW s \in Sessions, Killed(s) \/ Exit(s) \/ Wedge(s) \/ WriterFails(s)
  PROVE  InterruptsAreAimed' /\ Lined' /\ Sent'
<1> DEFINE w == server[s]
<1>1. w \in ServerType BY Types DEF Aim
<1>2. CASE Killed(s) \/ Exit(s)
  <2> DEFINE v == [w EXCEPT !.is = "gone", !.running = 0, !.turns = <<>>]
  <2>1. server' = [server EXCEPT ![s] = v] /\ UNCHANGED <<queue, handle, sends>>
    BY <1>2 DEF Killed, Exit
  <2>2. /\ v.running = 0 /\ v.turns = <<>> /\ v.lines = w.lines
        /\ v.todo = w.todo /\ v.tasks = w.tasks
    BY <1>1 DEF ServerType
  <2> HIDE DEF v, w
  <2>3. \A u \in Nat : Upto(w, u) => Upto(v, u) BY <2>2 DEF Upto
  <2>4. QED BY <2>1, <2>2, <2>3, ServerAims DEF w
<1>3. CASE Wedge(s)
  <2> DEFINE v == [w EXCEPT !.is = "wedged"]
  <2>1. server' = [server EXCEPT ![s] = v] /\ UNCHANGED <<queue, handle, sends>>
    BY <1>3 DEF Wedge
  <2>2. /\ v.running = w.running /\ v.turns = w.turns /\ v.lines = w.lines
        /\ v.todo = w.todo /\ v.tasks = w.tasks
    BY <1>1 DEF ServerType
  <2> HIDE DEF v, w
  <2>3. \A u \in Nat : Upto(w, u) => Upto(v, u) BY <2>2 DEF Upto
  <2>4. QED BY <2>1, <2>2, <2>3, ServerAims DEF w
<1>4. CASE WriterFails(s)
  <2>1. UNCHANGED <<queue, server, sends>> BY <1>4 DEF WriterFails
  <2>2. \A t \in Sessions : handle'[t].known = handle[t].known
    BY <1>4, Types DEF WriterFails, Aim, HandleType
  <2>3. Quiet BY <2>1, <2>2 DEF Quiet, Below, BelowNext
  <2>4. QED BY <2>1, <2>3, QuietAims, Idle DEF NoNewInterrupt
<1>5. QED BY <1>2, <1>3, <1>4

\* An answer moves a turn from the requests to the turns that are to run; its
\* lines tell of no turn that starts.
LEMMA AnswerAims ==
  ASSUME Aim, NEW s \in Sessions, Answer(s) PROVE InterruptsAreAimed' /\ Lined' /\ Sent'
<1> DEFINE w == server[s]
<1>1. PICK r \in server[s].todo, ok \in BOOLEAN :
        LET lacks == [server[s] EXCEPT !.todo = @ \ {r}]
             does ==
               CASE r.op = "turn" ->
                      [lacks EXCEPT !.turns = Append(@, r.turn), !.lines = Append(@, Reply(r, TRUE))]
                 [] r.op = "interrupt" ->
                      [lacks EXCEPT !.running = 0,
                                    !.lines = @ \o <<Reply(r, TRUE),
                                                    [kind |-> "completed", turn |-> r.turn]>>]
                 [] r.op = "settings" ->
                      [lacks EXCEPT !.plan = r.on,
                                    !.lines = @ \o <<[kind |-> "plan", on |-> r.on],
                                                     Reply(r, TRUE)>>]
        IN server' = [server EXCEPT ![s] =
                            IF ok THEN does
                                  ELSE [lacks EXCEPT !.lines = Append(@, Reply(r, FALSE))]]
  BY DEF Answer
<1> DEFINE lacks == [w EXCEPT !.todo = @ \ {r}]
<1>2. /\ w \in ServerType /\ w.turns \in Seq(Turns) /\ w.lines \in Seq(Notes \cup Replies)
      /\ r \in Requests /\ r \in w.todo
  BY Types DEF Aim, ServerType
<1>3. /\ lacks.todo \subseteq w.todo /\ lacks.turns = w.turns /\ lacks.running = w.running
      /\ lacks.lines = w.lines /\ lacks.tasks = w.tasks /\ lacks \in ServerType
  BY <1>2 DEF ServerType
<1>4. r.id \in Nat /\ r.op \in {"turn", "interrupt", "settings"}
      /\ (r.op \in {"turn", "interrupt"} => r.turn \in Turns)
      /\ (r.op = "settings" => r.on \in BOOLEAN)
  BY <1>2 DEF Requests
<1>5. \A yes \in BOOLEAN : Reply(r, yes) \in Notes \cup Replies /\ Reply(r, yes).kind = "reply"
  BY <1>4 DEF Reply, Replies
<1>6. UNCHANGED <<queue, handle, sends>> BY DEF Answer
<1>7. CASE ~ok
  <2> DEFINE n == Reply(r, FALSE)
             v == [lacks EXCEPT !.lines = Append(@, n)]
  <2>1. server' = [server EXCEPT ![s] = v] BY <1>1, <1>7
  <2>2. n \in Notes \cup Replies /\ n.kind = "reply" BY <1>5
  <2> HIDE DEF n, lacks, w
  <2>3. /\ v.running = w.running /\ v.turns = w.turns /\ v.lines = Append(w.lines, n)
        /\ v.todo \subseteq w.todo /\ v.tasks = w.tasks
    BY <1>3 DEF ServerType
  <2> HIDE DEF v
  <2>4. \A k \in DOMAIN v.lines : v.lines[k] = n \/ (k \in DOMAIN w.lines /\ v.lines[k] = w.lines[k])
    BY <1>2, <2>2, <2>3, OneMore
  <2>5. \A u \in Nat : Upto(w, u) => Upto(v, u) BY <2>2, <2>3, <2>4 DEF Upto
  <2>6. QED BY <1>6, <2>1, <2>3, <2>5, ServerAims DEF w
<1>8. CASE ok /\ r.op = "turn"
  <2> DEFINE n == Reply(r, TRUE)
             v == [lacks EXCEPT !.turns = Append(@, r.turn), !.lines = Append(@, n)]
  <2>1. server' = [server EXCEPT ![s] = v] BY <1>1, <1>8
  <2>2. n \in Notes \cup Replies /\ n.kind = "reply" BY <1>5
  <2> HIDE DEF n, lacks, w
  <2>3. /\ v.running = w.running /\ v.turns = Append(w.turns, r.turn)
        /\ v.lines = Append(w.lines, n) /\ v.todo \subseteq w.todo /\ v.tasks = w.tasks
    BY <1>3 DEF ServerType
  <2> HIDE DEF v
  <2>4. \A k \in DOMAIN v.lines : v.lines[k] = n \/ (k \in DOMAIN w.lines /\ v.lines[k] = w.lines[k])
    BY <1>2, <2>2, <2>3, OneMore
  <2>5. \A k \in DOMAIN v.turns :
          v.turns[k] = r.turn \/ (k \in DOMAIN w.turns /\ v.turns[k] = w.turns[k])
    BY <1>2, <1>4, <1>8, <2>3, OneMore
  <2>6. ASSUME NEW u \in Nat, Upto(w, u) PROVE Upto(v, u)
    <3>1. r.turn <= u BY <1>2, <1>8, <2>6 DEF Upto
    <3>2. QED BY <2>2, <2>3, <2>4, <2>5, <2>6, <3>1 DEF Upto
  <2>7. QED BY <1>6, <2>1, <2>3, <2>6, ServerAims DEF w
<1>9. CASE ok /\ r.op = "interrupt"
  <2> DEFINE n == Reply(r, TRUE)
             m == [kind |-> "completed", turn |-> r.turn]
             v == [lacks EXCEPT !.running = 0, !.lines = @ \o <<n, m>>]
  <2>1. server' = [server EXCEPT ![s] = v] BY <1>1, <1>9
  <2>2. n \in Notes \cup Replies /\ n.kind = "reply" BY <1>5
  <2>3. m \in Notes \cup Replies /\ m.kind = "completed" BY <1>4, <1>9 DEF Notes
  <2> HIDE DEF n, m, lacks, w
  <2>4. /\ v.running = 0 /\ v.turns = w.turns
        /\ v.lines = w.lines \o <<n, m>> /\ v.todo \subseteq w.todo /\ v.tasks = w.tasks
    BY <1>3 DEF ServerType
  <2> HIDE DEF v
  <2>5. \A k \in DOMAIN v.lines :
          v.lines[k] \in {n, m} \/ (k \in DOMAIN w.lines /\ v.lines[k] = w.lines[k])
    BY <1>2, <2>2, <2>3, <2>4, TwoMore
  <2>6. \A u \in Nat : Upto(w, u) => Upto(v, u) BY <2>2, <2>3, <2>4, <2>5 DEF Upto
  <2>7. QED BY <1>6, <2>1, <2>4, <2>6, ServerAims DEF w
<1>10. CASE ok /\ r.op = "settings"
  <2> DEFINE n == Reply(r, TRUE)
             m == [kind |-> "plan", on |-> r.on]
             v == [lacks EXCEPT !.plan = r.on, !.lines = @ \o <<m, n>>]
  <2>1. server' = [server EXCEPT ![s] = v] BY <1>1, <1>10
  <2>2. n \in Notes \cup Replies /\ n.kind = "reply" BY <1>5
  <2>3. m \in Notes \cup Replies /\ m.kind = "plan" BY <1>4, <1>10 DEF Notes
  <2> HIDE DEF n, m, lacks, w
  <2>4. /\ v.running = w.running /\ v.turns = w.turns
        /\ v.lines = w.lines \o <<m, n>> /\ v.todo \subseteq w.todo /\ v.tasks = w.tasks
    BY <1>3 DEF ServerType
  <2> HIDE DEF v
  <2>5. \A k \in DOMAIN v.lines :
          v.lines[k] \in {m, n} \/ (k \in DOMAIN w.lines /\ v.lines[k] = w.lines[k])
    BY <1>2, <2>2, <2>3, <2>4, TwoMore
  <2>6. \A u \in Nat : Upto(w, u) => Upto(v, u) BY <2>2, <2>3, <2>4, <2>5 DEF Upto
  <2>7. QED BY <1>6, <2>1, <2>4, <2>6, ServerAims DEF w
<1>11. QED BY <1>4, <1>7, <1>8, <1>9, <1>10

\* Reading a line moves a notification from the lines to the tasks.
LEMMA ReadAims ==
  ASSUME Aim, NEW s \in Sessions, Read(s) PROVE InterruptsAreAimed' /\ Lined' /\ Sent'
<1> DEFINE w == server[s]
           line == Head(w.lines)
           rest == [w EXCEPT !.lines = Tail(@)]
<1>1. w \in ServerType /\ w.lines \in Seq(Notes \cup Replies) /\ w.lines # <<>>
  BY Types DEF Aim, ServerType, Read
<1>2. line = w.lines[1] /\ 1 \in DOMAIN w.lines BY <1>1
<1>3. \A k \in DOMAIN Tail(w.lines) : k + 1 \in DOMAIN w.lines
                                       /\ Tail(w.lines)[k] = w.lines[k + 1]
  BY <1>1
<1>4. /\ rest.running = w.running /\ rest.turns = w.turns /\ rest.lines = Tail(w.lines)
      /\ rest.todo = w.todo /\ rest.tasks = w.tasks
      /\ \A T : [rest EXCEPT !.tasks = T].running = w.running
      /\ \A T : [rest EXCEPT !.tasks = T].turns = w.turns
      /\ \A T : [rest EXCEPT !.tasks = T].lines = Tail(w.lines)
      /\ \A T : [rest EXCEPT !.tasks = T].todo = w.todo
      /\ \A T : [rest EXCEPT !.tasks = T].tasks = T
  BY <1>1 DEF ServerType
<1>5. UNCHANGED sends BY DEF Read
<1>6. CASE line.kind = "reply"
  <2>1. server' = [server EXCEPT ![s] = rest] BY <1>6 DEF Read
  <2>2. /\ \A t \in Sessions : handle'[t].known = handle[t].known
        /\ UNCHANGED queue \/ (queue # <<>> /\ Release)
    <3>1. CASE Awaits(s, line.id)
      <4>1. Resume(s, line.ok) BY <1>6, <3>1 DEF Read
      <4>2. handle' = handle \/ \E b : handle' = [handle EXCEPT ![s].native = b]
        BY <4>1 DEF Resume
      <4>3. \A t \in Sessions : handle'[t].known = handle[t].known
        <5>1. handle \in [Sessions -> HandleType] BY Types DEF Aim
        <5>2. \A b : [handle[s] EXCEPT !.native = b].known = handle[s].known
          BY <5>1 DEF HandleType
        <5>3. QED BY <4>2, <5>1, <5>2
      <4>4. QED BY <3>1, <4>1, <4>3 DEF Awaits, Resume
    <3>2. CASE ~Awaits(s, line.id) BY <1>6, <3>2 DEF Read
    <3>3. QED BY <3>1, <3>2
  <2> HIDE DEF rest, line, w
  <2>3. \A u \in Nat : Upto(w, u) => Upto(rest, u) BY <1>3, <1>4 DEF Upto
  <2>4. Quiet
    <3>1. \A t \in Sessions, u \in Nat : Below(t, u) => BelowNext(t, u)
      <4>1. TAKE t \in Sessions, u \in Nat
      <4>2. HAVE Below(t, u)
      <4>3. handle[t].known <= u /\ Upto(server[t], u) BY <4>2, Splits
      <4>4. server'[t] = IF t = s THEN rest ELSE server[t] BY <2>1, Types DEF Aim
      <4>5. Upto(server'[t], u) BY <2>3, <4>3, <4>4 DEF w
      <4>6. QED BY <2>2, <4>3, <4>5 DEF Upto, BelowNext
    <3>2. QED BY <3>1 DEF Quiet
  <2>5. NoNewInterrupt BY <1>4, <2>1, NoMoreTodo DEF w, Aim
  <2>6. QED BY <1>5, <2>2, <2>4, <2>5, QuietAims, Idle
<1>7. CASE line.kind # "reply"
  <2> DEFINE v == [rest EXCEPT !.tasks = @ \cup {line}]
  <2>1. server' = [server EXCEPT ![s] = v] /\ UNCHANGED <<queue, handle>>
    BY <1>7 DEF Read
  <2> HIDE DEF rest
  <2>2. /\ v.running = w.running /\ v.turns = w.turns /\ v.lines = Tail(w.lines)
        /\ v.todo = w.todo /\ v.tasks = w.tasks \cup {line}
    BY <1>4
  <2> HIDE DEF v, line, w
  <2>3. ASSUME NEW u \in Nat, Upto(w, u) PROVE Upto(v, u)
    <3>1. line.kind = "started" => line.turn <= u BY <1>2, <2>3 DEF Upto
    <3>2. QED BY <1>3, <2>2, <2>3, <3>1 DEF Upto
  <2>4. QED BY <1>5, <2>1, <2>2, <2>3, ServerAims DEF w
<1>8. QED BY <1>6, <1>7

\* The turn that is known is one that a notification names.
LEMMA HandleAims ==
  ASSUME Aim, NEW s \in Sessions, Handle(s) PROVE InterruptsAreAimed' /\ Lined' /\ Sent'
<1> DEFINE w == server[s]
<1>1. PICK note \in server[s].tasks :
         /\ server' = [server EXCEPT ![s].tasks = @ \ {note}]
         /\ handle' = [handle EXCEPT ![s].known = CASE note.kind = "started" -> note.turn
                                                   [] note.kind = "completed" -> 0
                                                   [] OTHER -> @]
  BY DEF Handle
<1> DEFINE to == CASE note.kind = "started" -> note.turn
                   [] note.kind = "completed" -> 0
                   [] OTHER -> handle[s].known
           v == [w EXCEPT !.tasks = @ \ {note}]
<1>2. server' = [server EXCEPT ![s] = v] /\ handle' = [handle EXCEPT ![s].known = to] BY <1>1
<1>3. \/ note.kind = "started" /\ to = note.turn
      \/ to = 0
      \/ to = handle[s].known
  OBVIOUS
<1> HIDE DEF to
<1>4. handle'[s].known = to /\ \A t \in Sessions \ {s} : handle'[t] = handle[t]
  BY <1>2, Types DEF Aim, HandleType
<1>5. /\ v.running = w.running /\ v.turns = w.turns /\ v.lines = w.lines
      /\ v.todo = w.todo /\ v.tasks = w.tasks \ {note} /\ note \in w.tasks
  BY Types DEF Aim, ServerType
<1> HIDE DEF v, w
<1>6. ASSUME NEW u \in Nat, handle[s].known <= u, Upto(w, u) PROVE to <= u /\ Upto(v, u)
  <2>1. note.kind = "started" => note.turn <= u BY <1>5, <1>6 DEF Upto
  <2>2. to <= u BY <1>3, <1>6, <2>1
  <2>3. Upto(v, u) BY <1>5, <1>6 DEF Upto
  <2>4. QED BY <2>2, <2>3
<1>7. Quiet BY <1>2, <1>4, <1>6, ServerQuiet DEF w, Aim
<1>8. NoNewInterrupt BY <1>2, <1>5, NoMoreTodo DEF w, Aim
<1>9. QED BY <1>7, <1>8, QuietAims, Idle DEF Handle

\* Commands that leave the line, and calls of forceStop that go on without it.
LEMMA LeavesAims ==
  ASSUME Aim, NEW s \in Sessions,
         AckTimesOut(s) \/ SpawnFails(s) \/ Returns(s) \/ PauseTakes(s)
  PROVE  InterruptsAreAimed' /\ Lined' /\ Sent'
<1>1. UNCHANGED <<server, sends>> BY DEF AckTimesOut, SpawnFails, Returns, PauseTakes
<1>2. UNCHANGED queue \/ (queue # <<>> /\ Release)
  BY DEF AckTimesOut, SpawnFails, Returns, PauseTakes, Takes
<1>3. \A t \in Sessions : handle'[t].known = handle[t].known
  <2>1. CASE PauseTakes(s)
    <3>1. handle \in [Sessions -> HandleType] BY Types DEF Aim
    <3>2. [handle[s] EXCEPT !.held = FALSE].known = handle[s].known BY <3>1 DEF HandleType
    <3>3. QED BY <2>1, <3>1, <3>2 DEF PauseTakes
  <2>2. QED BY <2>1 DEF AckTimesOut, SpawnFails, Returns
<1>4. Quiet BY <1>1, <1>3 DEF Quiet, Below, BelowNext
<1>5. NoNewInterrupt BY <1>1 DEF NoNewInterrupt
<1>6. QED BY <1>1, <1>2, <1>4, <1>5, QuietAims, Idle

\* A new process has been asked nothing and knows of no turn.
LEMMA InsertAims ==
  ASSUME Aim, NEW s \in Sessions, InsertTakes(s) PROVE InterruptsAreAimed' /\ Lined' /\ Sent'
<1>1. /\ handle' = [handle EXCEPT ![s] = NewHandle]
      /\ server' = [server EXCEPT ![s] = NewServer]
      /\ queue # <<>> /\ Release /\ UNCHANGED sends
  BY DEF InsertTakes, Takes
<1>2. handle'[s] = NewHandle /\ \A t \in Sessions \ {s} : handle'[t] = handle[t]
  BY <1>1, Types DEF Aim
<1>3. \A u \in Nat : NewHandle.known <= u /\ Upto(NewServer, u)
  BY DEF NewHandle, NewServer, Upto
<1>4. Quiet BY <1>1, <1>2, <1>3, ServerQuiet DEF Aim
<1>5. NewServer.todo \subseteq server[s].todo BY DEF NewServer
<1>6. NoNewInterrupt BY <1>1, <1>5, NoMoreTodo DEF Aim
<1>7. QED BY <1>1, <1>4, <1>6, QuietAims

-----------------------------------------------------------------------------

LEMMA InitAims == Init => Aim
<1> SUFFICES ASSUME Init PROVE Aim OBVIOUS
<1>1. TypeOK BY InitTypes
<1>2. queue = <<>> /\ \A s \in Sessions : /\ server[s] = NewServer
                                          /\ handle[s] = NewHandle /\ sends[s] = 0
  BY DEF Init
<1>3. InterruptsAreAimed BY <1>2 DEF InterruptsAreAimed, NewServer
<1>4. Lined BY <1>2 DEF Lined
<1>5. Sent BY <1>2 DEF Sent, Below, NewServer, NewHandle
<1>6. QED BY <1>1, <1>3, <1>4, <1>5 DEF Aim

LEMMA NextAims == Aim /\ [Next]_vars => Aim'
<1> SUFFICES ASSUME Aim, [Next]_vars PROVE Aim' OBVIOUS
<1>1. TypeOK' BY NextTypes DEF Aim
<1>2. CASE UNCHANGED vars
  <2>1. UNCHANGED <<queue, handle, server, sends>> BY <1>2 DEF vars
  <2>2. NoNewInterrupt BY <2>1 DEF NoNewInterrupt
  <2>3. QED BY <1>1, <2>1, <2>2, Untouched, Idle, QuietAims DEF Aim
<1>3. ASSUME NEW s \in Sessions, User(s) \/ TimerFires(s)
      PROVE  InterruptsAreAimed' /\ Lined' /\ Sent'
  BY <1>3, SendAims, ChatAims DEF User, StopAgain, TimerFires
<1>4. ASSUME NEW s \in Sessions, Command(s) PROVE InterruptsAreAimed' /\ Lined' /\ Sent'
  BY <1>4, SendStartsAims, InterruptStartsAims, PlanStartsAims, LeavesAims, InsertAims
     DEF Command
<1>5. ASSUME NEW s \in Sessions, Forcing(s) PROVE InterruptsAreAimed' /\ Lined' /\ Sent'
  BY <1>5, FailureAims, ChatAims, LeavesAims DEF Forcing
<1>6. ASSUME NEW s \in Sessions, Answer(s) \/ AppServer(s) \/ WriterFails(s)
      PROVE  InterruptsAreAimed' /\ Lined' /\ Sent'
  BY <1>6, AnswerAims, WorksAims, FailureAims DEF AppServer
<1>7. ASSUME NEW s \in Sessions, Read(s) \/ Handle(s)
      PROVE  InterruptsAreAimed' /\ Lined' /\ Sent'
  BY <1>7, ReadAims, HandleAims
<1>8. QED BY <1>1, <1>2, <1>3, <1>4, <1>5, <1>6, <1>7 DEF Next, Aim

\* An interrupt that the app-server has not answered names no turn of a message
\* that was sent after the click on Stop it comes from, however long the click
\* stood in line, with any number of sessions, messages, stops and failures.
THEOREM StopsHitTheirTurn == Spec => []InterruptsAreAimed
<1>1. Aim => InterruptsAreAimed BY DEF Aim
<1>2. QED BY <1>1, InitAims, NextAims, PTL DEF Spec

-----------------------------------------------------------------------------
(* Forced stops hit their turn: while one is under way nobody who is not    *)
(* hasty sends, so it was asked for when the last message was the last one. *)

\* A stop that may still escalate, and every forced stop, is meant for the last
\* message that was sent.
Current == \A s \in Sessions :
    /\ ui[s].stop = "stopping" => ui[s].busy /\ ui[s].upto = sends[s]
    /\ \A i \in DOMAIN forces[s] : forces[s][i].upto = sends[s]

\* A sequence without one of its elements: the others in their order.
Without(q, i, z) ==
    /\ DOMAIN z \subseteq Nat
    /\ \A j \in DOMAIN z : j < i => j \in DOMAIN q /\ z[j] = q[j]
    /\ \A j \in DOMAIN z : ~(j < i) => j + 1 \in DOMAIN q /\ z[j] = q[j + 1]
    /\ \A j \in DOMAIN q : j < i => j \in DOMAIN z /\ z[j] = q[j]
    /\ \A j \in DOMAIN q : i < j => j - 1 \in DOMAIN z /\ z[j - 1] = q[j]

LEMMA Joint ==
  ASSUME NEW S, NEW a \in Seq(S), NEW b \in Seq(S)
  PROVE  /\ a \o b \in Seq(S)
         /\ Len(a \o b) = Len(a) + Len(b)
         /\ \A j \in 1 .. Len(a) + Len(b) :
              (a \o b)[j] = IF j <= Len(a) THEN a[j] ELSE b[j - Len(a)]
OBVIOUS

LEMMA Removed ==
  ASSUME NEW S, NEW q \in Seq(S), NEW i \in DOMAIN q
  PROVE  Without(q, i, SubSeq(q, 1, i - 1) \o SubSeq(q, i + 1, Len(q)))
<1> DEFINE a == SubSeq(q, 1, i - 1)
           b == SubSeq(q, i + 1, Len(q))
           n == Len(q)
           z == a \o b
<1>1. n \in Nat /\ i \in 1 .. n /\ DOMAIN q = 1 .. n OBVIOUS
<1>2. /\ a \in Seq(S) /\ Len(a) = i - 1
      /\ \A j \in 1 .. i - 1 : a[j] = q[j]
  BY <1>1
<1>3. /\ b \in Seq(S) /\ Len(b) = n - i
      /\ \A j \in 1 .. n - i : b[j] = q[j + i]
  BY <1>1
<1> HIDE DEF a, b
<1>4. /\ z \in Seq(S)
      /\ Len(z) = Len(a) + Len(b)
      /\ \A j \in 1 .. Len(a) + Len(b) : z[j] = IF j <= Len(a) THEN a[j] ELSE b[j - Len(a)]
  BY <1>2, <1>3, Joint
<1> HIDE DEF n, z
<1>5. Len(a) + Len(b) = n - 1 BY <1>1, <1>2, <1>3
<1>6. DOMAIN z = 1 .. n - 1 BY <1>4, <1>5
<1>7. ASSUME NEW j \in 1 .. n - 1, j < i PROVE j \in DOMAIN q /\ z[j] = q[j]
  BY <1>1, <1>2, <1>4, <1>5, <1>7
<1>8. ASSUME NEW j \in 1 .. n - 1, ~(j < i) PROVE j + 1 \in DOMAIN q /\ z[j] = q[j + 1]
  <2> DEFINE m == j - (i - 1)
  <2>1. m \in 1 .. n - i /\ j + 1 \in 1 .. n /\ m + i = j + 1 /\ ~(j <= i - 1)
    BY <1>1, <1>8
  <2>2. z[j] = b[m] BY <1>1, <1>2, <1>4, <1>5, <2>1
  <2> HIDE DEF m
  <2>3. b[m] = q[m + i] BY <1>3, <2>1
  <2>4. QED BY <1>1, <2>1, <2>2, <2>3
<1>9. ASSUME NEW j \in 1 .. n, j < i PROVE j \in 1 .. n - 1 /\ z[j] = q[j]
  <2>1. j \in 1 .. n - 1 BY <1>1, <1>9
  <2>2. QED BY <1>7, <1>9, <2>1
<1>10. ASSUME NEW j \in 1 .. n, i < j PROVE j - 1 \in 1 .. n - 1 /\ z[j - 1] = q[j]
  <2> DEFINE m == j - 1
  <2>1. m \in 1 .. n - 1 /\ ~(m < i) /\ m + 1 = j BY <1>1, <1>10
  <2> HIDE DEF m
  <2>2. z[m] = q[m + 1] BY <1>8, <2>1
  <2>3. QED BY <2>1, <2>2 DEF m
<1>11. Without(q, i, z) BY <1>1, <1>6, <1>7, <1>8, <1>9, <1>10 DEF Without
<1>12. QED BY <1>11 DEF z, a, b

\* A forced stop that moves on is the only one that changes.
LEMMA MovesForces ==
  ASSUME TypeOK, NEW s \in Sessions, NEW i \in DOMAIN forces[s], NEW to, Moves(s, i, to)
  PROVE  /\ \A t \in Sessions \ {s} : forces'[t] = forces[t]
         /\ DOMAIN forces'[s] = DOMAIN forces[s]
         /\ \A j \in DOMAIN forces[s] : j # i => forces'[s][j] = forces[s][j]
         /\ forces'[s][i].at = to /\ forces'[s][i].upto = forces[s][i].upto
<1>1. forces \in [Sessions -> Seq(Forced)] BY Types
<1>2. forces[s] \in Seq(Forced) /\ forces[s][i] \in Forced BY <1>1
<1>3. /\ [forces[s][i] EXCEPT !.at = to].at = to
      /\ [forces[s][i] EXCEPT !.at = to].upto = forces[s][i].upto
  BY <1>2 DEF Forced
<1>4. forces' = [forces EXCEPT ![s] = [forces[s] EXCEPT ![i] = [forces[s][i] EXCEPT !.at = to]]]
  BY DEF Moves
<1>5. QED BY <1>1, <1>2, <1>3, <1>4

\* One that leaves leaves the others in their order.
LEMMA LeavesForces ==
  ASSUME TypeOK, NEW s \in Sessions, NEW i \in DOMAIN forces[s], Leaves(s, i)
  PROVE  /\ \A t \in Sessions \ {s} : forces'[t] = forces[t]
         /\ Without(forces[s], i, forces'[s])
<1>1. forces \in [Sessions -> Seq(Forced)] /\ forces[s] \in Seq(Forced) BY Types
<1>2. /\ \A t \in Sessions \ {s} : forces'[t] = forces[t]
      /\ forces'[s] = SubSeq(forces[s], 1, i - 1) \o SubSeq(forces[s], i + 1, Len(forces[s]))
  BY <1>1 DEF Leaves
<1>3. Without(forces[s], i, SubSeq(forces[s], 1, i - 1) \o SubSeq(forces[s], i + 1, Len(forces[s])))
  BY <1>1, Removed
<1>4. QED BY <1>2, <1>3

\* A new one stands behind the others.
LEMMA EscalateForces ==
  ASSUME TypeOK, NEW s \in Sessions, Escalate(s)
  PROVE  /\ \A t \in Sessions \ {s} : forces'[t] = forces[t]
         /\ \A j \in DOMAIN forces[s] : j \in DOMAIN forces'[s] /\ forces'[s][j] = forces[s][j]
         /\ \A j \in DOMAIN forces'[s] : j \in DOMAIN forces[s] \/ forces'[s][j].upto = ui[s].upto
         /\ \E j \in DOMAIN forces'[s] : j \notin DOMAIN forces[s] /\ forces'[s][j].at = "pausing"
         /\ \A j \in DOMAIN forces'[s] : j \in DOMAIN forces[s] \/ forces'[s][j].at = "pausing"
<1> DEFINE n == Len(forces[s])
           f == [at |-> "pausing", upto |-> ui[s].upto]
<1>1. forces \in [Sessions -> Seq(Forced)] /\ forces[s] \in Seq(Forced) BY Types
<1>2. f \in Forced BY Types DEF Forced, UiType
<1>3. /\ \A t \in Sessions \ {s} : forces'[t] = forces[t]
      /\ forces'[s] = Append(forces[s], f)
  BY <1>1 DEF Escalate
<1>4. f.at = "pausing" /\ f.upto = ui[s].upto OBVIOUS
<1> HIDE DEF f
<1>5. /\ DOMAIN forces'[s] = 1 .. n + 1 /\ DOMAIN forces[s] = 1 .. n /\ n \in Nat
      /\ \A j \in 1 .. n : forces'[s][j] = forces[s][j]
      /\ forces'[s][n + 1] = f
  BY <1>1, <1>2, <1>3
<1> HIDE DEF n
<1>6. n + 1 \in 1 .. n + 1 /\ n + 1 \notin 1 .. n BY <1>5
<1>7. \A j \in 1 .. n + 1 : j \in 1 .. n \/ j = n + 1 BY <1>5
<1>8. \A j \in 1 .. n : j \in 1 .. n + 1 BY <1>5
<1>9. QED BY <1>3, <1>4, <1>5, <1>6, <1>7, <1>8

\* Whoever the forced stops are meant for was meant before.
SameAims == \A t \in Sessions : \A j \in DOMAIN forces'[t] :
    \E k \in DOMAIN forces[t] : forces'[t][j].upto = forces[t][k].upto

\* The stop under way, if any, is the one it was.
SameStops == \A t \in Sessions : ui'[t].stop = "stopping" =>
    ui[t].stop = "stopping" /\ (ui[t].busy => ui'[t].busy) /\ ui'[t].upto = ui[t].upto

LEMMA CurrentSame ==
  ASSUME Current, SameAims, SameStops, UNCHANGED sends PROVE Current'
<1>1. ASSUME NEW t \in Sessions, ui'[t].stop = "stopping"
      PROVE  ui'[t].busy /\ ui'[t].upto = sends'[t]
  BY <1>1 DEF Current, SameStops
<1>2. ASSUME NEW t \in Sessions, NEW j \in DOMAIN forces'[t]
      PROVE  forces'[t][j].upto = sends'[t]
  <2>1. PICK k \in DOMAIN forces[t] : forces'[t][j].upto = forces[t][k].upto BY DEF SameAims
  <2>2. QED BY <2>1 DEF Current
<1>3. QED BY <1>1, <1>2 DEF Current

LEMMA MovesAims ==
  ASSUME TypeOK, NEW s \in Sessions, NEW i \in DOMAIN forces[s], NEW to, Moves(s, i, to)
  PROVE  SameAims
BY MovesForces DEF SameAims

LEMMA GoesAims ==
  ASSUME TypeOK, NEW s \in Sessions, NEW i \in DOMAIN forces[s], Leaves(s, i)
  PROVE  SameAims
BY LeavesForces DEF SameAims, Without

\* What the chat sets free has no stop; whatever else the steps below set of
\* the chat is no stop.
LEMMA UnbusyStops ==
  ASSUME NEW u \in UiType PROVE Unbusy(u).stop = "idle" /\ ~Unbusy(u).busy
                                /\ Unbusy(u).plan = u.plan /\ Unbusy(u).lost = u.lost
BY DEF Unbusy, UiType

LEMMA ErredStops ==
  ASSUME NEW u \in UiType
  PROVE  LET e == [Unbusy(u) EXCEPT !.erred = TRUE]
         IN e.stop = "idle" /\ e.erred /\ e.plan = u.plan /\ e.lost = u.lost
BY DEF Unbusy, UiType

LEMMA ForcingCurrent ==
  ASSUME TypeOK, Current, NEW s \in Sessions,
         PauseTakes(s) \/ InsertTakes(s) \/ Forcing(s)
  PROVE  Current'
<1>1. ui \in [Sessions -> UiType] BY Types
<1>2. UNCHANGED sends BY DEF PauseTakes, InsertTakes, Forcing, Killed, Spawned, SpawnFails, Returns
<1>3. SameAims
  BY MovesAims, GoesAims
     DEF PauseTakes, InsertTakes, Forcing, Killed, Spawned, SpawnFails, Returns
<1>4. SameStops
  <2>1. CASE UNCHANGED ui BY <2>1 DEF SameStops
  <2>2. CASE InsertTakes(s) BY <1>1, <2>2 DEF InsertTakes, SameStops, UiType
  <2>3. CASE SpawnFails(s) BY <1>1, <2>3 DEF SpawnFails, SameStops, UiType
  <2>4. CASE Returns(s) BY <1>1, <2>4, UnbusyStops DEF Returns, SameStops
  <2>5. QED BY <2>1, <2>2, <2>3, <2>4 DEF PauseTakes, Forcing, Killed, Spawned
<1>5. QED BY <1>2, <1>3, <1>4, CurrentSame

\* No news brings a stop that was not there, and none hides the busy flag of
\* one that stays.
LEMMA NewsCurrent ==
  ASSUME TypeOK, Current, NEW s \in Sessions, Read(s) \/ Handle(s) PROVE Current'
<1>1. ui \in [Sessions -> UiType] BY Types
<1>2. UNCHANGED <<sends, forces>> BY DEF Read, Handle
<1>3. SameAims BY <1>2 DEF SameAims
<1>4. SameStops
  <2>1. CASE UNCHANGED ui BY <2>1 DEF SameStops
  <2>2. ASSUME NEW b, ui' = [ui EXCEPT ![s].plan = b] PROVE SameStops
    BY <1>1, <2>2 DEF SameStops, UiType
  <2>3. CASE Read(s) BY <2>1, <2>2, <2>3 DEF Read, Resume
  <2>4. CASE Handle(s)
    <3>1. \/ ui' = [ui EXCEPT ![s] = Unbusy(ui[s])]
          \/ ui' = [ui EXCEPT ![s] = [ui[s] EXCEPT !.busy = TRUE]]
          \/ ui' = [ui EXCEPT ![s] = [Unbusy(ui[s]) EXCEPT !.erred = TRUE]]
          \/ \E on : ui' = [ui EXCEPT ![s] = [ui[s] EXCEPT !.plan = on]]
          \/ ui' = [ui EXCEPT ![s] = ui[s]]
      <4>1. PICK note \in server[s].tasks :
              ui' = [ui EXCEPT ![s] = CASE note.kind = "completed" -> Unbusy(@)
                                        [] note.kind = "delta" -> [@ EXCEPT !.busy = TRUE]
                                        [] note.kind = "error" -> [Unbusy(@) EXCEPT !.erred = TRUE]
                                        [] note.kind = "plan" -> [@ EXCEPT !.plan = note.on]
                                        [] OTHER -> @]
        BY <2>4 DEF Handle
      <4>2. QED BY <4>1
    <3>2. CASE ui' = [ui EXCEPT ![s] = Unbusy(ui[s])]
      BY <1>1, <3>2, UnbusyStops DEF SameStops
    <3>3. CASE ui' = [ui EXCEPT ![s] = [ui[s] EXCEPT !.busy = TRUE]]
      BY <1>1, <3>3 DEF SameStops, UiType
    <3>4. CASE \E on : ui' = [ui EXCEPT ![s] = [ui[s] EXCEPT !.plan = on]]
      BY <1>1, <3>4 DEF SameStops, UiType
    <3>5. CASE ui' = [ui EXCEPT ![s] = ui[s]] BY <1>1, <3>5 DEF SameStops
    <3>6. CASE ui' = [ui EXCEPT ![s] = [Unbusy(ui[s]) EXCEPT !.erred = TRUE]]
      BY <1>1, <3>6, ErredStops DEF SameStops
    <3>7. QED BY <3>1, <3>2, <3>3, <3>4, <3>5, <3>6
  <2>5. QED BY <2>3, <2>4
<1>5. QED BY <1>2, <1>3, <1>4, CurrentSame

LEMMA UserCurrent ==
  ASSUME TypeOK, Current, "hasty" \notin Acts, NEW s \in Sessions, User(s) \/ TimerFires(s)
  PROVE  Current'
<1>1. ui \in [Sessions -> UiType] /\ sends \in [Sessions -> MaybeTurn] BY Types
<1>2. CASE Send(s)
  <2>1. ~ui[s].busy /\ forces[s] = <<>> BY <1>2 DEF Send, AtRest
  <2>2. /\ \A t \in Sessions \ {s} : ui'[t] = ui[t] /\ sends'[t] = sends[t]
        /\ ui'[s].stop = ui[s].stop /\ UNCHANGED forces
    BY <1>1, <1>2 DEF Send, UiType
  <2>3. ui[s].stop # "stopping" BY <2>1 DEF Current
  <2>4. ASSUME NEW t \in Sessions
        PROVE  /\ ui'[t].stop = "stopping" => ui'[t].busy /\ ui'[t].upto = sends'[t]
               /\ \A i \in DOMAIN forces'[t] : forces'[t][i].upto = sends'[t]
    <3>1. CASE t = s BY <2>1, <2>2, <2>3, <3>1
    <3>2. CASE t # s BY <2>2, <3>2 DEF Current
    <3>3. QED BY <3>1, <3>2
  <2>5. QED BY <2>4 DEF Current
<1>3. CASE Stop(s)
  <2>1. /\ \A t \in Sessions \ {s} : ui'[t] = ui[t]
        /\ ui'[s].busy = ui[s].busy /\ ui[s].busy /\ ui'[s].upto = sends[s]
        /\ UNCHANGED <<forces, sends>>
    BY <1>1, <1>3 DEF Stop, UiType
  <2>2. ASSUME NEW t \in Sessions
        PROVE  /\ ui'[t].stop = "stopping" => ui'[t].busy /\ ui'[t].upto = sends'[t]
               /\ \A i \in DOMAIN forces'[t] : forces'[t][i].upto = sends'[t]
    BY <2>1 DEF Current
  <2>3. QED BY <2>2 DEF Current
<1>4. CASE Escalate(s)
  <2>1. /\ \A t \in Sessions \ {s} : ui'[t] = ui[t]
        /\ ui'[s].stop = "forcing" /\ ui[s].upto = sends[s] /\ UNCHANGED sends
    BY <1>1, <1>4 DEF Escalate, UiType, Current
  <2>2. ASSUME NEW t \in Sessions, NEW i \in DOMAIN forces'[t]
        PROVE  forces'[t][i].upto = sends'[t]
    <3>1. CASE t = s
      <4>1. i \in DOMAIN forces'[s] BY <3>1
      <4>2. i \in DOMAIN forces[s] \/ forces'[s][i].upto = ui[s].upto
        BY <1>4, <4>1, EscalateForces
      <4>3. i \in DOMAIN forces[s] => forces'[s][i] = forces[s][i] BY <1>4, EscalateForces
      <4>4. QED BY <2>1, <3>1, <4>2, <4>3 DEF Current
    <3>2. CASE t # s
      <4>1. forces'[t] = forces[t] BY <1>4, <3>2, EscalateForces
      <4>2. QED BY <2>1, <3>2, <4>1 DEF Current
    <3>3. QED BY <3>1, <3>2
  <2>3. ASSUME NEW t \in Sessions, ui'[t].stop = "stopping"
        PROVE  ui'[t].busy /\ ui'[t].upto = sends'[t]
    BY <2>1, <2>3 DEF Current
  <2>4. QED BY <2>2, <2>3 DEF Current
<1>5. CASE TogglePlan(s)
  <2>1. SameStops BY <1>1, <1>5 DEF TogglePlan, SameStops, UiType
  <2>2. SameAims BY <1>5 DEF TogglePlan, SameAims
  <2>3. QED BY <1>5, <2>1, <2>2, CurrentSame DEF TogglePlan
<1>6. QED BY <1>2, <1>3, <1>4, <1>5 DEF User, StopAgain, TimerFires

LEMMA CommandCurrent ==
  ASSUME TypeOK, Current, NEW s \in Sessions,
         SendStarts(s) \/ InterruptStarts(s) \/ PlanStarts(s) \/ AckTimesOut(s)
           \/ Answer(s) \/ AppServer(s) \/ WriterFails(s) \/ UNCHANGED vars
  PROVE  Current'
<1>1. UNCHANGED <<sends, forces>>
  BY DEF SendStarts, InterruptStarts, PlanStarts, AckTimesOut, Answer, AppServer, WriterFails,
         vars, TurnStarts, Delta, TurnEnds, Errs, Wedge, Exit
<1>2. SameAims BY <1>1 DEF SameAims
<1>3. SameStops
  <2>1. CASE UNCHANGED ui BY <2>1 DEF SameStops
  <2>2. ASSUME NEW b, ui' = [ui EXCEPT ![s].plan = b] PROVE SameStops
    BY <2>2, Types DEF SameStops, UiType
  <2>3. CASE PlanStarts(s) BY <2>1, <2>2, <2>3 DEF PlanStarts
  <2>4. QED BY <2>1, <2>3
     DEF SendStarts, InterruptStarts, AckTimesOut, Answer, AppServer, WriterFails, vars,
         TurnStarts, Delta, TurnEnds, Errs, Wedge, Exit
<1>4. QED BY <1>1, <1>2, <1>3, CurrentSame

LEMMA InitCurrent == Init => Current
BY DEF Init, Current

LEMMA NextCurrent ==
  ASSUME "hasty" \notin Acts, TypeOK, Current, [Next]_vars PROVE Current'
<1>1. CASE UNCHANGED vars
  <2>1. SameStops /\ SameAims BY <1>1 DEF vars, SameStops, SameAims
  <2>2. QED BY <1>1, <2>1, CurrentSame DEF vars
<1>2. ASSUME NEW s \in Sessions,
             \/ User(s) \/ TimerFires(s) \/ Command(s) \/ Forcing(s) \/ Answer(s)
             \/ AppServer(s) \/ WriterFails(s) \/ Read(s) \/ Handle(s)
      PROVE  Current'
  BY <1>2, UserCurrent, CommandCurrent, ForcingCurrent, NewsCurrent DEF Command
<1>3. QED BY <1>1, <1>2 DEF Next

\* A forced stop kills the process before it works on a message that was sent
\* after the click, if the user does not send while one is under way: whatever
\* the number of sessions, messages, stops and failures, and however often a
\* forced stop was asked for again before the last one was over.
THEOREM KillsHitTheirTurn ==
  ASSUME "hasty" \notin Acts PROVE Spec => []KillsAreAimed
<1>1. Aim /\ Current => KillsAreAimed
  <2> SUFFICES ASSUME Aim, Current, NEW s \in Sessions, NEW i \in DOMAIN forces[s]
               PROVE  server[s].running <= forces[s][i].upto
    BY DEF KillsAreAimed
  <2>1. server[s].running <= sends[s] BY DEF Aim, Sent, Below
  <2>2. QED BY <2>1 DEF Current
<1>2. Init => Aim /\ Current BY InitAims, InitCurrent
<1>3. Aim /\ Current /\ [Next]_vars => Aim' /\ Current' BY NextAims, NextCurrent DEF Aim
<1>4. QED BY <1>1, <1>2, <1>3, PTL DEF Spec

-----------------------------------------------------------------------------
(* The chat shows every turn: a message is, at any time, in one place only - *)
(* in the line, asked for, about to run, running, or told to be over - and   *)
(* as long as it is anywhere the chat is busy.  A forced stop sets the chat  *)
(* free when its new process has nothing to do.                              *)

IsOf(c, s, op) == c.s = s /\ c.order.op = op

\* A message that nobody has taken from the line yet.
Waits(c, s) == IsOf(c, s, "send") /\ c.at = "queued"

Over(n) == n.kind = "completed"

NoneOver(v) ==
    /\ \A k \in DOMAIN v.lines : ~Over(v.lines[k])
    /\ \A n \in v.tasks : ~Over(n)

Due(v) == \E r \in v.todo : r.op = "turn"

\* The app-server has no turn before it, and none behind it that is news.
Rests(v) == ~Due(v) /\ v.turns = <<>> /\ v.running = 0 /\ NoneOver(v)

\* It has one at most.
Single(v) ==
    /\ \A r, q \in v.todo : r.op = "turn" /\ q.op = "turn" => r = q
    /\ Due(v) => v.turns = <<>> /\ v.running = 0 /\ NoneOver(v)
    /\ v.turns # <<>> => Tail(v.turns) = <<>> /\ v.running = 0 /\ NoneOver(v)
    /\ v.running # 0 => NoneOver(v)
    /\ \A k, l \in DOMAIN v.lines : Over(v.lines[k]) /\ Over(v.lines[l]) => k = l
    /\ \A k \in DOMAIN v.lines : Over(v.lines[k]) => \A n \in v.tasks : ~Over(n)
    /\ \A n, m \in v.tasks : Over(n) /\ Over(m) => n = m

\* A forced stop has taken the handle.
Underway(s) == \E i \in DOMAIN forces[s] : forces[s][i].at # "pausing"

\* Every pause in the line is of a forced stop of its own that waits for it.
Paired(s) == \E f \in [Nat -> Nat] :
    /\ \A k \in DOMAIN queue : IsOf(queue[k], s, "pause") =>
         f[k] \in DOMAIN forces[s] /\ forces[s][f[k]].at = "pausing"
    /\ \A k, l \in DOMAIN queue :
         IsOf(queue[k], s, "pause") /\ IsOf(queue[l], s, "pause") /\ f[k] = f[l] => k = l

\* What the user asked for before a forced stop stands before its pause.
Ahead(s) == \A i, j \in DOMAIN queue :
    (IsOf(queue[i], s, "send") \/ IsOf(queue[i], s, "plan")) /\ IsOf(queue[j], s, "pause") => i < j

\* Once one has taken the handle none of it is left.
Cleared(s) == Underway(s) => \A i \in DOMAIN queue :
    ~IsOf(queue[i], s, "send") /\ ~IsOf(queue[i], s, "plan")

\* The session has its process, and no error was reported in it.
Heard(s) == handle[s].held /\ ~ui[s].erred

Alone(s) == Heard(s) =>
    /\ Single(server[s])
    /\ \A i, j \in DOMAIN queue : Waits(queue[i], s) /\ Waits(queue[j], s) => i = j
    /\ \A i \in DOMAIN queue : Waits(queue[i], s) => Rests(server[s]) /\ ui[s].busy
    /\ ~Rests(server[s]) => ui[s].busy
    /\ Underway(s) => Rests(server[s])

Tells(s) == Paired(s) /\ Ahead(s) /\ Cleared(s) /\ Alone(s)

-----------------------------------------------------------------------------
(* What the steps do to the line *)

\* The command c joins the line.
Joins(c) == \E n \in DOMAIN queue' :
    /\ n \in Nat /\ n \notin DOMAIN queue /\ queue'[n] = c
    /\ \A i \in DOMAIN queue : i < n /\ i \in DOMAIN queue' /\ queue'[i] = queue[i]
    /\ \A i \in DOMAIN queue' : i = n \/ i \in DOMAIN queue

\* The head leaves it.
Advances ==
    /\ 1 \in DOMAIN queue /\ Head(queue) = queue[1] /\ DOMAIN queue' \subseteq Nat \ {0}
    /\ \A i \in DOMAIN queue' : i + 1 \in DOMAIN queue /\ queue'[i] = queue[i + 1]
    /\ \A i \in DOMAIN queue : i # 1 => i - 1 \in DOMAIN queue' /\ queue'[i - 1] = queue[i]

\* The head goes on to wait for the answer to request n.
Awaiting(n) ==
    /\ 1 \in DOMAIN queue /\ Head(queue) = queue[1] /\ DOMAIN queue' = DOMAIN queue
    /\ \A i \in DOMAIN queue : i # 1 => queue'[i] = queue[i]
    /\ queue'[1].s = queue[1].s /\ queue'[1].order = queue[1].order
    /\ queue'[1].id = n /\ queue'[1].at = "waiting"

NewCommand(s, o) == [s |-> s, order |-> o, id |-> 0, at |-> "queued"]

LEMMA Places == ASSUME TypeOK PROVE DOMAIN queue \subseteq Nat /\ \A i \in DOMAIN queue : i > 0
BY Types

LEMMA CallJoins ==
  ASSUME TypeOK, NEW s, NEW o, Call(s, o) PROVE Joins(NewCommand(s, o))
<1> DEFINE n == Len(queue)
           c == NewCommand(s, o)
<1>1. queue \in Seq(Commands) /\ queue' = Append(queue, c) BY Types DEF Call, NewCommand
<1> HIDE DEF c
<1>2. /\ DOMAIN queue' = 1 .. n + 1 /\ DOMAIN queue = 1 .. n /\ n \in Nat
      /\ \A j \in 1 .. n : queue'[j] = queue[j]
      /\ queue'[n + 1] = c
  BY <1>1
<1> HIDE DEF n
<1>3. n + 1 \in Nat /\ n + 1 \in 1 .. n + 1 /\ n + 1 \notin 1 .. n BY <1>2
<1>4. \A i \in 1 .. n : i < n + 1 /\ i \in 1 .. n + 1 BY <1>2
<1>5. \A i \in 1 .. n + 1 : i = n + 1 \/ i \in 1 .. n BY <1>2
<1>6. Joins(c) BY <1>2, <1>3, <1>4, <1>5 DEF Joins
<1>7. QED BY <1>6 DEF c

LEMMA ReleaseAdvances == ASSUME TypeOK, queue # <<>>, Release PROVE Advances
<1> DEFINE n == Len(queue)
<1>1. queue \in Seq(Commands) /\ queue' = Tail(queue) BY Types DEF Release
<1>2. /\ n \in Nat /\ n > 0 /\ DOMAIN queue = 1 .. n /\ DOMAIN queue' = 1 .. n - 1
      /\ \A i \in 1 .. n - 1 : queue'[i] = queue[i + 1]
      /\ Head(queue) = queue[1]
  BY <1>1
<1> HIDE DEF n
<1>3. 1 \in 1 .. n /\ \A i \in 1 .. n - 1 : i + 1 \in 1 .. n /\ i \in Nat \ {0} BY <1>2
<1>4. ASSUME NEW i \in 1 .. n, i # 1 PROVE i - 1 \in 1 .. n - 1 /\ queue'[i - 1] = queue[i]
  <2> DEFINE m == i - 1
  <2>1. m \in 1 .. n - 1 /\ m + 1 = i BY <1>2, <1>4
  <2> HIDE DEF m
  <2>2. queue'[m] = queue[m + 1] BY <1>2, <2>1
  <2>3. QED BY <2>1, <2>2 DEF m
<1>5. QED BY <1>2, <1>3, <1>4 DEF Advances

LEMMA AskAwaiting ==
  ASSUME TypeOK, queue # <<>>, NEW n, queue' = [queue EXCEPT ![1].id = n, ![1].at = "waiting"]
  PROVE  Awaiting(n)
<1>1. 1 \in DOMAIN queue /\ queue[1] \in Commands /\ Head(queue) = queue[1] BY Types, LineTypes
<1> DEFINE c == [queue[1] EXCEPT !.id = n, !.at = "waiting"]
<1>2. c.s = queue[1].s /\ c.order = queue[1].order /\ c.id = n /\ c.at = "waiting"
  BY <1>1 DEF Commands
<1>3. queue' = [queue EXCEPT ![1] = c] BY <1>1
<1> HIDE DEF c
<1>4. DOMAIN queue' = DOMAIN queue /\ queue'[1] = c
      /\ \A i \in DOMAIN queue : i # 1 => queue'[i] = queue[i]
  BY <1>1, <1>3
<1>5. QED BY <1>1, <1>2, <1>4 DEF Awaiting

-----------------------------------------------------------------------------
(* What a step must not do to a session to leave all this as it was *)

\* Commands of some kinds are where they were, or one place further on.
CalmLine(t, ops) == \E d \in {0, 1} : \A k \in DOMAIN queue' :
    queue'[k].s = t /\ queue'[k].order.op \in ops =>
      /\ k \in Nat /\ k + d \in DOMAIN queue
      /\ queue[k + d].s = t /\ queue[k + d].order = queue'[k].order
      /\ queue'[k].at = "queued" => queue[k + d].at = "queued"

CalmForces(t) ==
    /\ \E h \in [Nat -> Nat] :
         /\ \A i \in DOMAIN forces[t] : forces[t][i].at = "pausing" =>
              h[i] \in DOMAIN forces'[t] /\ forces'[t][h[i]].at = "pausing"
         /\ \A i, j \in DOMAIN forces[t] :
              forces[t][i].at = "pausing" /\ forces[t][j].at = "pausing" /\ h[i] = h[j] => i = j
    /\ \A i \in DOMAIN forces'[t] : forces'[t][i].at # "pausing" => Underway(t)

CalmWork(t) ==
    /\ handle'[t].held => handle[t].held
    /\ ui[t].busy => ui'[t].busy
    /\ Single(server[t]) => Single(server'[t])
    /\ Rests(server[t]) => Rests(server'[t])

\* What was reported stays so.
ErrorsStay == \A t \in Sessions : ui[t].erred => ui'[t].erred

LEMMA CalmPaired ==
  ASSUME NEW t \in Sessions, Paired(t), NEW ops, "pause" \in ops, CalmLine(t, ops), CalmForces(t) PROVE Paired(t)'
<1>1. PICK f \in [Nat -> Nat] :
        /\ \A k \in DOMAIN queue : IsOf(queue[k], t, "pause") =>
             f[k] \in DOMAIN forces[t] /\ forces[t][f[k]].at = "pausing"
        /\ \A k, l \in DOMAIN queue :
             IsOf(queue[k], t, "pause") /\ IsOf(queue[l], t, "pause") /\ f[k] = f[l] => k = l
  BY DEF Paired
<1>2. PICK h \in [Nat -> Nat] :
        /\ \A i \in DOMAIN forces[t] : forces[t][i].at = "pausing" =>
             h[i] \in DOMAIN forces'[t] /\ forces'[t][h[i]].at = "pausing"
        /\ \A i, j \in DOMAIN forces[t] :
             forces[t][i].at = "pausing" /\ forces[t][j].at = "pausing" /\ h[i] = h[j] => i = j
  BY DEF CalmForces
<1>3. PICK d \in {0, 1} : \A k \in DOMAIN queue' :
        queue'[k].s = t /\ queue'[k].order.op \in ops =>
          k \in Nat /\ k + d \in DOMAIN queue
          /\ queue[k + d].s = t /\ queue[k + d].order = queue'[k].order
  BY DEF CalmLine
<1>4. \A k \in DOMAIN queue' : IsOf(queue'[k], t, "pause") =>
        k \in Nat /\ k + d \in DOMAIN queue /\ IsOf(queue[k + d], t, "pause")
  BY <1>3 DEF IsOf
<1> DEFINE g == [k \in Nat |-> h[f[k + d]]]
<1>5. g \in [Nat -> Nat] /\ \A k \in Nat : g[k] = h[f[k + d]] /\ k + d \in Nat
  BY <1>1, <1>2
<1> HIDE DEF g
<1>6. ASSUME NEW k \in DOMAIN queue', IsOf(queue'[k], t, "pause")
      PROVE  g[k] \in DOMAIN forces'[t] /\ forces'[t][g[k]].at = "pausing"
  <2> DEFINE m == f[k + d]
  <2>1. m \in DOMAIN forces[t] /\ forces[t][m].at = "pausing" BY <1>1, <1>4, <1>6
  <2>2. g[k] = h[m] BY <1>4, <1>5, <1>6
  <2> HIDE DEF m
  <2>3. QED BY <1>2, <2>1, <2>2
<1>7. ASSUME NEW k \in DOMAIN queue', NEW l \in DOMAIN queue', IsOf(queue'[k], t, "pause"),
             IsOf(queue'[l], t, "pause"), g[k] = g[l]
      PROVE  k = l
  <2> DEFINE m == k + d
             n == l + d
  <2>1. /\ k \in Nat /\ l \in Nat /\ g[k] = h[f[m]] /\ g[l] = h[f[n]]
        /\ m \in DOMAIN queue /\ IsOf(queue[m], t, "pause")
        /\ n \in DOMAIN queue /\ IsOf(queue[n], t, "pause")
    BY <1>4, <1>5, <1>7
  <2>2. m = n => k = l BY <2>1
  <2> HIDE DEF m, n
  <2>3. /\ f[m] \in DOMAIN forces[t] /\ forces[t][f[m]].at = "pausing"
        /\ f[n] \in DOMAIN forces[t] /\ forces[t][f[n]].at = "pausing"
    BY <1>1, <2>1
  <2>4. f[m] = f[n] BY <1>2, <1>7, <2>1, <2>3
  <2>5. QED BY <1>1, <2>1, <2>2, <2>4
<1>8. \E e \in [Nat -> Nat] :
        /\ \A k \in DOMAIN queue' : IsOf(queue'[k], t, "pause") =>
             e[k] \in DOMAIN forces'[t] /\ forces'[t][e[k]].at = "pausing"
        /\ \A k, l \in DOMAIN queue' :
             IsOf(queue'[k], t, "pause") /\ IsOf(queue'[l], t, "pause") /\ e[k] = e[l] => k = l
  <2>1. g \in [Nat -> Nat] BY <1>5
  <2>2. QED BY <1>6, <1>7, <2>1
<1>9. QED BY <1>8 DEF Paired, IsOf

Tracked == {"send", "plan", "pause"}

LEMMA CalmAhead ==
  ASSUME NEW t \in Sessions, Ahead(t), CalmLine(t, Tracked) PROVE Ahead(t)'
<1>1. PICK d \in {0, 1} : \A k \in DOMAIN queue' :
        queue'[k].s = t /\ queue'[k].order.op \in Tracked =>
          k \in Nat /\ k + d \in DOMAIN queue
          /\ queue[k + d].s = t /\ queue[k + d].order = queue'[k].order
  BY DEF CalmLine
<1>2. ASSUME NEW i \in DOMAIN queue', NEW j \in DOMAIN queue',
             IsOf(queue'[i], t, "send") \/ IsOf(queue'[i], t, "plan"), IsOf(queue'[j], t, "pause")
      PROVE  i < j
  <2>1. i \in Nat /\ j \in Nat /\ i + d < j + d BY <1>1, <1>2 DEF Ahead, IsOf, Tracked
  <2>2. QED BY <2>1
<1>3. QED BY <1>2 DEF Ahead, IsOf

LEMMA CalmCleared ==
  ASSUME NEW t \in Sessions, Cleared(t), CalmLine(t, {"send", "plan"}), CalmForces(t)
  PROVE  Cleared(t)'
<1>1. PICK d \in {0, 1} : \A k \in DOMAIN queue' :
        queue'[k].s = t /\ queue'[k].order.op \in {"send", "plan"} =>
          k \in Nat /\ k + d \in DOMAIN queue
          /\ queue[k + d].s = t /\ queue[k + d].order = queue'[k].order
  BY DEF CalmLine
<1>2. ASSUME NEW x \in DOMAIN forces'[t], forces'[t][x].at # "pausing", NEW i \in DOMAIN queue'
      PROVE  ~IsOf(queue'[i], t, "send") /\ ~IsOf(queue'[i], t, "plan")
  BY <1>1, <1>2 DEF CalmForces, Cleared, IsOf
<1>3. QED BY <1>2 DEF Cleared, Underway, IsOf

LEMMA CalmAlone ==
  ASSUME NEW t \in Sessions, Alone(t), NEW ops, "send" \in ops, CalmLine(t, ops), CalmForces(t),
         CalmWork(t), ErrorsStay
  PROVE  Alone(t)'
<1> SUFFICES ASSUME handle'[t].held, ~ui'[t].erred
             PROVE  /\ Single(server'[t])
                    /\ \A i, j \in DOMAIN queue' :
                         Waits(queue'[i], t) /\ Waits(queue'[j], t) => i = j
                    /\ \A i \in DOMAIN queue' : Waits(queue'[i], t) =>
                         Rests(server'[t]) /\ ui'[t].busy
                    /\ ~Rests(server'[t]) => ui'[t].busy
                    /\ \A x \in DOMAIN forces'[t] : forces'[t][x].at # "pausing" =>
                         Rests(server'[t])
  BY DEF Alone, Heard, Underway, Single, Rests, Due, NoneOver, Over, Waits, IsOf
<1>1. PICK d \in {0, 1} : \A k \in DOMAIN queue' :
        queue'[k].s = t /\ queue'[k].order.op \in ops =>
          /\ k \in Nat /\ k + d \in DOMAIN queue
          /\ queue[k + d].s = t /\ queue[k + d].order = queue'[k].order
          /\ queue'[k].at = "queued" => queue[k + d].at = "queued"
  BY DEF CalmLine
<1>2. \A k \in DOMAIN queue' : Waits(queue'[k], t) =>
        k \in Nat /\ k + d \in DOMAIN queue /\ Waits(queue[k + d], t)
  BY <1>1 DEF Waits, IsOf
<1>3. Heard(t) BY DEF CalmWork, ErrorsStay, Heard
<1>4. \A i, j \in DOMAIN queue' : Waits(queue'[i], t) /\ Waits(queue'[j], t) => i = j
  <2>1. TAKE i, j \in DOMAIN queue'
  <2>2. HAVE Waits(queue'[i], t) /\ Waits(queue'[j], t)
  <2>3. i \in Nat /\ j \in Nat /\ i + d = j + d BY <1>2, <1>3, <2>2 DEF Alone
  <2>4. QED BY <2>3
<1>5. QED BY <1>2, <1>3, <1>4 DEF Alone, CalmWork, CalmForces

LEMMA CalmFewer ==
  ASSUME NEW t, NEW ops, NEW more, ops \subseteq more, CalmLine(t, more) PROVE CalmLine(t, ops)
BY DEF CalmLine

LEMMA CalmTells ==
  ASSUME NEW t \in Sessions, Tells(t), CalmLine(t, Tracked), CalmForces(t), CalmWork(t),
         ErrorsStay
  PROVE  Tells(t)'
<1>1. CalmLine(t, {"send", "plan"}) BY CalmFewer DEF Tracked
<1>2. Paired(t)' BY CalmPaired DEF Tells, Tracked
<1>3. Alone(t)' BY CalmAlone DEF Tells, Tracked
<1>4. Ahead(t)' /\ Cleared(t)' BY <1>1, CalmAhead, CalmCleared DEF Tells
<1>5. QED BY <1>2, <1>3, <1>4 DEF Tells

LEMMA IdleCalm == ASSUME TypeOK, NEW t, NEW ops, UNCHANGED queue PROVE CalmLine(t, ops)
BY Places DEF CalmLine

LEMMA JoinsCalm ==
  ASSUME TypeOK, NEW t, NEW ops, NEW c, Joins(c), c.s # t \/ c.order.op \notin ops
  PROVE  CalmLine(t, ops)
<1>1. PICK n \in DOMAIN queue' : queue'[n] = c
        /\ (\A i \in DOMAIN queue : i \in DOMAIN queue' /\ queue'[i] = queue[i])
        /\ (\A i \in DOMAIN queue' : i = n \/ i \in DOMAIN queue)
  BY DEF Joins
<1>2. ASSUME NEW k \in DOMAIN queue', queue'[k].s = t,
             queue'[k].order.op \in ops
      PROVE  /\ k \in Nat /\ k + 0 \in DOMAIN queue
             /\ queue[k + 0].s = t /\ queue[k + 0].order = queue'[k].order
             /\ queue'[k].at = "queued" => queue[k + 0].at = "queued"
  <2>1. k \in DOMAIN queue /\ queue'[k] = queue[k] BY <1>1, <1>2
  <2>2. k \in Nat /\ k + 0 = k BY <2>1, Places
  <2>3. QED BY <1>2, <2>1, <2>2
<1>3. QED BY <1>2 DEF CalmLine

LEMMA AdvancesCalm == ASSUME NEW t, NEW ops, Advances PROVE CalmLine(t, ops)
BY DEF Advances, CalmLine

LEMMA AwaitingCalm ==
  ASSUME TypeOK, NEW t, NEW ops, NEW n, Awaiting(n) PROVE CalmLine(t, ops)
<1>1. ASSUME NEW k \in DOMAIN queue', queue'[k].s = t
      PROVE  /\ k \in Nat /\ k + 0 \in DOMAIN queue
             /\ queue[k + 0].s = t /\ queue[k + 0].order = queue'[k].order
             /\ queue'[k].at = "queued" => queue[k + 0].at = "queued"
  <2>1. k \in DOMAIN queue /\ k \in Nat /\ k + 0 = k BY Places DEF Awaiting
  <2>2. CASE k = 1 BY <1>1, <2>1, <2>2 DEF Awaiting
  <2>3. CASE k # 1 BY <1>1, <2>1, <2>3 DEF Awaiting
  <2>4. QED BY <2>2, <2>3
<1>2. QED BY <1>1 DEF CalmLine

\* Forced stops of which none takes or has taken the handle are still there.
LEMMA SameForces ==
  ASSUME TypeOK, NEW t \in Sessions,
         \A i \in DOMAIN forces[t] : forces[t][i].at = "pausing" =>
           i \in DOMAIN forces'[t] /\ forces'[t][i].at = "pausing",
         \A i \in DOMAIN forces'[t] : forces'[t][i].at # "pausing" => Underway(t)
  PROVE  CalmForces(t)
<1> DEFINE h == [i \in Nat |-> i]
<1>1. h \in [Nat -> Nat] /\ \A i \in Nat : h[i] = i OBVIOUS
<1>2. \A i \in DOMAIN forces[t] : i \in Nat
  <2>1. forces[t] \in Seq(Forced) BY Types
  <2>2. QED BY <2>1
<1> HIDE DEF h
<1>3. QED BY <1>1, <1>2 DEF CalmForces

LEMMA StillForces ==
  ASSUME TypeOK, NEW t \in Sessions, forces'[t] = forces[t] PROVE CalmForces(t)
<1>1. \A i \in DOMAIN forces'[t] : forces'[t][i].at # "pausing" => Underway(t) BY DEF Underway
<1>2. QED BY <1>1, SameForces

LEMMA MovesCalm ==
  ASSUME TypeOK, NEW s \in Sessions, NEW i \in DOMAIN forces[s], forces[s][i].at # "pausing",
         NEW to, Moves(s, i, to), NEW t \in Sessions
  PROVE  CalmForces(t)
<1>1. CASE t = s
  <2>1. Underway(s) BY DEF Underway
  <2>2. \A j \in DOMAIN forces[s] : forces[s][j].at = "pausing" =>
          j \in DOMAIN forces'[s] /\ forces'[s][j].at = "pausing"
    BY MovesForces
  <2>3. QED BY <1>1, <2>1, <2>2, SameForces
<1>2. CASE t # s
  <2>1. forces'[t] = forces[t] BY <1>2, MovesForces
  <2>2. QED BY <2>1, StillForces
<1>3. QED BY <1>1, <1>2

LEMMA LeavesCalm ==
  ASSUME TypeOK, NEW s \in Sessions, NEW i \in DOMAIN forces[s], forces[s][i].at # "pausing",
         Leaves(s, i), NEW t \in Sessions
  PROVE  CalmForces(t)
<1>1. CASE t = s
  <2> DEFINE h == [j \in Nat |-> IF i < j THEN j - 1 ELSE j]
  <2>0. \A j \in DOMAIN forces[s] : j \in Nat /\ j > 0
    <3>1. forces[s] \in Seq(Forced) BY Types
    <3>2. QED BY <3>1
  <2>1. i \in Nat BY <2>0
  <2>2. h \in [Nat -> Nat] /\ \A j \in Nat : h[j] = IF i < j THEN j - 1 ELSE j BY <2>1
  <2> HIDE DEF h
  <2>3. Without(forces[s], i, forces'[s]) BY LeavesForces
  <2>4. ASSUME NEW j \in DOMAIN forces[s], forces[s][j].at = "pausing"
        PROVE  h[j] \in DOMAIN forces'[s] /\ forces'[s][h[j]].at = "pausing"
    <3>1. j # i /\ j \in Nat BY <2>0, <2>4
    <3>2. CASE i < j
      <4> DEFINE m == j - 1
      <4>1. h[j] = m BY <2>2, <3>1, <3>2
      <4>2. m \in DOMAIN forces'[s] /\ forces'[s][m] = forces[s][j]
        BY <2>3, <3>2 DEF Without
      <4> HIDE DEF m
      <4>3. QED BY <2>4, <4>1, <4>2
    <3>3. CASE j < i
      <4>1. h[j] = j BY <2>1, <2>2, <3>1, <3>3
      <4>2. j \in DOMAIN forces'[s] /\ forces'[s][j] = forces[s][j]
        BY <2>3, <3>3 DEF Without
      <4>3. QED BY <2>4, <4>1, <4>2
    <3>4. QED BY <2>1, <3>1, <3>2, <3>3
  <2>5. ASSUME NEW j \in DOMAIN forces[s], NEW k \in DOMAIN forces[s],
               forces[s][j].at = "pausing", forces[s][k].at = "pausing", h[j] = h[k]
        PROVE  j = k
    <3>1. j # i /\ k # i /\ j \in Nat /\ k \in Nat BY <2>0, <2>5
    <3> DEFINE a == h[j]
               b == h[k]
    <3>2. /\ i < j => a = j - 1
          /\ ~(i < j) => a = j
          /\ i < k => b = k - 1
          /\ ~(i < k) => b = k
          /\ a = b
      BY <2>2, <2>5, <3>1
    <3> HIDE DEF a, b
    <3>3. CASE i < j /\ i < k BY <3>1, <3>2, <3>3
    <3>4. CASE i < j /\ ~(i < k) BY <2>1, <3>1, <3>2, <3>4
    <3>5. CASE ~(i < j) /\ i < k BY <2>1, <3>1, <3>2, <3>5
    <3>6. CASE ~(i < j) /\ ~(i < k) BY <3>1, <3>2, <3>6
    <3>7. QED BY <3>3, <3>4, <3>5, <3>6
  <2>6. Underway(s) BY DEF Underway
  <2>7. QED BY <1>1, <2>2, <2>4, <2>5, <2>6 DEF CalmForces
<1>2. CASE t # s
  <2>1. forces'[t] = forces[t] BY <1>2, LeavesForces
  <2>2. QED BY <2>1, StillForces
<1>3. QED BY <1>1, <1>2

LEMMA EscalateCalm ==
  ASSUME TypeOK, NEW s \in Sessions, Escalate(s), NEW t \in Sessions PROVE CalmForces(t)
<1>1. CASE t = s
  <2>1. \A j \in DOMAIN forces[s] : j \in DOMAIN forces'[s] /\ forces'[s][j] = forces[s][j]
    BY EscalateForces
  <2>2. \A j \in DOMAIN forces'[s] : j \in DOMAIN forces[s] \/ forces'[s][j].at = "pausing"
    BY EscalateForces
  <2>3. \A j \in DOMAIN forces'[s] : forces'[s][j].at # "pausing" => Underway(s)
    BY <2>1, <2>2 DEF Underway
  <2>4. QED BY <1>1, <2>1, <2>3, SameForces
<1>2. CASE t # s
  <2>1. forces'[t] = forces[t] BY <1>2, EscalateForces
  <2>2. QED BY <2>1, StillForces
<1>3. QED BY <1>1, <1>2

\* Sessions that the step is not about.
LEMMA OthersTell ==
  ASSUME TypeOK, ErrorsStay, NEW t \in Sessions, Tells(t), CalmLine(t, Tracked),
         forces'[t] = forces[t],
         handle'[t] = handle[t], server'[t] = server[t], ui'[t] = ui[t]
  PROVE  Tells(t)'
<1>1. CalmForces(t) BY StillForces
<1>2. CalmWork(t) BY DEF CalmWork
<1>3. QED BY <1>1, <1>2, CalmTells

-----------------------------------------------------------------------------
(* The turn an app-server has, as it goes on *)

\* The news that turns are over are the same or one less, and at one place
\* before where they were.
FewerOver(w, v) ==
    /\ \E d \in {0, 1} : \A k \in DOMAIN v.lines : Over(v.lines[k]) =>
         k \in Nat /\ k + d \in DOMAIN w.lines /\ w.lines[k + d] = v.lines[k]
    /\ \A n \in v.tasks : Over(n) => n \in w.tasks

FewerTurns(w, v) ==
    /\ \A r \in v.todo : r.op = "turn" => r \in w.todo
    /\ v.turns \in {w.turns, <<>>}
    /\ v.running \in {w.running, 0}

LEMMA FewerNone == ASSUME NEW w, NEW v, FewerOver(w, v), NoneOver(w) PROVE NoneOver(v)
BY DEF FewerOver, NoneOver, Over

LEMMA FewerRests ==
  ASSUME NEW w, NEW v, FewerOver(w, v), FewerTurns(w, v), Rests(w) PROVE Rests(v)
BY FewerNone DEF FewerTurns, Rests, Due

LEMMA FewerSingle ==
  ASSUME NEW w, NEW v, FewerOver(w, v), FewerTurns(w, v), Single(w) PROVE Single(v)
<1>1. PICK d \in {0, 1} : \A k \in DOMAIN v.lines : Over(v.lines[k]) =>
        k \in Nat /\ k + d \in DOMAIN w.lines /\ w.lines[k + d] = v.lines[k]
  BY DEF FewerOver
<1>2. Due(v) => Due(w) BY DEF FewerTurns, Due
<1>3. \A r, q \in v.todo : r.op = "turn" /\ q.op = "turn" => r = q
  BY DEF FewerTurns, Single
<1>4. ASSUME NEW k \in DOMAIN v.lines, NEW l \in DOMAIN v.lines, Over(v.lines[k]),
             Over(v.lines[l])
      PROVE  k = l
  <2>1. k \in Nat /\ l \in Nat /\ k + d \in DOMAIN w.lines /\ l + d \in DOMAIN w.lines
        /\ Over(w.lines[k + d]) /\ Over(w.lines[l + d])
    BY <1>1, <1>4
  <2>2. k + d = l + d BY <2>1 DEF Single
  <2>3. QED BY <2>1, <2>2
<1>5. ASSUME NEW k \in DOMAIN v.lines, Over(v.lines[k]), NEW n \in v.tasks PROVE ~Over(n)
  <2>1. k + d \in DOMAIN w.lines /\ Over(w.lines[k + d]) BY <1>1, <1>5
  <2>2. QED BY <2>1 DEF Single, FewerOver
<1>6. \A n, m \in v.tasks : Over(n) /\ Over(m) => n = m BY DEF Single, FewerOver
<1>7. Due(v) => v.turns = <<>> /\ v.running = 0 /\ NoneOver(v)
  BY <1>2, FewerNone DEF FewerTurns, Single
<1>8. v.turns # <<>> => Tail(v.turns) = <<>> /\ v.running = 0 /\ NoneOver(v)
  BY FewerNone DEF FewerTurns, Single
<1>9. v.running # 0 => NoneOver(v) BY FewerNone DEF FewerTurns, Single
<1>10. QED BY <1>3, <1>4, <1>5, <1>6, <1>7, <1>8, <1>9 DEF Single

\* An app-server that rests has one turn at most.
LEMMA RestsSingle == ASSUME NEW v, Rests(v) PROVE Single(v)
BY DEF Rests, Single, Due, NoneOver

\* A turn that is accepted is about to run.
LEMMA AcceptedSingle ==
  ASSUME NEW w, NEW v, NEW r \in w.todo, Single(w), r.op = "turn", w.turns \in Seq(Turns),
         r.turn \in Turns, v.todo \subseteq w.todo \ {r}, v.turns = Append(w.turns, r.turn),
         v.running = w.running, FewerOver(w, v)
  PROVE  Single(v) /\ ~Rests(w)
<1>1. Due(w) BY DEF Due
<1>2. w.turns = <<>> /\ w.running = 0 /\ NoneOver(w) BY <1>1 DEF Single
<1>3. ~Due(v) BY DEF Due, Single
<1>4. Tail(v.turns) = <<>> BY <1>2
<1>5. NoneOver(v) BY <1>2, FewerNone
<1>6. \A q, p \in v.todo : q.op = "turn" /\ p.op = "turn" => q = p BY DEF Single
<1>7. QED BY <1>1, <1>2, <1>3, <1>4, <1>5, <1>6 DEF Single, NoneOver, Rests

\* It runs.
LEMMA StartedSingle ==
  ASSUME NEW w, NEW v, Single(w), w.turns # <<>>, v.todo = w.todo, v.turns = Tail(w.turns),
         FewerOver(w, v)
  PROVE  Single(v) /\ ~Rests(w)
<1>1. ~Due(w) /\ v.turns = <<>> /\ NoneOver(w) BY DEF Single
<1>2. ~Due(v) BY <1>1 DEF Due
<1>3. NoneOver(v) BY <1>1, FewerNone
<1>4. \A q, p \in v.todo : q.op = "turn" /\ p.op = "turn" => q = p BY <1>2 DEF Due
<1>5. QED BY <1>1, <1>2, <1>3, <1>4 DEF Single, NoneOver, Rests

\* One line at most tells of an end.
OneEnd(v) == \E x \in Nat : \A k \in DOMAIN v.lines : Over(v.lines[k]) => k = x

\* It is over, which is news.
LEMMA EndedSingle ==
  ASSUME NEW w, NEW v, Single(w), w.running # 0, v.todo \subseteq w.todo, v.turns = w.turns,
         v.running = 0, v.tasks = w.tasks, OneEnd(v)
  PROVE  Single(v) /\ ~Rests(w)
<1>1. ~Due(w) /\ w.turns = <<>> /\ NoneOver(w) BY DEF Single
<1>2. ~Due(v) BY <1>1 DEF Due
<1>3. \A q, p \in v.todo : q.op = "turn" /\ p.op = "turn" => q = p BY <1>2 DEF Due
<1>4. \A n \in v.tasks : ~Over(n) BY <1>1 DEF NoneOver
<1>5. \A k, l \in DOMAIN v.lines : Over(v.lines[k]) /\ Over(v.lines[l]) => k = l BY DEF OneEnd
<1>6. QED BY <1>1, <1>2, <1>3, <1>4, <1>5 DEF Single, Rests

\* The news gets a task.
LEMMA ReadSingle ==
  ASSUME NEW w, NEW v, Single(w), 1 \in DOMAIN w.lines, Over(w.lines[1]),
         v.todo = w.todo, v.turns = w.turns, v.running = w.running,
         DOMAIN v.lines \subseteq Nat,
         \A k \in DOMAIN v.lines : k > 0 /\ k + 1 \in DOMAIN w.lines /\ v.lines[k] = w.lines[k + 1],
         v.tasks = w.tasks \cup {w.lines[1]}
  PROVE  Single(v) /\ ~Rests(w)
<1>1. ~NoneOver(w) BY DEF NoneOver
<1>2. ~Due(w) /\ w.turns = <<>> /\ w.running = 0 BY <1>1 DEF Single
<1>3. ~Due(v) BY <1>2 DEF Due
<1>4. \A q, p \in v.todo : q.op = "turn" /\ p.op = "turn" => q = p BY DEF Single
<1>5. \A n \in w.tasks : ~Over(n) BY DEF Single
<1>6. ASSUME NEW k \in DOMAIN v.lines PROVE ~Over(v.lines[k])
  <2>1. k + 1 # 1 /\ k + 1 \in DOMAIN w.lines /\ v.lines[k] = w.lines[k + 1] OBVIOUS
  <2>2. QED BY <2>1 DEF Single
<1>7. \A n \in v.tasks : Over(n) => n = w.lines[1] BY <1>5
<1>8. QED BY <1>1, <1>2, <1>3, <1>4, <1>6, <1>7 DEF Single, Rests

\* It is handled.
LEMMA HandledRests ==
  ASSUME NEW w, NEW v, Single(w), NEW n \in w.tasks, Over(n), v.todo = w.todo,
         v.turns = w.turns, v.running = w.running, v.lines = w.lines, v.tasks = w.tasks \ {n}
  PROVE  Rests(v) /\ ~Rests(w)
<1>1. ~NoneOver(w) BY DEF NoneOver
<1>2. ~Due(w) /\ w.turns = <<>> /\ w.running = 0 BY <1>1 DEF Single
<1>3. ~Due(v) BY <1>2 DEF Due
<1>4. NoneOver(v) BY DEF Single, NoneOver
<1>5. QED BY <1>1, <1>2, <1>3, <1>4 DEF Rests

\* Lines that are written after the others tell of no end but their own.
LEMMA WroteOne ==
  ASSUME NEW w, NEW v, NEW S, w.lines \in Seq(S), NEW n \in S, v.lines = Append(w.lines, n),
         ~Over(n), v.tasks = w.tasks
  PROVE  FewerOver(w, v)
<1>1. ASSUME NEW k \in DOMAIN v.lines, Over(v.lines[k])
      PROVE  k \in Nat /\ k + 0 \in DOMAIN w.lines /\ w.lines[k + 0] = v.lines[k]
  <2>1. v.lines[k] = n \/ (k \in DOMAIN w.lines /\ v.lines[k] = w.lines[k]) BY OneMore
  <2>2. k \in DOMAIN w.lines /\ v.lines[k] = w.lines[k] BY <1>1, <2>1
  <2>3. k \in Nat /\ k + 0 = k BY <2>2
  <2>4. QED BY <2>2, <2>3
<1>2. QED BY <1>1 DEF FewerOver

LEMMA WroteTwo ==
  ASSUME NEW w, NEW v, NEW S, w.lines \in Seq(S), NEW n \in S, NEW m \in S,
         v.lines = w.lines \o <<n, m>>, ~Over(n), ~Over(m), v.tasks = w.tasks
  PROVE  FewerOver(w, v)
<1>1. ASSUME NEW k \in DOMAIN v.lines, Over(v.lines[k])
      PROVE  k \in Nat /\ k + 0 \in DOMAIN w.lines /\ w.lines[k + 0] = v.lines[k]
  <2>1. v.lines[k] \in {n, m} \/ (k \in DOMAIN w.lines /\ v.lines[k] = w.lines[k]) BY TwoMore
  <2>2. k \in DOMAIN w.lines /\ v.lines[k] = w.lines[k] BY <1>1, <2>1
  <2>3. k \in Nat /\ k + 0 = k BY <2>2
  <2>4. QED BY <2>2, <2>3
<1>2. QED BY <1>1 DEF FewerOver

\* One that does is the only one.
LEMMA WroteEnd ==
  ASSUME NEW w, NEW v, NEW S, w.lines \in Seq(S), NoneOver(w), NEW n \in S,
         v.lines = Append(w.lines, n)
  PROVE  OneEnd(v)
<1> DEFINE l == Len(w.lines)
           z == Append(w.lines, n)
<1>1. l \in Nat /\ DOMAIN z = 1 .. l + 1 /\ DOMAIN w.lines = 1 .. l
      /\ \A k \in 1 .. l : z[k] = w.lines[k]
  OBVIOUS
<1> HIDE DEF l, z
<1>2. ASSUME NEW k \in DOMAIN z, Over(z[k]) PROVE k = l + 1
  <2>1. k \in 1 .. l \/ k = l + 1 BY <1>1
  <2>2. QED BY <1>1, <1>2, <2>1 DEF NoneOver
<1>3. l + 1 \in Nat BY <1>1
<1>4. QED BY <1>2, <1>3 DEF z, OneEnd

LEMMA WroteReplyEnd ==
  ASSUME NEW w, NEW v, NEW S, w.lines \in Seq(S), NoneOver(w), NEW n \in S, NEW m \in S, ~Over(n),
         v.lines = w.lines \o <<n, m>>
  PROVE  OneEnd(v)
<1> DEFINE l == Len(w.lines)
           y == <<n, m>>
           z == w.lines \o y
<1>1. y \in Seq(S) /\ Len(y) = 2 /\ y[1] = n BY PairTypes
<1> HIDE DEF y
<1> DEFINE q == w.lines
<1>2. q \in Seq(S) /\ y \in Seq(S) BY <1>1
<1> HIDE DEF q
<1> HIDE DEF l
<1>3. /\ q \o y \in Seq(S)
      /\ Len(q \o y) = Len(q) + Len(y)
      /\ \A k \in 1 .. Len(q) + Len(y) :
           (q \o y)[k] = IF k <= Len(q) THEN q[k] ELSE y[k - Len(q)]
  BY <1>2
<1>4. l = Len(q) /\ z = q \o y BY DEF l, q
<1> HIDE DEF z
<1>5. l \in Nat /\ DOMAIN q = 1 .. l BY <1>2, <1>4
<1>6. DOMAIN z = 1 .. l + 2 BY <1>1, <1>3, <1>4
<1>7. \A k \in 1 .. l + 2 : z[k] = IF k <= l THEN q[k] ELSE y[k - l]
  BY <1>1, <1>3, <1>4
<1>8. \A k \in DOMAIN q : ~Over(q[k]) BY DEF NoneOver, q
<1>9. ASSUME NEW k \in DOMAIN z, Over(z[k]) PROVE k = l + 2
  <2>1. k \in 1 .. l + 2 BY <1>6
  <2>2. k \in 1 .. l \/ k = l + 1 \/ k = l + 2 BY <1>5, <2>1
  <2>3. ASSUME k \in 1 .. l PROVE FALSE
    <3>1. k <= l BY <1>5, <2>3
    <3>2. z[k] = q[k] BY <1>7, <2>1, <3>1
    <3>3. QED BY <1>5, <1>8, <1>9, <2>3, <3>2
  <2>4. ASSUME k = l + 1 PROVE FALSE
    <3>1. ~(k <= l) /\ k - l = 1 BY <1>5, <2>4
    <3>2. z[k] = y[1] BY <1>7, <2>1, <3>1
    <3>3. QED BY <1>1, <1>9, <3>2
  <2>5. QED BY <2>2, <2>3, <2>4
<1>10. l + 2 \in Nat BY <1>5
<1>11. QED BY <1>9, <1>10 DEF z, y, OneEnd

-----------------------------------------------------------------------------
(* The steps *)

AllTell == \A t \in Sessions : Tells(t)

LEMMA AllCalm ==
  ASSUME AllTell, ErrorsStay,
         \A t \in Sessions : CalmLine(t, Tracked) /\ CalmForces(t) /\ CalmWork(t)
  PROVE  AllTell'
<1>1. \A t \in Sessions : Tells(t)' BY CalmTells DEF AllTell
<1>2. QED BY <1>1 DEF AllTell

\* A step about one session.
LEMMA OneTells ==
  ASSUME TypeOK, AllTell, ErrorsStay, NEW s \in Sessions, Tells(s)',
         \A t \in Sessions \ {s} :
           /\ CalmLine(t, Tracked) /\ forces'[t] = forces[t]
           /\ handle'[t] = handle[t] /\ server'[t] = server[t] /\ ui'[t] = ui[t]
  PROVE  AllTell'
<1>1. \A t \in Sessions : Tells(t)' BY OthersTell DEF AllTell
<1>2. QED BY <1>1 DEF AllTell

\* A step of the app-server of a session.
LEMMA ServerWork ==
  ASSUME TypeOK, NEW s \in Sessions, NEW v, server' = [server EXCEPT ![s] = v],
         Single(server[s]) => Single(v), Rests(server[s]) => Rests(v),
         \A t \in Sessions : (handle'[t].held => handle[t].held) /\ (ui[t].busy => ui'[t].busy),
         NEW t \in Sessions
  PROVE  CalmWork(t)
<1>1. server'[t] = IF t = s THEN v ELSE server[t] BY Types
<1>2. CASE t = s
  <2>1. server'[t] = v /\ server[t] = server[s] BY <1>1, <1>2
  <2>2. QED BY <2>1 DEF CalmWork
<1>3. CASE t # s
  <2>1. server'[t] = server[t] BY <1>1, <1>3
  <2>2. QED BY <2>1 DEF CalmWork
<1>4. QED BY <1>2, <1>3

LEMMA ServerTells ==
  ASSUME TypeOK, AllTell, ErrorsStay, NEW s \in Sessions, NEW v, server' = [server EXCEPT ![s] = v],
         Single(server[s]) => Single(v), Rests(server[s]) => Rests(v),
         UNCHANGED <<ui, forces, queue, handle>>
  PROVE  AllTell'
<1>1. ASSUME NEW t \in Sessions
      PROVE  CalmLine(t, Tracked) /\ CalmForces(t) /\ CalmWork(t)
  BY IdleCalm, StillForces, ServerWork
<1>2. QED BY <1>1, AllCalm

LEMMA WorksTells ==
  ASSUME TypeOK, AllTell, ErrorsStay, NEW s \in Sessions,
         TurnStarts(s) \/ Delta(s) \/ TurnEnds(s) \/ Errs(s)
  PROVE  AllTell'
<1> DEFINE w == server[s]
<1>1. w \in ServerType /\ w.turns \in Seq(Turns) /\ w.lines \in Seq(Notes \cup Replies)
  BY Types DEF ServerType
<1>2. UNCHANGED <<ui, forces, queue, handle>> BY DEF TurnStarts, Delta, TurnEnds, Errs
<1>3. CASE TurnStarts(s)
  <2> DEFINE turn == Head(w.turns)
             n == Notice("started", turn)
             v == [w EXCEPT !.running = turn, !.turns = Tail(@), !.lines = Append(@, n)]
  <2>1. server' = [server EXCEPT ![s] = v] /\ w.turns # <<>> BY <1>3 DEF TurnStarts
  <2>2. turn \in Turns BY <1>1, <2>1
  <2>3. /\ v.turns = Tail(w.turns) /\ v.lines = Append(w.lines, n)
        /\ v.todo = w.todo /\ v.tasks = w.tasks
    BY <1>1 DEF ServerType
  <2>4. n \in Notes \cup Replies /\ ~Over(n) BY <2>2, NoticeTypes DEF Notice, Over
  <2> HIDE DEF v, n, turn, w
  <2>5. FewerOver(w, v) BY <1>1, <2>3, <2>4, WroteOne
  <2>6. (Single(w) => Single(v)) /\ ~Rests(w) BY <2>1, <2>3, <2>5, StartedSingle DEF Rests
  <2>7. QED BY <1>2, <2>1, <2>6, ServerTells DEF w
<1>4. CASE Delta(s)
  <2> DEFINE n == Notice("delta", w.running)
             v == [w EXCEPT !.said = w.running, !.lines = Append(@, n)]
  <2>1. server' = [server EXCEPT ![s] = v] BY <1>4 DEF Delta
  <2>2. w.running \in Turns BY <1>4, RunningTypes DEF Delta
  <2>3. n \in Notes \cup Replies /\ ~Over(n) BY <2>2, NoticeTypes DEF Notice, Over
  <2>4. /\ v.running = w.running /\ v.turns = w.turns /\ v.lines = Append(w.lines, n)
        /\ v.todo = w.todo /\ v.tasks = w.tasks
    BY <1>1 DEF ServerType
  <2> HIDE DEF v, n, w
  <2>5. FewerOver(w, v) BY <1>1, <2>3, <2>4, WroteOne
  <2>6. FewerTurns(w, v) BY <2>4 DEF FewerTurns
  <2>7. (Single(w) => Single(v)) /\ (Rests(w) => Rests(v))
    BY <2>5, <2>6, FewerSingle, FewerRests
  <2>8. QED BY <1>2, <2>1, <2>7, ServerTells DEF w
<1>5. CASE TurnEnds(s)
  <2> DEFINE n == Notice("completed", w.running)
             v == [w EXCEPT !.running = 0, !.lines = Append(@, n)]
  <2>1. server' = [server EXCEPT ![s] = v] /\ w.running # 0 BY <1>5 DEF TurnEnds
  <2>2. w.running \in Turns BY <2>1, RunningTypes
  <2>3. n \in Notes \cup Replies BY <2>2, NoticeTypes
  <2>4. /\ v.running = 0 /\ v.turns = w.turns /\ v.lines = Append(w.lines, n)
        /\ v.todo = w.todo /\ v.tasks = w.tasks
    BY <1>1 DEF ServerType
  <2> HIDE DEF v, n, w
  <2>5. ASSUME Single(w) PROVE Single(v)
    <3>1. NoneOver(w) BY <2>1, <2>5 DEF Single
    <3>2. OneEnd(v) BY <1>1, <2>3, <2>4, <3>1, WroteEnd
    <3>3. QED BY <2>1, <2>4, <2>5, <3>2, EndedSingle
  <2>6. ~Rests(w) BY <2>1 DEF Rests
  <2>7. QED BY <1>2, <2>1, <2>5, <2>6, ServerTells DEF w
<1>6. CASE Errs(s)
  <2> DEFINE n == [kind |-> "error"]
             v == [w EXCEPT !.lines = Append(@, n)]
  <2>1. server' = [server EXCEPT ![s] = v] BY <1>6 DEF Errs
  <2>2. n \in Notes \cup Replies /\ ~Over(n) BY ErrorTypes DEF Over
  <2>3. /\ v.running = w.running /\ v.turns = w.turns /\ v.lines = Append(w.lines, n)
        /\ v.todo = w.todo /\ v.tasks = w.tasks
    BY <1>1 DEF ServerType
  <2> HIDE DEF v, n, w
  <2>4. FewerOver(w, v) BY <1>1, <2>2, <2>3, WroteOne
  <2>5. FewerTurns(w, v) BY <2>3 DEF FewerTurns
  <2>6. (Single(w) => Single(v)) /\ (Rests(w) => Rests(v))
    BY <2>4, <2>5, FewerSingle, FewerRests
  <2>7. QED BY <1>2, <2>1, <2>6, ServerTells DEF w
<1>7. QED BY <1>3, <1>4, <1>5, <1>6

\* A process that goes, hangs or is not read from.
LEMMA FailureTells ==
  ASSUME TypeOK, AllTell, ErrorsStay, NEW s \in Sessions, Wedge(s) \/ Exit(s) \/ Killed(s) \/ WriterFails(s)
  PROVE  AllTell'
<1> DEFINE w == server[s]
<1>1. w \in ServerType /\ w.lines \in Seq(Notes \cup Replies) BY Types DEF ServerType
<1>2. \A k \in DOMAIN w.lines : k \in Nat /\ k + 0 = k BY <1>1
<1>3. ASSUME NEW v, v.todo = w.todo, v.turns \in {w.turns, <<>>}, v.running \in {w.running, 0},
             v.lines = w.lines, v.tasks = w.tasks
      PROVE  (Single(w) => Single(v)) /\ (Rests(w) => Rests(v))
  <2> HIDE DEF w
  <2>1. FewerOver(w, v) BY <1>2, <1>3 DEF FewerOver
  <2>2. FewerTurns(w, v) BY <1>3 DEF FewerTurns
  <2>3. QED BY <2>1, <2>2, FewerSingle, FewerRests
<1>4. CASE Wedge(s)
  <2> DEFINE v == [w EXCEPT !.is = "wedged"]
  <2>1. server' = [server EXCEPT ![s] = v] BY <1>4 DEF Wedge
  <2>2. /\ v.todo = w.todo /\ v.turns = w.turns /\ v.running = w.running
        /\ v.lines = w.lines /\ v.tasks = w.tasks
    BY <1>1 DEF ServerType
  <2> HIDE DEF v
  <2>3. (Single(w) => Single(v)) /\ (Rests(w) => Rests(v)) BY <1>3, <2>2
  <2>4. QED BY <1>4, <2>1, <2>3, ServerTells DEF Wedge
<1> DEFINE g == [w EXCEPT !.is = "gone", !.running = 0, !.turns = <<>>]
<1>5. /\ g.todo = w.todo /\ g.turns = <<>> /\ g.running = 0
      /\ g.lines = w.lines /\ g.tasks = w.tasks
  BY <1>1 DEF ServerType
<1>6. Exit(s) \/ Killed(s) => server' = [server EXCEPT ![s] = g] BY DEF Exit, Killed
<1> HIDE DEF g
<1>7. (Single(w) => Single(g)) /\ (Rests(w) => Rests(g)) BY <1>3, <1>5
<1>8. CASE Exit(s) BY <1>6, <1>7, <1>8, ServerTells DEF Exit
<1>9. CASE Killed(s)
  <2>1. PICK i \in DOMAIN forces[s] : forces[s][i].at = "killing" /\ Moves(s, i, "spawning")
    BY <1>9 DEF Killed, First
  <2>2. ASSUME NEW t \in Sessions
        PROVE  CalmLine(t, Tracked) /\ CalmForces(t) /\ CalmWork(t)
    <3>1. CalmLine(t, Tracked) BY <1>9, IdleCalm DEF Killed
    <3>2. CalmForces(t) BY <2>1, MovesCalm
    <3>3. CalmWork(t) BY <1>6, <1>7, <1>9, ServerWork DEF Killed
    <3>4. QED BY <3>1, <3>2, <3>3
  <2>3. QED BY <2>2, AllCalm
<1>10. CASE WriterFails(s)
  <2>1. \A t \in Sessions : handle'[t].held = handle[t].held
    BY <1>10, Types DEF WriterFails, HandleType
  <2>2. ASSUME NEW t \in Sessions
        PROVE  CalmLine(t, Tracked) /\ CalmForces(t) /\ CalmWork(t)
    <3>1. CalmLine(t, Tracked) BY <1>10, IdleCalm DEF WriterFails
    <3>2. CalmForces(t) BY <1>10, StillForces DEF WriterFails
    <3>3. CalmWork(t) BY <1>10, <2>1 DEF WriterFails, CalmWork
    <3>4. QED BY <3>1, <3>2, <3>3
  <2>3. QED BY <2>2, AllCalm
<1>11. QED BY <1>4, <1>8, <1>9, <1>10

\* An answer moves a turn from the requests to the turns that are to run, or ends
\* the one that runs.
LEMMA AnswerTells == ASSUME TypeOK, AllTell, ErrorsStay, NEW s \in Sessions, Answer(s) PROVE AllTell'
<1> DEFINE w == server[s]
<1>1. PICK r \in server[s].todo, ok \in BOOLEAN :
        LET lacks == [server[s] EXCEPT !.todo = @ \ {r}]
             does ==
               CASE r.op = "turn" ->
                      [lacks EXCEPT !.turns = Append(@, r.turn), !.lines = Append(@, Reply(r, TRUE))]
                 [] r.op = "interrupt" ->
                      [lacks EXCEPT !.running = 0,
                                    !.lines = @ \o <<Reply(r, TRUE),
                                                    [kind |-> "completed", turn |-> r.turn]>>]
                 [] r.op = "settings" ->
                      [lacks EXCEPT !.plan = r.on,
                                    !.lines = @ \o <<[kind |-> "plan", on |-> r.on],
                                                     Reply(r, TRUE)>>]
        IN /\ r.op = "interrupt" => ok = (server[s].running = r.turn)
           /\ server' = [server EXCEPT ![s] =
                            IF ok THEN does
                                  ELSE [lacks EXCEPT !.lines = Append(@, Reply(r, FALSE))]]
  BY DEF Answer
<1> DEFINE lacks == [w EXCEPT !.todo = @ \ {r}]
<1>2. /\ w \in ServerType /\ w.turns \in Seq(Turns) /\ w.lines \in Seq(Notes \cup Replies)
      /\ r \in Requests /\ r \in w.todo
  BY Types DEF ServerType
<1>3. /\ lacks.todo \subseteq w.todo /\ lacks.turns = w.turns /\ lacks.running = w.running
      /\ lacks.lines = w.lines /\ lacks.tasks = w.tasks /\ lacks \in ServerType
  BY <1>2 DEF ServerType
<1>4. r.id \in Nat /\ r.op \in {"turn", "interrupt", "settings"}
      /\ (r.op \in {"turn", "interrupt"} => r.turn \in Turns)
      /\ (r.op = "settings" => r.on \in BOOLEAN)
  BY <1>2 DEF Requests
<1>5. \A yes \in BOOLEAN : Reply(r, yes) \in Notes \cup Replies /\ ~Over(Reply(r, yes))
  BY <1>4 DEF Reply, Replies, Over
<1>6. UNCHANGED <<ui, forces, queue, handle>> BY DEF Answer
<1>7. CASE ~ok
  <2> DEFINE n == Reply(r, FALSE)
             v == [lacks EXCEPT !.lines = Append(@, n)]
  <2>1. server' = [server EXCEPT ![s] = v] BY <1>1, <1>7
  <2>2. n \in Notes \cup Replies /\ ~Over(n) BY <1>5
  <2> HIDE DEF n, lacks, w
  <2>3. /\ v.running = w.running /\ v.turns = w.turns /\ v.lines = Append(w.lines, n)
        /\ v.todo \subseteq w.todo /\ v.tasks = w.tasks
    BY <1>3 DEF ServerType
  <2> HIDE DEF v
  <2>4. FewerOver(w, v) BY <1>2, <2>2, <2>3, WroteOne
  <2>5. FewerTurns(w, v) BY <2>3 DEF FewerTurns
  <2>6. (Single(w) => Single(v)) /\ (Rests(w) => Rests(v))
    BY <2>4, <2>5, FewerSingle, FewerRests
  <2>7. QED BY <1>6, <2>1, <2>6, ServerTells DEF w
<1>8. CASE ok /\ r.op = "turn"
  <2> DEFINE n == Reply(r, TRUE)
             v == [lacks EXCEPT !.turns = Append(@, r.turn), !.lines = Append(@, n)]
  <2>1. server' = [server EXCEPT ![s] = v] BY <1>1, <1>8
  <2>2. n \in Notes \cup Replies /\ ~Over(n) BY <1>5
  <2>3. lacks.todo = w.todo \ {r} BY <1>2 DEF ServerType
  <2> HIDE DEF n, lacks, w
  <2>4. /\ v.running = w.running /\ v.turns = Append(w.turns, r.turn)
        /\ v.lines = Append(w.lines, n) /\ v.todo \subseteq w.todo \ {r} /\ v.tasks = w.tasks
    BY <1>3, <2>3 DEF ServerType
  <2> HIDE DEF v
  <2>5. FewerOver(w, v) BY <1>2, <2>2, <2>4, WroteOne
  <2>6. (Single(w) => Single(v)) /\ (Single(w) => ~Rests(w))
    BY <1>2, <1>4, <1>8, <2>4, <2>5, AcceptedSingle
  <2>7. ~Rests(w) BY <1>2, <1>8 DEF Rests, Due
  <2>8. QED BY <1>6, <2>1, <2>6, <2>7, ServerTells DEF w
<1>9. CASE ok /\ r.op = "interrupt"
  <2> DEFINE n == Reply(r, TRUE)
             m == [kind |-> "completed", turn |-> r.turn]
             v == [lacks EXCEPT !.running = 0, !.lines = @ \o <<n, m>>]
  <2>1. server' = [server EXCEPT ![s] = v] BY <1>1, <1>9
  <2>2. n \in Notes \cup Replies /\ ~Over(n) BY <1>5
  <2>3. m \in Notes \cup Replies BY <1>4, <1>9 DEF Notes
  <2>4. w.running # 0
    <3>1. w.running = r.turn BY <1>1, <1>9
    <3>2. r.turn # 0 BY <1>4, <1>9, CodexAssumption DEF Turns
    <3>3. QED BY <3>1, <3>2
  <2> HIDE DEF n, m, lacks, w
  <2>5. /\ v.running = 0 /\ v.turns = w.turns
        /\ v.lines = w.lines \o <<n, m>> /\ v.todo \subseteq w.todo /\ v.tasks = w.tasks
    BY <1>3 DEF ServerType
  <2> HIDE DEF v
  <2>6. ASSUME Single(w) PROVE Single(v)
    <3>1. NoneOver(w) BY <2>4, <2>6 DEF Single
    <3>2. OneEnd(v) BY <1>2, <2>2, <2>3, <2>5, <3>1, WroteReplyEnd
    <3>3. QED BY <2>4, <2>5, <2>6, <3>2, EndedSingle
  <2>7. ~Rests(w) BY <2>4 DEF Rests
  <2>8. QED BY <1>6, <2>1, <2>6, <2>7, ServerTells DEF w
<1>10. CASE ok /\ r.op = "settings"
  <2> DEFINE n == Reply(r, TRUE)
             m == [kind |-> "plan", on |-> r.on]
             v == [lacks EXCEPT !.plan = r.on, !.lines = @ \o <<m, n>>]
  <2>1. server' = [server EXCEPT ![s] = v] BY <1>1, <1>10
  <2>2. n \in Notes \cup Replies /\ ~Over(n) BY <1>5
  <2>3. m \in Notes \cup Replies /\ ~Over(m) BY <1>4, <1>10 DEF Notes, Over
  <2> HIDE DEF n, m, lacks, w
  <2>4. /\ v.running = w.running /\ v.turns = w.turns
        /\ v.lines = w.lines \o <<m, n>> /\ v.todo \subseteq w.todo /\ v.tasks = w.tasks
    BY <1>3 DEF ServerType
  <2> HIDE DEF v
  <2>5. FewerOver(w, v) BY <1>2, <2>2, <2>3, <2>4, WroteTwo
  <2>6. FewerTurns(w, v) BY <2>4 DEF FewerTurns
  <2>7. (Single(w) => Single(v)) /\ (Rests(w) => Rests(v))
    BY <2>5, <2>6, FewerSingle, FewerRests
  <2>8. QED BY <1>6, <2>1, <2>7, ServerTells DEF w
<1>11. QED BY <1>4, <1>7, <1>8, <1>9, <1>10

\* What a command does that lets the holder go on or the next one have the lock.
LEMMA LineTells ==
  ASSUME TypeOK, AllTell, ErrorsStay, UNCHANGED <<forces, server>>,
         UNCHANGED queue \/ Advances \/ \E n : Awaiting(n),
         \A t \in Sessions : (handle'[t].held => handle[t].held) /\ (ui[t].busy => ui'[t].busy)
  PROVE  AllTell'
<1>1. ASSUME NEW t \in Sessions
      PROVE  CalmLine(t, Tracked) /\ CalmForces(t) /\ CalmWork(t)
  <2>1. CalmLine(t, Tracked) BY IdleCalm, AdvancesCalm, AwaitingCalm
  <2>2. CalmForces(t) BY StillForces
  <2>3. CalmWork(t) BY DEF CalmWork
  <2>4. QED BY <2>1, <2>2, <2>3
<1>2. QED BY <1>1, AllCalm

\* Reading a line moves the news that a turn is over from the lines to a task.
LEMMA ReadTells == ASSUME TypeOK, AllTell, ErrorsStay, NEW s \in Sessions, Read(s) PROVE AllTell'
<1> DEFINE w == server[s]
           line == Head(w.lines)
           rest == [w EXCEPT !.lines = Tail(@)]
<1>1. w \in ServerType /\ w.lines \in Seq(Notes \cup Replies) /\ w.lines # <<>>
  BY Types DEF ServerType, Read
<1>2. line = w.lines[1] /\ 1 \in DOMAIN w.lines BY <1>1
<1>3. DOMAIN Tail(w.lines) \subseteq Nat
      /\ \A k \in DOMAIN Tail(w.lines) : /\ k > 0 /\ k + 1 \in DOMAIN w.lines
                                         /\ Tail(w.lines)[k] = w.lines[k + 1]
  BY <1>1
<1>4. /\ rest.running = w.running /\ rest.turns = w.turns /\ rest.lines = Tail(w.lines)
      /\ rest.todo = w.todo /\ rest.tasks = w.tasks
      /\ \A T : [rest EXCEPT !.tasks = T].running = w.running
      /\ \A T : [rest EXCEPT !.tasks = T].turns = w.turns
      /\ \A T : [rest EXCEPT !.tasks = T].lines = Tail(w.lines)
      /\ \A T : [rest EXCEPT !.tasks = T].todo = w.todo
      /\ \A T : [rest EXCEPT !.tasks = T].tasks = T
  BY <1>1 DEF ServerType
<1>5. CASE line.kind = "reply"
  <2>1. server' = [server EXCEPT ![s] = rest] /\ UNCHANGED forces BY <1>5 DEF Read
  <2>2. /\ \A t \in Sessions : (handle'[t].held => handle[t].held) /\ (ui[t].busy => ui'[t].busy)
        /\ UNCHANGED queue \/ Advances
    <3>1. CASE Awaits(s, line.id)
      <4>1. Resume(s, line.ok) /\ queue # <<>> BY <1>5, <3>1 DEF Read, Awaits
      <4>2. Advances BY <4>1, ReleaseAdvances DEF Resume
      <4>3. handle' = handle \/ \E b : handle' = [handle EXCEPT ![s].native = b]
        BY <4>1 DEF Resume
      <4>4. ui' = ui \/ \E b : ui' = [ui EXCEPT ![s].plan = b] BY <4>1 DEF Resume
      <4>5. \A t \in Sessions : handle'[t].held = handle[t].held
        <5>1. handle \in [Sessions -> HandleType] BY Types
        <5>2. \A b : [handle[s] EXCEPT !.native = b].held = handle[s].held
          BY <5>1 DEF HandleType
        <5>3. QED BY <4>3, <5>1, <5>2
      <4>6. \A t \in Sessions : ui'[t].busy = ui[t].busy
        <5>1. ui \in [Sessions -> UiType] BY Types
        <5>2. \A b : [ui[s] EXCEPT !.plan = b].busy = ui[s].busy BY <5>1 DEF UiType
        <5>3. QED BY <4>4, <5>1, <5>2
      <4>7. QED BY <4>2, <4>5, <4>6
    <3>2. CASE ~Awaits(s, line.id) BY <1>5, <3>2 DEF Read
    <3>3. QED BY <3>1, <3>2
  <2> HIDE DEF rest, line, w
  <2>3. FewerOver(w, rest) BY <1>3, <1>4 DEF FewerOver
  <2>4. FewerTurns(w, rest) BY <1>4 DEF FewerTurns
  <2>5. (Single(w) => Single(rest)) /\ (Rests(w) => Rests(rest))
    BY <2>3, <2>4, FewerSingle, FewerRests
  <2>6. ASSUME NEW t \in Sessions
        PROVE  CalmLine(t, Tracked) /\ CalmForces(t) /\ CalmWork(t)
    <3>1. CalmLine(t, Tracked) BY <2>2, IdleCalm, AdvancesCalm
    <3>2. CalmForces(t) BY <2>1, StillForces
    <3>3. CalmWork(t) BY <2>1, <2>2, <2>5, ServerWork DEF w
    <3>4. QED BY <3>1, <3>2, <3>3
  <2>7. QED BY <2>6, AllCalm
<1>6. CASE line.kind # "reply"
  <2> DEFINE v == [rest EXCEPT !.tasks = @ \cup {line}]
  <2>1. server' = [server EXCEPT ![s] = v] /\ UNCHANGED <<ui, queue, handle, forces>>
    BY <1>6 DEF Read
  <2> HIDE DEF rest
  <2>2. /\ v.running = w.running /\ v.turns = w.turns /\ v.lines = Tail(w.lines)
        /\ v.todo = w.todo /\ v.tasks = w.tasks \cup {line}
    BY <1>4
  <2> HIDE DEF v, line, w
  <2>3. CASE Over(line)
    <3>0. /\ Over(w.lines[1]) /\ v.tasks = w.tasks \cup {w.lines[1]}
          /\ DOMAIN v.lines \subseteq Nat
          /\ \A k \in DOMAIN v.lines : /\ k > 0 /\ k + 1 \in DOMAIN w.lines
                                       /\ v.lines[k] = w.lines[k + 1]
      BY <1>2, <1>3, <2>2, <2>3
    <3>1. (Single(w) => Single(v)) /\ (Single(w) => ~Rests(w))
      BY <1>2, <2>2, <3>0, ReadSingle
    <3>2. ~Rests(w) BY <1>2, <2>3 DEF Rests, NoneOver
    <3>3. QED BY <2>1, <3>1, <3>2, ServerTells DEF w
  <2>4. CASE ~Over(line)
    <3>1. FewerOver(w, v) BY <1>3, <2>2, <2>4 DEF FewerOver
    <3>2. FewerTurns(w, v) BY <2>2 DEF FewerTurns
    <3>3. (Single(w) => Single(v)) /\ (Rests(w) => Rests(v))
      BY <3>1, <3>2, FewerSingle, FewerRests
    <3>4. QED BY <2>1, <3>3, ServerTells DEF w
  <2>5. QED BY <2>3, <2>4
<1>7. QED BY <1>5, <1>6

\* The news that a turn is over sets the chat free: no other turn is anywhere.
LEMMA HandleTells == ASSUME TypeOK, AllTell, ErrorsStay, NEW s \in Sessions, Handle(s) PROVE AllTell'
<1> DEFINE w == server[s]
<1>1. PICK note \in server[s].tasks :
         /\ server' = [server EXCEPT ![s].tasks = @ \ {note}]
         /\ handle' = [handle EXCEPT ![s].known = CASE note.kind = "started" -> note.turn
                                                   [] note.kind = "completed" -> 0
                                                   [] OTHER -> @]
         /\ ui' = [ui EXCEPT ![s] = CASE note.kind = "completed" -> Unbusy(@)
                                      [] note.kind = "delta" -> [@ EXCEPT !.busy = TRUE]
                                      [] note.kind = "error" -> [Unbusy(@) EXCEPT !.erred = TRUE]
                                      [] note.kind = "plan" -> [@ EXCEPT !.plan = note.on]
                                      [] OTHER -> @]
  BY DEF Handle
<1> DEFINE v == [w EXCEPT !.tasks = @ \ {note}]
<1>2. server' = [server EXCEPT ![s] = v] /\ UNCHANGED <<forces, queue>> BY <1>1 DEF Handle
<1>3. /\ v.running = w.running /\ v.turns = w.turns /\ v.lines = w.lines
      /\ v.todo = w.todo /\ v.tasks = w.tasks \ {note} /\ note \in w.tasks
  BY Types DEF ServerType
<1>4. \A t \in Sessions : handle'[t].held = handle[t].held
  <2>1. \E b : handle' = [handle EXCEPT ![s].known = b] BY <1>1
  <2>2. QED BY <2>1, Types DEF HandleType
<1>5. \A k \in DOMAIN w.lines : k \in Nat /\ k + 0 = k
  <2>1. w.lines \in Seq(Notes \cup Replies) BY Types DEF ServerType
  <2>2. QED BY <2>1
<1> HIDE DEF v, w
<1>6. FewerOver(w, v) BY <1>3, <1>5 DEF FewerOver
<1>7. FewerTurns(w, v) BY <1>3 DEF FewerTurns
<1>8. (Single(w) => Single(v)) /\ (Rests(w) => Rests(v))
  BY <1>6, <1>7, FewerSingle, FewerRests
<1>9. /\ CalmLine(s, Tracked) /\ CalmLine(s, {"send", "plan"}) /\ CalmForces(s)
      /\ \A t \in Sessions \ {s} : CalmLine(t, Tracked)
  <2>1. \A t \in Sessions : CalmLine(t, Tracked) BY <1>2, IdleCalm
  <2>2. CalmLine(s, {"send", "plan"}) BY <2>1, CalmFewer DEF Tracked
  <2>3. CalmForces(s) BY <1>2, StillForces
  <2>4. QED BY <2>1, <2>2, <2>3
<1>10. Paired(s)' /\ Ahead(s)' /\ Cleared(s)'
  BY <1>9, CalmPaired, CalmAhead, CalmCleared DEF AllTell, Tells, Tracked
<1>11. server'[s] = v /\ \A t \in Sessions \ {s} : server'[t] = server[t] BY <1>2, Types
<1>12. ASSUME NEW u, ui' = [ui EXCEPT ![s] = u]
       PROVE  ui'[s] = u /\ \A t \in Sessions \ {s} : ui'[t] = ui[t] /\ handle'[t] = handle[t]
  BY <1>1, <1>12, Types
<1>13. ASSUME Alone(s)', NEW u, ui' = [ui EXCEPT ![s] = u] PROVE AllTell'
  <2>1. Tells(s)' BY <1>10, <1>13 DEF Tells
  <2>2. \A t \in Sessions \ {s} : ui'[t] = ui[t] /\ handle'[t] = handle[t] BY <1>12, <1>13
  <2>3. QED BY <1>2, <1>9, <1>11, <2>1, <2>2, OneTells
<1>14. CASE note.kind \notin {"completed", "error"}
  <2>1. \/ ui' = [ui EXCEPT ![s] = [ui[s] EXCEPT !.busy = TRUE]]
        \/ \E on : ui' = [ui EXCEPT ![s] = [ui[s] EXCEPT !.plan = on]]
        \/ ui' = [ui EXCEPT ![s] = ui[s]]
    BY <1>1, <1>14
  <2>2. \A t \in Sessions : ui[t].busy => ui'[t].busy BY <2>1, Types DEF UiType
  <2>3. ASSUME NEW t \in Sessions
        PROVE  CalmLine(t, Tracked) /\ CalmForces(t) /\ CalmWork(t)
    <3>1. CalmLine(t, Tracked) BY <1>2, IdleCalm
    <3>2. CalmForces(t) BY <1>2, StillForces
    <3>3. CalmWork(t) BY <1>2, <1>4, <1>8, <2>2, ServerWork DEF w
    <3>4. QED BY <3>1, <3>2, <3>3
  <2>4. QED BY <2>3, AllCalm
<1>15. CASE note.kind = "completed"
  <2>1. ui' = [ui EXCEPT ![s] = Unbusy(ui[s])] BY <1>1, <1>15
  <2>2. Over(note) BY <1>15 DEF Over
  <2>3. ASSUME Heard(s)
        PROVE  /\ Rests(v) /\ Single(v)
               /\ \A i \in DOMAIN queue : ~Waits(queue[i], s)
    <3>1. Single(w) BY <2>3 DEF AllTell, Tells, Alone, w
    <3>2. Rests(v) /\ ~Rests(w) BY <1>3, <2>2, <3>1, HandledRests
    <3>3. QED BY <2>3, <3>2, RestsSingle DEF AllTell, Tells, Alone, w
  <2>4. Heard(s)' => Heard(s) BY <1>4 DEF Heard, ErrorsStay
  <2>5. Alone(s)'
    BY <1>2, <1>11, <2>3, <2>4 DEF Alone, Waits, IsOf, Rests, Single, Due, NoneOver, Over
  <2>6. QED BY <1>13, <2>1, <2>5
<1>16. CASE note.kind = "error"
  <2>1. ui' = [ui EXCEPT ![s] = [Unbusy(ui[s]) EXCEPT !.erred = TRUE]] BY <1>1, <1>16
  <2>2. ui'[s].erred BY <1>12, <2>1, Types, ErredStops
  <2>3. Alone(s)' BY <2>2 DEF Alone, Heard
  <2>4. QED BY <1>13, <2>1, <2>3
<1>17. QED BY <1>14, <1>15, <1>16

\* A request that is for no turn.
LEMMA AskTells ==
  ASSUME TypeOK, AllTell, ErrorsStay, NEW s \in Sessions, NEW r, r.op # "turn",
         server' = [server EXCEPT ![s].todo = @ \cup {r}], NEW n, Awaiting(n),
         UNCHANGED <<ui, forces>>, \A t \in Sessions : handle'[t].held = handle[t].held
  PROVE  AllTell'
<1> DEFINE w == server[s]
           v == [w EXCEPT !.todo = @ \cup {r}]
<1>1. w \in ServerType /\ w.lines \in Seq(Notes \cup Replies) BY Types DEF ServerType
<1>2. \A k \in DOMAIN w.lines : k \in Nat /\ k + 0 = k BY <1>1
<1>3. /\ v.todo = w.todo \cup {r} /\ v.turns = w.turns /\ v.running = w.running
      /\ v.lines = w.lines /\ v.tasks = w.tasks
  BY <1>1 DEF ServerType
<1>4. server' = [server EXCEPT ![s] = v] OBVIOUS
<1> HIDE DEF v, w
<1>5. FewerOver(w, v) BY <1>2, <1>3 DEF FewerOver
<1>6. FewerTurns(w, v) BY <1>3 DEF FewerTurns
<1>7. (Single(w) => Single(v)) /\ (Rests(w) => Rests(v))
  BY <1>5, <1>6, FewerSingle, FewerRests
<1>8. ASSUME NEW t \in Sessions
      PROVE  CalmLine(t, Tracked) /\ CalmForces(t) /\ CalmWork(t)
  <2>1. CalmLine(t, Tracked) BY AwaitingCalm
  <2>2. CalmForces(t) BY StillForces
  <2>3. CalmWork(t) BY <1>4, <1>7, ServerWork DEF w
  <2>4. QED BY <2>1, <2>2, <2>3
<1>9. QED BY <1>8, AllCalm

LEMMA InterruptTells ==
  ASSUME TypeOK, AllTell, ErrorsStay, NEW s \in Sessions, InterruptStarts(s) PROVE AllTell'
<1>1. queue # <<>> /\ UNCHANGED <<ui, forces>> BY DEF InterruptStarts, Takes
<1>2. CASE Reaches(s) /\ handle[s].known # 0
  <2> DEFINE r == [id |-> handle[s].next, op |-> "interrupt", turn |-> handle[s].known,
                   upto |-> Head(queue).order.upto]
  <2>1. Ask(s, r) /\ r.op # "turn" BY <1>2 DEF InterruptStarts
  <2> HIDE DEF r
  <2>2. Awaiting(r.id) BY <1>1, <2>1, AskAwaiting DEF Ask
  <2>3. \A t \in Sessions : handle'[t].held = handle[t].held
    BY <2>1, Types DEF Ask, HandleType
  <2>4. QED BY <1>1, <2>1, <2>2, <2>3, AskTells DEF Ask
<1>3. CASE ~(Reaches(s) /\ handle[s].known # 0)
  <2>1. Release /\ UNCHANGED <<handle, server>> BY <1>3 DEF InterruptStarts
  <2>2. Advances BY <1>1, <2>1, ReleaseAdvances
  <2>3. QED BY <1>1, <2>1, <2>2, LineTells
<1>4. QED BY <1>2, <1>3

LEMMA PlanTells == ASSUME TypeOK, AllTell, ErrorsStay, NEW s \in Sessions, PlanStarts(s) PROVE AllTell'
<1> DEFINE on == Head(queue).order.on
<1>1. queue # <<>> /\ UNCHANGED forces BY DEF PlanStarts, Takes
<1>2. handle \in [Sessions -> HandleType] /\ ui \in [Sessions -> UiType] BY Types
<1>3. ASSUME server' = [server EXCEPT ![s].todo = @ \cup
                          {[id |-> handle[s].next, op |-> "settings", on |-> on]}],
             handle' = [handle EXCEPT ![s].plan = on, ![s].next = @ + 1],
             queue' = [queue EXCEPT ![1].id = handle[s].next, ![1].at = "waiting"],
             UNCHANGED ui
      PROVE  AllTell'
  <2> DEFINE r == [id |-> handle[s].next, op |-> "settings", on |-> on]
  <2>1. r.op # "turn" /\ server' = [server EXCEPT ![s].todo = @ \cup {r}] BY <1>3
  <2> HIDE DEF r
  <2>2. Awaiting(handle[s].next) BY <1>1, <1>3, AskAwaiting
  <2>3. \A t \in Sessions : handle'[t].held = handle[t].held
    BY <1>2, <1>3 DEF HandleType
  <2>4. QED BY <1>1, <1>3, <2>1, <2>2, <2>3, AskTells
<1>4. ASSUME Release, UNCHANGED server,
             \A t \in Sessions : handle'[t].held = handle[t].held,
             \A t \in Sessions : ui'[t].busy = ui[t].busy
      PROVE  AllTell'
  <2>1. Advances BY <1>1, <1>4, ReleaseAdvances
  <2>2. QED BY <1>1, <1>4, <2>1, LineTells
<1>5. ASSUME NEW b, ui' = [ui EXCEPT ![s].plan = b]
      PROVE  \A t \in Sessions : ui'[t].busy = ui[t].busy
  BY <1>2, <1>5 DEF UiType
<1>6. ASSUME handle' = [handle EXCEPT ![s].plan = on, ![s].native = FALSE]
      PROVE  \A t \in Sessions : handle'[t].held = handle[t].held
  BY <1>2, <1>6 DEF HandleType
<1>7. \/ /\ server' = [server EXCEPT ![s].todo = @ \cup
                          {[id |-> handle[s].next, op |-> "settings", on |-> on]}]
         /\ handle' = [handle EXCEPT ![s].plan = on, ![s].next = @ + 1]
         /\ queue' = [queue EXCEPT ![1].id = handle[s].next, ![1].at = "waiting"]
         /\ UNCHANGED ui
      \/ /\ handle' = [handle EXCEPT ![s].plan = on, ![s].native = FALSE]
         /\ ui' = [ui EXCEPT ![s].plan = on]
         /\ Release /\ UNCHANGED server
      \/ /\ ui' = [ui EXCEPT ![s].plan = ~on]
         /\ Release /\ UNCHANGED <<handle, server>>
  BY DEF PlanStarts
<1> HIDE DEF on
<1>8. QED BY <1>3, <1>4, <1>5, <1>6, <1>7

\* Steps that take nothing from the line but their own, and show nothing.
LEMMA QuietTells ==
  ASSUME TypeOK, AllTell, ErrorsStay, NEW s \in Sessions,
         Stop(s) \/ AckTimesOut(s) \/ Spawned(s) \/ SpawnFails(s)
  PROVE  AllTell'
<1>1. CASE AckTimesOut(s)
  <2>1. Advances BY <1>1, ReleaseAdvances DEF AckTimesOut
  <2>2. QED BY <1>1, <2>1, LineTells DEF AckTimesOut
<1>2. CASE Stop(s)
  <2> DEFINE o == [op |-> "interrupt", upto |-> sends[s]]
  <2>1. Call(s, o) /\ UNCHANGED <<forces, handle, server>> BY <1>2 DEF Stop
  <2>2. Joins(NewCommand(s, o)) BY <2>1, CallJoins
  <2>3. NewCommand(s, o).order.op \notin Tracked BY DEF NewCommand, Tracked
  <2>4. \A t \in Sessions : ui[t].busy => ui'[t].busy BY <1>2, Types DEF Stop, UiType
  <2> HIDE DEF o
  <2>5. ASSUME NEW t \in Sessions
        PROVE  CalmLine(t, Tracked) /\ CalmForces(t) /\ CalmWork(t)
    <3>1. CalmLine(t, Tracked) BY <2>2, <2>3, JoinsCalm
    <3>2. CalmForces(t) BY <2>1, StillForces
    <3>3. CalmWork(t) BY <2>1, <2>4 DEF CalmWork
    <3>4. QED BY <3>1, <3>2, <3>3
  <2>6. QED BY <2>5, AllCalm
<1>3. CASE Spawned(s)
  <2> DEFINE o == [op |-> "insert"]
  <2>1. Call(s, o) /\ UNCHANGED <<ui, handle, server>> BY <1>3 DEF Spawned
  <2>2. Joins(NewCommand(s, o)) BY <2>1, CallJoins
  <2>3. NewCommand(s, o).order.op \notin Tracked BY DEF NewCommand, Tracked
  <2> HIDE DEF o
  <2>4. PICK i \in DOMAIN forces[s] : forces[s][i].at = "spawning" /\ Moves(s, i, "inserting")
    BY <1>3 DEF Spawned, First
  <2>5. ASSUME NEW t \in Sessions
        PROVE  CalmLine(t, Tracked) /\ CalmForces(t) /\ CalmWork(t)
    <3>1. CalmLine(t, Tracked) BY <2>2, <2>3, JoinsCalm
    <3>2. CalmForces(t) BY <2>4, MovesCalm
    <3>3. CalmWork(t) BY <2>1 DEF CalmWork
    <3>4. QED BY <3>1, <3>2, <3>3
  <2>6. QED BY <2>5, AllCalm
<1>4. CASE SpawnFails(s)
  <2>1. PICK i \in DOMAIN forces[s] : forces[s][i].at = "spawning" /\ Leaves(s, i)
    BY <1>4 DEF SpawnFails, First
  <2>2. \A t \in Sessions : ui[t].busy => ui'[t].busy BY <1>4, Types DEF SpawnFails, UiType
  <2>3. ASSUME NEW t \in Sessions
        PROVE  CalmLine(t, Tracked) /\ CalmForces(t) /\ CalmWork(t)
    <3>1. CalmLine(t, Tracked) BY <1>4, IdleCalm DEF SpawnFails
    <3>2. CalmForces(t) BY <2>1, LeavesCalm
    <3>3. CalmWork(t) BY <1>4, <2>2 DEF CalmWork, SpawnFails
    <3>4. QED BY <3>1, <3>2, <3>3
  <2>4. QED BY <2>3, AllCalm
<1>5. QED BY <1>1, <1>2, <1>3, <1>4

-----------------------------------------------------------------------------
(* The steps that begin or end something *)

LEMMA NoPause ==
  ASSUME NEW s \in Sessions, Paired(s), forces[s] = <<>>
  PROVE  \A k \in DOMAIN queue : ~IsOf(queue[k], s, "pause")
BY DEF Paired

\* A message of a chat that is at rest is the only one.
LEMMA SendTells ==
  ASSUME TypeOK, AllTell, ErrorsStay, "hasty" \notin Acts, NEW s \in Sessions, Send(s) PROVE AllTell'
<1> DEFINE o == [op |-> "send", turn |-> sends[s] + 1,
                 shown |-> ui[s].plan /\ ~ui[s].lost]
           c == NewCommand(s, o)
<1>1. /\ ~ui[s].busy /\ forces[s] = <<>> /\ Call(s, o)
      /\ UNCHANGED <<forces, handle, server>> /\ ui' = [ui EXCEPT ![s].busy = TRUE]
  BY DEF Send, AtRest
<1>2. Joins(c) BY <1>1, CallJoins
<1>3. c.s = s /\ c.order.op = "send" BY DEF NewCommand
<1>4. ui'[s].busy /\ \A t \in Sessions \ {s} : ui'[t] = ui[t] BY <1>1, Types DEF UiType
<1> HIDE DEF c, o
<1>5. Paired(s) /\ Ahead(s) /\ Alone(s) BY DEF AllTell, Tells
<1>6. CalmLine(s, {"pause"}) BY <1>2, <1>3, JoinsCalm
<1>7. CalmForces(s) BY <1>1, StillForces
<1>8. Paired(s)' BY <1>5, <1>6, <1>7, CalmPaired
<1>9. \A k \in DOMAIN queue' : ~IsOf(queue'[k], s, "pause")
  BY <1>1, <1>2, <1>3, <1>5, NoPause DEF Joins, IsOf
<1>10. Ahead(s)' BY <1>9 DEF Ahead, IsOf
<1>11. ~Underway(s) /\ forces'[s] = forces[s] BY <1>1 DEF Underway
<1>12. Cleared(s)' BY <1>11 DEF Cleared, Underway
<1>13. ASSUME Heard(s)
       PROVE  /\ Rests(server[s]) /\ Single(server[s])
              /\ \A i \in DOMAIN queue : ~Waits(queue[i], s)
  BY <1>1, <1>5, <1>13 DEF Alone
<1>14. PICK n \in DOMAIN queue' : \A i \in DOMAIN queue' : i # n =>
         i \in DOMAIN queue /\ queue'[i] = queue[i]
  BY <1>2 DEF Joins
<1>15. Heard(s) => \A i \in DOMAIN queue' : Waits(queue'[i], s) => i = n
  BY <1>13, <1>14
<1>16. Alone(s)'
  <2> SUFFICES ASSUME handle'[s].held, ~ui'[s].erred
               PROVE  /\ Single(server'[s]) /\ Rests(server'[s]) /\ ui'[s].busy
                      /\ \A i, j \in DOMAIN queue' :
                           Waits(queue'[i], s) /\ Waits(queue'[j], s) => i = j
    BY DEF Alone, Heard, Underway, Single, Rests, Due, NoneOver, Over, Waits, IsOf
  <2>1. Heard(s) /\ server'[s] = server[s] BY <1>1 DEF Heard, ErrorsStay
  <2>2. \A i, j \in DOMAIN queue' : Waits(queue'[i], s) /\ Waits(queue'[j], s) => i = j
    BY <1>15, <2>1
  <2>3. QED BY <1>4, <1>13, <2>1, <2>2
<1>17. Tells(s)' BY <1>8, <1>10, <1>12, <1>16 DEF Tells
<1>18. \A t \in Sessions \ {s} : CalmLine(t, Tracked) BY <1>2, <1>3, JoinsCalm
<1>19. QED BY <1>1, <1>4, <1>17, <1>18, OneTells

LEMMA ToggleTells ==
  ASSUME TypeOK, AllTell, ErrorsStay, "hasty" \notin Acts, NEW s \in Sessions, TogglePlan(s) PROVE AllTell'
<1> DEFINE o == [op |-> "plan", on |-> ~ui[s].plan]
           c == NewCommand(s, o)
<1>1. /\ forces[s] = <<>> /\ Call(s, o) /\ UNCHANGED <<forces, handle, server>>
      /\ ui' = [ui EXCEPT ![s].plan = ~@, ![s].lost = FALSE]
  BY DEF TogglePlan, AtRest
<1>2. Joins(c) BY <1>1, CallJoins
<1>3. c.s = s /\ c.order.op = "plan" BY DEF NewCommand
<1>4. ui'[s].busy = ui[s].busy /\ \A t \in Sessions \ {s} : ui'[t] = ui[t]
  BY <1>1, Types DEF UiType
<1> HIDE DEF c, o
<1>5. Paired(s) /\ Ahead(s) /\ Alone(s) BY DEF AllTell, Tells
<1>6. CalmLine(s, {"send", "pause"}) BY <1>2, <1>3, JoinsCalm
<1>7. CalmForces(s) BY <1>1, StillForces
<1>8. Paired(s)' BY <1>5, <1>6, <1>7, CalmPaired
<1>9. \A k \in DOMAIN queue' : ~IsOf(queue'[k], s, "pause")
  BY <1>1, <1>2, <1>3, <1>5, NoPause DEF Joins, IsOf
<1>10. Ahead(s)' BY <1>9 DEF Ahead, IsOf
<1>11. ~Underway(s) /\ forces'[s] = forces[s] BY <1>1 DEF Underway
<1>12. Cleared(s)' BY <1>11 DEF Cleared, Underway
<1>13. CalmWork(s) BY <1>1, <1>4 DEF CalmWork
<1>14. Alone(s)' BY <1>5, <1>6, <1>7, <1>13, CalmAlone
<1>15. Tells(s)' BY <1>8, <1>10, <1>12, <1>14 DEF Tells
<1>16. \A t \in Sessions \ {s} : CalmLine(t, Tracked) BY <1>2, <1>3, JoinsCalm
<1>17. QED BY <1>1, <1>4, <1>15, <1>16, OneTells

\* The pause of a stop that is forced is the last in the line.
LEMMA EscalateTells ==
  ASSUME TypeOK, TypeOK', AllTell, ErrorsStay, NEW s \in Sessions, Escalate(s) PROVE AllTell'
<1> DEFINE o == [op |-> "pause"]
           c == NewCommand(s, o)
<1>1. Call(s, o) /\ UNCHANGED <<handle, server>> /\ ui' = [ui EXCEPT ![s].stop = "forcing"]
  BY DEF Escalate
<1>2. Joins(c) BY <1>1, CallJoins
<1>3. c.s = s /\ c.order.op = "pause" BY DEF NewCommand
<1>4. ui'[s].busy = ui[s].busy /\ \A t \in Sessions \ {s} : ui'[t] = ui[t]
  BY <1>1, Types DEF UiType
<1> HIDE DEF c, o
<1>5. Paired(s) /\ Ahead(s) /\ Cleared(s) /\ Alone(s) BY DEF AllTell, Tells
<1>6. CalmLine(s, {"send", "plan"}) BY <1>2, <1>3, JoinsCalm
<1>7. CalmForces(s) BY EscalateCalm
<1>8. CalmWork(s) BY <1>1, <1>4 DEF CalmWork
<1>9. Cleared(s)' /\ Alone(s)' BY <1>5, <1>6, <1>7, <1>8, CalmCleared, CalmAlone
<1>10. PICK n \in DOMAIN queue' :
         /\ n \in Nat /\ n \notin DOMAIN queue /\ queue'[n] = c
         /\ \A i \in DOMAIN queue : i < n /\ i \in DOMAIN queue' /\ queue'[i] = queue[i]
         /\ \A i \in DOMAIN queue' : i = n \/ i \in DOMAIN queue
  BY <1>2 DEF Joins
<1>11. ASSUME NEW i \in DOMAIN queue', NEW j \in DOMAIN queue',
              IsOf(queue'[i], s, "send") \/ IsOf(queue'[i], s, "plan"), IsOf(queue'[j], s, "pause")
       PROVE  i < j
  <2>1. i # n BY <1>3, <1>10, <1>11 DEF IsOf
  <2>2. i \in DOMAIN queue /\ queue'[i] = queue[i] /\ i < n BY <1>10, <2>1
  <2>3. CASE j = n BY <2>2, <2>3
  <2>4. CASE j # n
    <3>1. j \in DOMAIN queue /\ queue'[j] = queue[j] BY <1>10, <2>4
    <3>2. QED BY <1>5, <1>11, <2>2, <3>1 DEF Ahead
  <2>5. QED BY <2>3, <2>4
<1>12. Ahead(s)' BY <1>11 DEF Ahead, IsOf
<1>13. PICK f \in [Nat -> Nat] :
         /\ \A k \in DOMAIN queue : IsOf(queue[k], s, "pause") =>
              f[k] \in DOMAIN forces[s] /\ forces[s][f[k]].at = "pausing"
         /\ \A k, l \in DOMAIN queue :
              IsOf(queue[k], s, "pause") /\ IsOf(queue[l], s, "pause") /\ f[k] = f[l] => k = l
  BY <1>5 DEF Paired
<1>14. PICK m \in DOMAIN forces'[s] : m \notin DOMAIN forces[s] /\ forces'[s][m].at = "pausing"
  BY EscalateForces
<1>15. \A j \in DOMAIN forces[s] : j \in DOMAIN forces'[s] /\ forces'[s][j] = forces[s][j]
  BY EscalateForces
<1>16. m \in Nat
  <2>1. forces'[s] \in Seq(Forced) BY DEF TypeOK, Forced
  <2>2. ASSUME NEW q \in Seq(Forced), NEW x \in DOMAIN q PROVE x \in Nat OBVIOUS
  <2>3. QED BY <2>1, <2>2
<1>17. \A k \in DOMAIN queue' : k \in Nat
  BY <1>10, Places
<1> DEFINE g == [f EXCEPT ![n] = m]
<1>18. g \in [Nat -> Nat] /\ g[n] = m /\ \A k \in Nat : k # n => g[k] = f[k]
  BY <1>10, <1>16
<1> HIDE DEF g
<1>19. \A k \in DOMAIN queue' : IsOf(queue'[k], s, "pause") =>
         \/ k = n /\ g[k] = m
         \/ /\ k # n /\ k \in DOMAIN queue /\ IsOf(queue[k], s, "pause") /\ g[k] = f[k]
            /\ g[k] \in DOMAIN forces[s] /\ forces[s][g[k]].at = "pausing"
  BY <1>10, <1>13, <1>17, <1>18
<1>20. \A k \in DOMAIN queue' : IsOf(queue'[k], s, "pause") =>
         g[k] \in DOMAIN forces'[s] /\ forces'[s][g[k]].at = "pausing"
  BY <1>14, <1>15, <1>19
<1>21. \A k, l \in DOMAIN queue' :
         IsOf(queue'[k], s, "pause") /\ IsOf(queue'[l], s, "pause") /\ g[k] = g[l] => k = l
  BY <1>13, <1>14, <1>19
<1>22. Paired(s)'
  <2>1. \E e \in [Nat -> Nat] :
          /\ \A k \in DOMAIN queue' : IsOf(queue'[k], s, "pause") =>
               e[k] \in DOMAIN forces'[s] /\ forces'[s][e[k]].at = "pausing"
          /\ \A k, l \in DOMAIN queue' :
               IsOf(queue'[k], s, "pause") /\ IsOf(queue'[l], s, "pause") /\ e[k] = e[l] => k = l
    BY <1>18, <1>20, <1>21
  <2>2. QED BY <2>1 DEF Paired, IsOf
<1>23. Tells(s)' BY <1>9, <1>12, <1>22 DEF Tells
<1>24. \A t \in Sessions \ {s} : CalmLine(t, Tracked) BY <1>2, <1>3, JoinsCalm
<1>25. \A t \in Sessions \ {s} : forces'[t] = forces[t] BY EscalateForces
<1>26. QED BY <1>1, <1>4, <1>23, <1>24, <1>25, OneTells

\* It is the first turn of an app-server that rests.
LEMMA AskedSingle ==
  ASSUME NEW w, NEW v, NEW r, Rests(w), v.todo = w.todo \cup {r}, v.turns = w.turns,
         v.running = w.running, v.lines = w.lines, v.tasks = w.tasks
  PROVE  Single(v)
<1>1. ~Due(w) /\ w.turns = <<>> /\ w.running = 0 /\ NoneOver(w) BY DEF Rests
<1>2. \A q \in v.todo : q.op = "turn" => q = r BY <1>1 DEF Due
<1>3. NoneOver(v) BY <1>1 DEF NoneOver
<1>4. QED BY <1>1, <1>2, <1>3 DEF Single, NoneOver

LEMMA SendStartsTells ==
  ASSUME TypeOK, AllTell, ErrorsStay, NEW s \in Sessions, SendStarts(s) PROVE AllTell'
<1>1. queue # <<>> /\ Takes(s, "send") /\ UNCHANGED <<ui, forces>> BY DEF SendStarts, Takes
<1>2. CASE ~Reaches(s)
  <2>1. Release /\ UNCHANGED <<handle, server>> BY <1>2 DEF SendStarts
  <2>2. Advances BY <1>1, <2>1, ReleaseAdvances
  <2>3. QED BY <1>1, <2>1, <2>2, LineTells
<1>3. CASE Reaches(s)
  <2> DEFINE r == TurnRequest(s, Head(queue).order)
             w == server[s]
             v == [w EXCEPT !.todo = @ \cup {r}]
  <2>1. Ask(s, r) BY <1>3 DEF SendStarts
  <2> HIDE DEF r
  <2>2. Awaiting(r.id) BY <1>1, <2>1, AskAwaiting DEF Ask
  <2>3. server'[s] = v /\ \A t \in Sessions \ {s} : server'[t] = server[t] /\ handle'[t] = handle[t]
    BY <2>1, Types DEF Ask
  <2>4. handle'[s].held = handle[s].held BY <2>1, Types DEF Ask, HandleType
  <2>5. w \in ServerType BY Types
  <2>6. /\ v.todo = w.todo \cup {r} /\ v.turns = w.turns /\ v.running = w.running
        /\ v.lines = w.lines /\ v.tasks = w.tasks
    BY <2>5 DEF ServerType
  <2> HIDE DEF v, w
  <2>7. Paired(s) /\ Ahead(s) /\ Cleared(s) /\ Alone(s) BY DEF AllTell, Tells
  <2>8. CalmLine(s, Tracked) /\ CalmLine(s, {"send", "plan"}) BY <2>2, AwaitingCalm
  <2>9. CalmForces(s) BY <1>1, StillForces
  <2>10. Paired(s)' /\ Ahead(s)' /\ Cleared(s)'
    BY <2>7, <2>8, <2>9, CalmPaired, CalmAhead, CalmCleared DEF Tracked
  <2>11. 1 \in DOMAIN queue /\ Waits(queue[1], s)
    BY <1>1, <2>2 DEF Awaiting, Takes, Waits, IsOf
  <2>12. ~Underway(s) BY <2>7, <2>11 DEF Cleared, Waits
  <2>13. ASSUME Heard(s)
         PROVE  /\ Rests(w) /\ ui[s].busy
                /\ \A i \in DOMAIN queue' : ~Waits(queue'[i], s)
    <3>1. /\ Rests(w) /\ ui[s].busy
          /\ \A i \in DOMAIN queue : Waits(queue[i], s) => i = 1
      BY <2>7, <2>11, <2>13 DEF Alone, w
    <3>2. ASSUME NEW i \in DOMAIN queue', Waits(queue'[i], s) PROVE FALSE
      <4>1. i # 1 BY <2>2, <3>2 DEF Awaiting, Waits
      <4>2. QED BY <2>2, <3>1, <3>2, <4>1 DEF Awaiting
    <3>3. QED BY <3>1, <3>2
  <2>14. Alone(s)'
    <3> SUFFICES ASSUME handle'[s].held, ~ui'[s].erred
                 PROVE  /\ Single(server'[s]) /\ ui'[s].busy
                        /\ \A i \in DOMAIN queue' : ~Waits(queue'[i], s)
                        /\ ~\E i \in DOMAIN forces'[s] : forces'[s][i].at # "pausing"
      BY DEF Alone, Heard, Underway, Single, Rests, Due, NoneOver, Over, Waits, IsOf
    <3>0. Heard(s) BY <1>1, <2>4 DEF Heard
    <3>1. Single(v) BY <2>6, <2>13, <3>0, AskedSingle
    <3>2. ~\E i \in DOMAIN forces'[s] : forces'[s][i].at # "pausing"
      BY <1>1, <2>12 DEF Underway
    <3>3. QED BY <1>1, <2>3, <2>13, <3>0, <3>1, <3>2
  <2>15. Tells(s)' BY <2>10, <2>14 DEF Tells
  <2>16. \A t \in Sessions \ {s} : CalmLine(t, Tracked) BY <2>2, AwaitingCalm
  <2>17. QED BY <1>1, <2>3, <2>15, <2>16, OneTells
<1>4. QED BY <1>2, <1>3

\* A session whose app-server has nothing to do and that nobody has written to.
LEMMA FreeAlone ==
  ASSUME NEW s \in Sessions,
         handle'[s].held /\ ~ui'[s].erred =>
           /\ Rests(server'[s])
           /\ \A i \in DOMAIN queue' : ~Waits(queue'[i], s)
  PROVE  Alone(s)'
<1> SUFFICES ASSUME handle'[s].held, ~ui'[s].erred
             PROVE  /\ Single(server'[s]) /\ Rests(server'[s])
                    /\ \A i \in DOMAIN queue' : ~Waits(queue'[i], s)
  BY DEF Alone, Heard, Underway, Single, Rests, Due, NoneOver, Over, Waits, IsOf
<1>1. QED BY RestsSingle

\* The last step of a forced stop sets the chat free.
LEMMA ReturnsTells == ASSUME TypeOK, AllTell, ErrorsStay, NEW s \in Sessions, Returns(s) PROVE AllTell'
<1>1. PICK i \in DOMAIN forces[s] : forces[s][i].at = "done" /\ Leaves(s, i)
  BY DEF Returns, First
<1>2. UNCHANGED <<queue, handle, server>> /\ \A t \in Sessions \ {s} : ui'[t] = ui[t]
  BY Types DEF Returns
<1>3. Underway(s) BY <1>1 DEF Underway
<1>4. Paired(s) /\ Ahead(s) /\ Cleared(s) /\ Alone(s) BY DEF AllTell, Tells
<1>5. handle'[s].held /\ ~ui'[s].erred => Rests(server'[s])
  BY <1>2, <1>3, <1>4 DEF Alone, Heard, ErrorsStay
<1>6. \A k \in DOMAIN queue : ~Waits(queue[k], s) BY <1>3, <1>4 DEF Cleared, Waits
<1>7. Alone(s)' BY <1>2, <1>5, <1>6, FreeAlone
<1>8. \A t \in Sessions : CalmForces(t) BY <1>1, LeavesCalm
<1>9. \A t \in Sessions : CalmLine(t, Tracked) /\ CalmLine(t, {"send", "plan"})
  BY <1>2, IdleCalm
<1>10. Paired(s)' /\ Ahead(s)' /\ Cleared(s)'
  BY <1>4, <1>8, <1>9, CalmPaired, CalmAhead, CalmCleared DEF Tracked
<1>11. Tells(s)' BY <1>7, <1>10 DEF Tells
<1>12. \A t \in Sessions \ {s} : forces'[t] = forces[t] BY <1>1, LeavesForces
<1>13. QED BY <1>2, <1>9, <1>11, <1>12, OneTells

\* The new process of a forced stop has nothing to do.
LEMMA InsertTells == ASSUME TypeOK, AllTell, ErrorsStay, NEW s \in Sessions, InsertTakes(s) PROVE AllTell'
<1>1. PICK i \in DOMAIN forces[s] : forces[s][i].at = "inserting" /\ Moves(s, i, "done")
  BY DEF InsertTakes, First
<1>2. /\ \A t \in Sessions \ {s} : ui'[t] = ui[t] /\ handle'[t] = handle[t] /\ server'[t] = server[t]
      /\ server'[s] = NewServer
  BY Types DEF InsertTakes
<1>3. Advances BY ReleaseAdvances DEF InsertTakes, Takes
<1>4. Underway(s) BY <1>1 DEF Underway
<1>5. Paired(s) /\ Ahead(s) /\ Cleared(s) BY DEF AllTell, Tells
<1>6. \A k \in DOMAIN queue : ~Waits(queue[k], s) BY <1>4, <1>5 DEF Cleared, Waits
<1>7. \A k \in DOMAIN queue' : ~Waits(queue'[k], s) BY <1>3, <1>6 DEF Advances
<1>8. Rests(NewServer) BY DEF NewServer, Rests, Due, NoneOver
<1>9. Alone(s)' BY <1>2, <1>7, <1>8, FreeAlone
<1>10. \A t \in Sessions : CalmForces(t) BY <1>1, MovesCalm
<1>11. \A t \in Sessions : CalmLine(t, Tracked) /\ CalmLine(t, {"send", "plan"})
  BY <1>3, AdvancesCalm
<1>12. Paired(s)' /\ Ahead(s)' /\ Cleared(s)'
  BY <1>5, <1>10, <1>11, CalmPaired, CalmAhead, CalmCleared DEF Tracked
<1>13. Tells(s)' BY <1>9, <1>12 DEF Tells
<1>14. \A t \in Sessions \ {s} : forces'[t] = forces[t] BY <1>1, MovesForces
<1>15. QED BY <1>2, <1>11, <1>13, <1>14, OneTells

\* When a forced stop takes the handle, what was asked for before it is done.
LEMMA PauseTells == ASSUME TypeOK, AllTell, ErrorsStay, NEW s \in Sessions, PauseTakes(s) PROVE AllTell'
<1>1. PICK i \in DOMAIN forces[s], to \in {"killing", "spawning"} :
        forces[s][i].at = "pausing" /\ Moves(s, i, to)
  BY DEF PauseTakes, First
<1>2. /\ \A t \in Sessions \ {s} : handle'[t] = handle[t]
      /\ ~handle'[s].held /\ UNCHANGED <<ui, server>>
  BY Types DEF PauseTakes, HandleType
<1>3. Advances BY ReleaseAdvances DEF PauseTakes, Takes
<1>4. 1 \in DOMAIN queue /\ IsOf(queue[1], s, "pause")
  BY <1>3 DEF PauseTakes, Takes, Advances, IsOf
<1>5. Paired(s) /\ Ahead(s) BY DEF AllTell, Tells
<1>6. \A k \in DOMAIN queue' : k \in Nat /\ k > 0 /\ k + 1 # 1
  <2>1. queue \in Seq(Commands) /\ queue # <<>> /\ queue' = Tail(queue)
    BY Types DEF PauseTakes, Takes, Release
  <2>2. \A k \in DOMAIN Tail(queue) : k \in Nat /\ k > 0 BY <2>1
  <2>3. QED BY <2>1, <2>2
<1>7. ASSUME NEW k \in DOMAIN queue
      PROVE  ~IsOf(queue[k], s, "send") /\ ~IsOf(queue[k], s, "plan")
  <2>1. k > 0 BY Places
  <2>2. k \in Nat BY Places
  <2>3. ~(k < 1) BY <2>1, <2>2
  <2>4. QED BY <1>4, <1>5, <2>3 DEF Ahead
<1>8. Cleared(s)' BY <1>3, <1>7 DEF Cleared, Advances, IsOf
<1>9. Alone(s)' BY <1>2 DEF Alone, Heard
<1>10. \A t \in Sessions : CalmLine(t, Tracked) BY <1>3, AdvancesCalm
<1>11. Ahead(s)' BY <1>5, <1>10, CalmAhead
<1>12. PICK f \in [Nat -> Nat] :
         /\ \A k \in DOMAIN queue : IsOf(queue[k], s, "pause") =>
              f[k] \in DOMAIN forces[s] /\ forces[s][f[k]].at = "pausing"
         /\ \A k, l \in DOMAIN queue :
              IsOf(queue[k], s, "pause") /\ IsOf(queue[l], s, "pause") /\ f[k] = f[l] => k = l
  BY <1>5 DEF Paired
<1> DEFINE g == [k \in Nat |-> IF f[k + 1] = i THEN f[1] ELSE f[k + 1]]
<1>13. g \in [Nat -> Nat] /\ \A k \in Nat : g[k] = IF f[k + 1] = i THEN f[1] ELSE f[k + 1]
  OBVIOUS
<1> HIDE DEF g
<1>14. \A j \in DOMAIN forces[s] : j # i /\ forces[s][j].at = "pausing" =>
         j \in DOMAIN forces'[s] /\ forces'[s][j].at = "pausing"
  BY <1>1, MovesForces
<1>15. ASSUME NEW k \in DOMAIN queue', IsOf(queue'[k], s, "pause")
       PROVE  /\ k \in Nat /\ k + 1 # 1 /\ k + 1 \in DOMAIN queue
              /\ IsOf(queue[k + 1], s, "pause")
              /\ f[k + 1] = i => g[k] = f[1]
              /\ f[k + 1] # i => g[k] = f[k + 1]
  BY <1>3, <1>6, <1>13, <1>15 DEF Advances
<1>16. ASSUME NEW k \in DOMAIN queue', IsOf(queue'[k], s, "pause")
       PROVE  g[k] \in DOMAIN forces'[s] /\ forces'[s][g[k]].at = "pausing"
  <2>1. g[k] # i BY <1>4, <1>12, <1>15, <1>16
  <2>2. g[k] \in DOMAIN forces[s] /\ forces[s][g[k]].at = "pausing"
    BY <1>4, <1>12, <1>15, <1>16
  <2>3. QED BY <1>14, <2>1, <2>2
<1>17. ASSUME NEW k \in DOMAIN queue', NEW l \in DOMAIN queue', IsOf(queue'[k], s, "pause"),
              IsOf(queue'[l], s, "pause"), g[k] = g[l]
       PROVE  k = l
  <2> DEFINE m == k + 1
             n == l + 1
  <2>1. /\ k \in Nat /\ l \in Nat /\ (m = n => k = l) BY <1>15, <1>17
  <2>2. /\ m # 1 /\ m \in DOMAIN queue /\ IsOf(queue[m], s, "pause")
        /\ f[m] = i => g[k] = f[1]
        /\ f[m] # i => g[k] = f[m]
    BY <1>15, <1>17
  <2>3. /\ n # 1 /\ n \in DOMAIN queue /\ IsOf(queue[n], s, "pause")
        /\ f[n] = i => g[l] = f[1]
        /\ f[n] # i => g[l] = f[n]
    BY <1>15, <1>17
  <2> HIDE DEF m, n
  <2>4. m = n BY <1>4, <1>12, <1>17, <2>2, <2>3
  <2>5. QED BY <2>1, <2>4
<1>18. Paired(s)'
  <2>1. \E e \in [Nat -> Nat] :
          /\ \A k \in DOMAIN queue' : IsOf(queue'[k], s, "pause") =>
               e[k] \in DOMAIN forces'[s] /\ forces'[s][e[k]].at = "pausing"
          /\ \A k, l \in DOMAIN queue' :
               IsOf(queue'[k], s, "pause") /\ IsOf(queue'[l], s, "pause") /\ e[k] = e[l] => k = l
    BY <1>13, <1>16, <1>17
  <2>2. QED BY <2>1 DEF Paired, IsOf
<1>19. Tells(s)' BY <1>8, <1>9, <1>11, <1>18 DEF Tells
<1>20. \A t \in Sessions \ {s} : forces'[t] = forces[t] BY <1>1, MovesForces
<1>21. QED BY <1>2, <1>10, <1>19, <1>20, OneTells

LEMMA InitTells == Init => AllTell
<1> SUFFICES ASSUME Init, NEW t \in Sessions PROVE Tells(t) BY DEF AllTell
<1>1. queue = <<>> /\ forces[t] = <<>> /\ server[t] = NewServer BY DEF Init
<1>2. Rests(NewServer) BY DEF NewServer, Rests, Due, NoneOver
<1>3. ~Underway(t) /\ \A i \in DOMAIN queue : FALSE BY <1>1 DEF Underway
<1>4. Paired(t)
  <2>1. [k \in Nat |-> k] \in [Nat -> Nat] OBVIOUS
  <2>2. QED BY <1>3, <2>1 DEF Paired
<1>5. Alone(t) BY <1>1, <1>2, <1>3, RestsSingle DEF Alone
<1>6. QED BY <1>3, <1>4, <1>5 DEF Tells, Ahead, Cleared

LEMMA NextErrors == ASSUME TypeOK, [Next]_vars PROVE ErrorsStay
<1>1. ui \in [Sessions -> UiType] BY Types
<1>2. ASSUME NEW s \in Sessions, NEW u, u.erred = ui[s].erred \/ u.erred,
             ui' = [ui EXCEPT ![s] = u]
      PROVE  ErrorsStay
  BY <1>1, <1>2 DEF ErrorsStay
<1>3. CASE UNCHANGED ui BY <1>3 DEF ErrorsStay
<1>4. ASSUME NEW s \in Sessions, NEW b
      PROVE  /\ [ui[s] EXCEPT !.busy = b].erred = ui[s].erred
             /\ [ui[s] EXCEPT !.plan = b].erred = ui[s].erred
             /\ [ui[s] EXCEPT !.plan = b, !.lost = FALSE].erred = ui[s].erred
             /\ [ui[s] EXCEPT !.lost = b].erred = ui[s].erred
             /\ [ui[s] EXCEPT !.stop = b].erred = ui[s].erred
             /\ [ui[s] EXCEPT !.stop = "stopping", !.upto = b].erred = ui[s].erred
             /\ Unbusy(ui[s]).erred = ui[s].erred
             /\ [Unbusy(ui[s]) EXCEPT !.erred = TRUE].erred
  BY <1>1 DEF UiType, Unbusy
<1>5. ASSUME NEW s \in Sessions, User(s) \/ TimerFires(s) PROVE ErrorsStay
  <2>1. CASE Send(s)
    <3>1. ui' = [ui EXCEPT ![s] = [ui[s] EXCEPT !.busy = TRUE]] BY <2>1 DEF Send
    <3>2. QED BY <1>2, <1>4, <3>1
  <2>2. CASE Stop(s)
    <3>1. ui' = [ui EXCEPT ![s] = [ui[s] EXCEPT !.stop = "stopping", !.upto = sends[s]]]
      BY <2>2 DEF Stop
    <3>2. QED BY <1>2, <1>4, <3>1
  <2>3. CASE Escalate(s)
    <3>1. ui' = [ui EXCEPT ![s] = [ui[s] EXCEPT !.stop = "forcing"]] BY <2>3 DEF Escalate
    <3>2. QED BY <1>2, <1>4, <3>1
  <2>4. CASE TogglePlan(s)
    <3>1. ui' = [ui EXCEPT ![s] = [ui[s] EXCEPT !.plan = ~ui[s].plan, !.lost = FALSE]]
      BY <2>4 DEF TogglePlan
    <3>2. QED BY <1>2, <1>4, <3>1
  <2>5. QED BY <1>5, <2>1, <2>2, <2>3, <2>4 DEF User, StopAgain, TimerFires
<1>6. ASSUME NEW s \in Sessions, Command(s) PROVE ErrorsStay
  <2>1. CASE PlanStarts(s)
    <3>1. UNCHANGED ui \/ \E b : ui' = [ui EXCEPT ![s] = [ui[s] EXCEPT !.plan = b]]
      BY <2>1 DEF PlanStarts
    <3>2. QED BY <1>2, <1>3, <1>4, <3>1
  <2>2. CASE InsertTakes(s)
    <3>1. ui' = [ui EXCEPT ![s] = [ui[s] EXCEPT !.lost = TRUE]] BY <2>2 DEF InsertTakes
    <3>2. QED BY <1>2, <1>4, <3>1
  <2>3. QED BY <1>3, <1>6, <2>1, <2>2
     DEF Command, SendStarts, InterruptStarts, AckTimesOut, PauseTakes
<1>7. ASSUME NEW s \in Sessions, Forcing(s) PROVE ErrorsStay
  <2>1. CASE SpawnFails(s)
    <3>1. ui' = [ui EXCEPT ![s] = [ui[s] EXCEPT !.stop = "idle"]] BY <2>1 DEF SpawnFails
    <3>2. QED BY <1>2, <1>4, <3>1
  <2>2. CASE Returns(s)
    <3>1. ui' = [ui EXCEPT ![s] = Unbusy(ui[s])] BY <2>2 DEF Returns
    <3>2. QED BY <1>2, <1>4, <3>1
  <2>3. QED BY <1>3, <1>7, <2>1, <2>2 DEF Forcing, Killed, Spawned
<1>8. ASSUME NEW s \in Sessions, Answer(s) \/ AppServer(s) \/ WriterFails(s) PROVE ErrorsStay
  BY <1>3, <1>8
     DEF Answer, AppServer, WriterFails, TurnStarts, Delta, TurnEnds, Errs, Wedge, Exit
<1>9. ASSUME NEW s \in Sessions, Read(s) \/ Handle(s) PROVE ErrorsStay
  <2>1. CASE Read(s)
    <3>1. UNCHANGED ui \/ \E b : ui' = [ui EXCEPT ![s] = [ui[s] EXCEPT !.plan = b]]
      BY <2>1 DEF Read, Resume
    <3>2. QED BY <1>2, <1>3, <1>4, <3>1
  <2>2. CASE Handle(s)
    <3>1. PICK note \in server[s].tasks :
            ui' = [ui EXCEPT ![s] = CASE note.kind = "completed" -> Unbusy(@)
                                      [] note.kind = "delta" -> [@ EXCEPT !.busy = TRUE]
                                      [] note.kind = "error" -> [Unbusy(@) EXCEPT !.erred = TRUE]
                                      [] note.kind = "plan" -> [@ EXCEPT !.plan = note.on]
                                      [] OTHER -> @]
      BY <2>2 DEF Handle
    <3>2. \/ ui' = [ui EXCEPT ![s] = Unbusy(ui[s])]
          \/ ui' = [ui EXCEPT ![s] = [ui[s] EXCEPT !.busy = TRUE]]
          \/ ui' = [ui EXCEPT ![s] = [Unbusy(ui[s]) EXCEPT !.erred = TRUE]]
          \/ \E b : ui' = [ui EXCEPT ![s] = [ui[s] EXCEPT !.plan = b]]
          \/ ui' = [ui EXCEPT ![s] = ui[s]]
      BY <3>1
    <3>3. QED BY <1>2, <1>4, <3>2
  <2>3. QED BY <1>9, <2>1, <2>2
<1>10. CASE UNCHANGED vars BY <1>3, <1>10 DEF vars
<1>11. QED BY <1>5, <1>6, <1>7, <1>8, <1>9, <1>10 DEF Next

LEMMA NextTells ==
  ASSUME "hasty" \notin Acts, TypeOK, TypeOK', AllTell, [Next]_vars PROVE AllTell'
<1>0. ErrorsStay BY NextErrors
<1>1. CASE UNCHANGED vars
  <2>1. ASSUME NEW t \in Sessions
        PROVE  CalmLine(t, Tracked) /\ CalmForces(t) /\ CalmWork(t)
    BY <1>1, IdleCalm, StillForces DEF vars, CalmWork
  <2>2. QED BY <1>0, <2>1, AllCalm
<1>2. ASSUME NEW s \in Sessions, User(s) \/ TimerFires(s) PROVE AllTell'
  BY <1>0, <1>2, SendTells, QuietTells, EscalateTells, ToggleTells DEF User, StopAgain, TimerFires
<1>3. ASSUME NEW s \in Sessions, Command(s) PROVE AllTell'
  BY <1>0, <1>3, SendStartsTells, InterruptTells, PlanTells, QuietTells, PauseTells, InsertTells
     DEF Command
<1>4. ASSUME NEW s \in Sessions, Forcing(s) PROVE AllTell'
  BY <1>0, <1>4, FailureTells, QuietTells, ReturnsTells DEF Forcing
<1>5. ASSUME NEW s \in Sessions, AppServer(s) \/ WriterFails(s) PROVE AllTell'
  BY <1>0, <1>5, WorksTells, FailureTells DEF AppServer
<1>6. ASSUME NEW s \in Sessions, Answer(s) \/ Read(s) \/ Handle(s) PROVE AllTell'
  BY <1>0, <1>6, AnswerTells, ReadTells, HandleTells
<1>7. QED BY <1>1, <1>2, <1>3, <1>4, <1>5, <1>6 DEF Next

\* As long as the app-server of a session works on a turn the chat shows it as
\* busy, until an error is reported in that session, and if the user does not
\* write while a forced stop is under way: no notification that is handled late,
\* no stop that ends late and no error of another session hides a turn, for any
\* number of sessions, messages, stops and failures.
THEOREM TurnsAreShown ==
  ASSUME "hasty" \notin Acts PROVE Spec => []BusyTells
<1>1. AllTell => BusyTells
  BY DEF AllTell, Tells, Alone, Heard, Rests, BusyTells
<1>2. Init => TypeOK /\ AllTell BY InitTypes, InitTells
<1>3. TypeOK /\ AllTell /\ [Next]_vars => TypeOK' /\ AllTell'
  BY NextTypes, NextTells
<1>4. QED BY <1>1, <1>2, <1>3, PTL DEF Spec

-----------------------------------------------------------------------------
(* Plan mode is kept: the holder of the lock is the only one that waits for  *)
(* the answer to a turn or to settings, so that what a message was sent with *)
(* holds until it is answered; and what the chat shows, what the handle has  *)
(* and what the app-server tells agree, but for a change that is in line     *)
(* before every message sent after it.                                       *)

\* All that the app-server has written, and what of it is yet to be handled.
Written(v) == {v.lines[k] : k \in DOMAIN v.lines}
Pending(v) == Written(v) \cup v.tasks

AtHead(s) == 1 \in DOMAIN queue /\ queue[1].s = s /\ queue[1].at = "waiting"

OnlyHead == \A i \in DOMAIN queue : queue[i].at = "waiting" => i = 1

\* A request has an identity of its own until its answer is read.
Ids(s) ==
    /\ \A r \in server[s].todo : r.id < handle[s].next
    /\ \A r, q \in server[s].todo : r.id = q.id => r = q
    /\ \A n \in Written(server[s]) : n.kind = "reply" =>
         n.id < handle[s].next /\ \A r \in server[s].todo : r.id # n.id

\* Whoever asks for a turn or sets the mode has the lock until it is answered.
Asked(s) == \A r \in server[s].todo : r.op # "interrupt" =>
    /\ AtHead(s) /\ queue[1].id = r.id
    /\ r.op = "turn" => queue[1].order.op = "send"
    /\ r.op = "settings" => queue[1].order.op = "plan" /\ queue[1].order.on = r.on

HeadId(s) == AtHead(s) => \A r \in server[s].todo :
    r.id = queue[1].id => (r.op = "settings" <=> queue[1].order.op = "plan")

Told(s) == AtHead(s) /\ queue[1].order.op = "plan" =>
    \A n \in Written(server[s]) : n.kind = "reply" /\ n.id = queue[1].id /\ n.ok =>
      server[s].plan = queue[1].order.on

Native(s) == handle[s].native =>
    server[s].plan \/ (AtHead(s) /\ queue[1].order.op = "plan")

Kept(s) == \A r \in server[s].todo :
    r.op = "turn" /\ r.shown => r.readOnly /\ (r.preamble \/ server[s].plan)

Asks(s) == Ids(s) /\ Asked(s) /\ HeadId(s) /\ Told(s) /\ Native(s) /\ Kept(s)

\* The process that the user chose the mode for is the one that is there.
Firm(s) == handle[s].held /\ ~ui[s].lost

\* A message that waits, sent while the chat showed plan mode.
Shown(c, s) == Waits(c, s) /\ c.order.shown

\* Nothing of the kind waits when the process is replaced.
Chosen(s) == \A i \in DOMAIN queue : Shown(queue[i], s) => ~ui[s].lost

\* The message goes out with what the handle has when its turn comes: what it has
\* now, if the change stands behind the message, or what the chat shows.
Wish(s) == Firm(s) =>
    /\ (\A i \in DOMAIN queue : ~IsOf(queue[i], s, "plan")) => handle[s].plan = ui[s].plan
    /\ \A i \in DOMAIN queue : IsOf(queue[i], s, "plan") =>
         /\ queue[i].order.on = ui[s].plan
         /\ queue[i].at = "queued" => \A n \in Pending(server[s]) : n.kind # "plan"
         /\ queue[i].at = "waiting" => handle[s].plan = ui[s].plan
         /\ \A j \in DOMAIN queue : Shown(queue[j], s) /\ j < i => handle[s].plan
         /\ \A j \in DOMAIN queue : IsOf(queue[j], s, "plan") => i = j
    /\ \A n \in Pending(server[s]) : n.kind = "plan" => n.on = ui[s].plan
    /\ \A j \in DOMAIN queue : Shown(queue[j], s) =>
         \/ ui[s].plan
         \/ \E i \in DOMAIN queue : IsOf(queue[i], s, "plan") /\ j < i

AllKeep == OnlyHead /\ \A s \in Sessions : Asks(s) /\ Chosen(s) /\ Wish(s)
-----------------------------------------------------------------------------
(* What the steps do to the one that waits, and to the plan commands *)

HeadSame(t) == (AtHead(t)' <=> AtHead(t)) /\ (AtHead(t) => queue'[1] = queue[1])

\* Plan commands and messages that wait are where they were, or one place
\* further on, and no plan command is lost.
PlanSame(t) ==
    /\ \E d \in {0, 1} : \A k \in DOMAIN queue' :
         IsOf(queue'[k], t, "plan") \/ Waits(queue'[k], t) =>
           k \in Nat /\ k + d \in DOMAIN queue /\ queue[k + d] = queue'[k]
    /\ \A i \in DOMAIN queue : IsOf(queue[i], t, "plan") =>
         \E k \in DOMAIN queue' : queue'[k] = queue[i]

LEMMA HeadFacts ==
  ASSUME TypeOK, queue # <<>> PROVE 1 \in DOMAIN queue /\ Head(queue) = queue[1]
BY Types

LEMMA IdleLine == ASSUME TypeOK, NEW t, UNCHANGED queue PROVE HeadSame(t) /\ PlanSame(t)
<1>1. HeadSame(t) BY DEF HeadSame, AtHead
<1>2. \A k \in DOMAIN queue : k \in Nat /\ k + 0 = k BY Places
<1>3. PlanSame(t) BY <1>2 DEF PlanSame
<1>4. QED BY <1>1, <1>3

LEMMA JoinsLine ==
  ASSUME TypeOK, OnlyHead, NEW s, NEW o, Joins(NewCommand(s, o)), NEW t
  PROVE  /\ OnlyHead' /\ HeadSame(t)
         /\ s # t \/ o.op \notin {"send", "plan"} => PlanSame(t)
<1> DEFINE c == NewCommand(s, o)
<1>1. c.s = s /\ c.order = o /\ c.at = "queued" BY DEF NewCommand
<1> HIDE DEF c
<1>2. PICK n \in DOMAIN queue' :
        /\ n \in Nat /\ n \notin DOMAIN queue /\ queue'[n] = c
        /\ \A i \in DOMAIN queue : i < n /\ i \in DOMAIN queue' /\ queue'[i] = queue[i]
        /\ \A i \in DOMAIN queue' : i = n \/ i \in DOMAIN queue
  BY DEF Joins, c
<1>3. OnlyHead' BY <1>1, <1>2 DEF OnlyHead
<1>4. HeadSame(t) BY <1>1, <1>2 DEF HeadSame, AtHead
<1>5. ASSUME s # t \/ o.op \notin {"send", "plan"} PROVE PlanSame(t)
  <2>1. \A k \in DOMAIN queue : k \in Nat /\ k + 0 = k BY Places
  <2>2. ~IsOf(c, t, "plan") /\ ~Waits(c, t) BY <1>1, <1>5 DEF IsOf, Waits
  <2>3. \A k \in DOMAIN queue' : IsOf(queue'[k], t, "plan") \/ Waits(queue'[k], t) =>
          k \in DOMAIN queue /\ queue[k] = queue'[k]
    BY <1>2, <2>2
  <2>4. QED BY <1>2, <2>1, <2>3 DEF PlanSame
<1>6. QED BY <1>3, <1>4, <1>5

LEMMA AdvancesLine ==
  ASSUME TypeOK, OnlyHead, Advances, NEW t
  PROVE  /\ OnlyHead' /\ ~AtHead(t)'
         /\ ~AtHead(t) => HeadSame(t)
         /\ ~IsOf(queue[1], t, "plan") => PlanSame(t)
<1>1. ASSUME NEW k \in DOMAIN queue'
      PROVE  /\ k \in Nat /\ k + 1 # 1 /\ k + 1 \in DOMAIN queue /\ queue'[k] = queue[k + 1]
             /\ queue'[k].at # "waiting"
  <2>1. k \in Nat \ {0} BY DEF Advances
  <2>2. k + 1 # 1 BY <2>1
  <2>3. k + 1 \in DOMAIN queue /\ queue'[k] = queue[k + 1] BY DEF Advances
  <2>4. QED BY <2>1, <2>2, <2>3 DEF OnlyHead
<1>2. OnlyHead' /\ ~AtHead(t)' BY <1>1 DEF OnlyHead, AtHead
<1>3. ~AtHead(t) => HeadSame(t) BY <1>2 DEF HeadSame
<1>4. ASSUME ~IsOf(queue[1], t, "plan") PROVE PlanSame(t)
  <2>1. \A i \in DOMAIN queue : IsOf(queue[i], t, "plan") =>
          \E k \in DOMAIN queue' : queue'[k] = queue[i]
    BY <1>4 DEF Advances
  <2>2. QED BY <1>1, <2>1 DEF PlanSame
<1>5. QED BY <1>2, <1>3, <1>4

LEMMA AwaitingLine ==
  ASSUME TypeOK, OnlyHead, NEW n, Awaiting(n), NEW t
  PROVE  /\ OnlyHead'
         /\ queue[1].s # t => HeadSame(t)
         /\ queue[1].s = t => AtHead(t)'
         /\ ~IsOf(queue[1], t, "plan") => PlanSame(t)
<1>1. OnlyHead' BY DEF Awaiting, OnlyHead
<1>2. queue[1].s # t => HeadSame(t) BY DEF Awaiting, HeadSame, AtHead
<1>3. queue[1].s = t => AtHead(t)' BY DEF Awaiting, AtHead
<1>4. ASSUME ~IsOf(queue[1], t, "plan") PROVE PlanSame(t)
  <2>1. \A k \in DOMAIN queue : k \in Nat /\ k + 0 = k BY Places
  <2>2. ~IsOf(queue'[1], t, "plan") /\ ~Waits(queue'[1], t)
    BY <1>4 DEF Awaiting, IsOf, Waits
  <2>3. \A k \in DOMAIN queue' : k \in DOMAIN queue /\ (k # 1 => queue'[k] = queue[k])
    BY DEF Awaiting
  <2>4. \A i \in DOMAIN queue : IsOf(queue[i], t, "plan") =>
          i \in DOMAIN queue' /\ queue'[i] = queue[i]
    BY <1>4 DEF Awaiting
  <2>5. QED BY <2>1, <2>2, <2>3, <2>4 DEF PlanSame
<1>5. QED BY <1>1, <1>2, <1>3, <1>4

\* A step that is about s leaves the others in the line.
LineFor(s) ==
    \/ UNCHANGED queue
    \/ \E o : Joins(NewCommand(s, o))
    \/ Advances /\ queue[1].s = s
    \/ \E n : Awaiting(n) /\ queue[1].s = s

LEMMA OthersLine ==
  ASSUME TypeOK, OnlyHead, NEW s, LineFor(s)
  PROVE  OnlyHead' /\ \A t : t # s => HeadSame(t) /\ PlanSame(t)
<1>1. CASE UNCHANGED queue
  <2>1. OnlyHead' BY <1>1 DEF OnlyHead
  <2>2. QED BY <1>1, <2>1, IdleLine
<1>2. CASE \E o : Joins(NewCommand(s, o)) BY <1>2, JoinsLine
<1>3. CASE Advances /\ queue[1].s = s
  <2>1. \A t : t # s => ~AtHead(t) /\ ~IsOf(queue[1], t, "plan") BY <1>3 DEF AtHead, IsOf
  <2>2. QED BY <1>3, <2>1, AdvancesLine
<1>4. CASE \E n : Awaiting(n) /\ queue[1].s = s
  <2>1. \A t : t # s => queue[1].s # t /\ ~IsOf(queue[1], t, "plan") BY <1>4 DEF IsOf
  <2>2. QED BY <1>4, <2>1, AwaitingLine
<1>5. QED BY <1>1, <1>2, <1>3, <1>4 DEF LineFor

-----------------------------------------------------------------------------
(* What leaves it as it was *)

LEMMA IdsSame ==
  ASSUME NEW t \in Sessions, Ids(t), handle'[t].next = handle[t].next,
         server'[t].todo \subseteq server[t].todo,
         \A n \in Written(server'[t]) : n.kind = "reply" => n \in Written(server[t])
  PROVE  Ids(t)'
<1>1. \A r \in server'[t].todo : r.id < handle'[t].next BY DEF Ids
<1>2. \A r, q \in server'[t].todo : r.id = q.id => r = q BY DEF Ids
<1>3. \A n \in Written(server'[t]) : n.kind = "reply" =>
        n.id < handle'[t].next /\ \A r \in server'[t].todo : r.id # n.id
  BY DEF Ids
<1>4. QED BY <1>1, <1>2, <1>3 DEF Ids, Written

LEMMA AsksSame ==
  ASSUME NEW t \in Sessions, Asks(t), HeadSame(t), handle'[t].next = handle[t].next,
         handle'[t].native => handle[t].native,
         server'[t].todo \subseteq server[t].todo, server'[t].plan = server[t].plan,
         \A n \in Written(server'[t]) : n.kind = "reply" => n \in Written(server[t])
  PROVE  Asks(t)'
<1>1. Ids(t)' BY IdsSame DEF Asks
<1>2. Asked(t)' BY DEF Asks, Asked, HeadSame
<1>3. HeadId(t)' BY DEF Asks, HeadId, HeadSame
<1>4. Told(t)'
  <2> SUFFICES ASSUME AtHead(t)', queue'[1].order.op = "plan", NEW n \in Written(server'[t]),
                      n.kind = "reply", n.id = queue'[1].id, n.ok
               PROVE  server'[t].plan = queue'[1].order.on
    BY DEF Told, Written
  <2>1. AtHead(t) /\ queue'[1] = queue[1] BY DEF HeadSame
  <2>2. QED BY <2>1 DEF Asks, Told
<1>5. Native(t)' BY DEF Asks, Native, HeadSame
<1>6. Kept(t)' BY DEF Asks, Kept
<1>7. QED BY <1>1, <1>2, <1>3, <1>4, <1>5, <1>6 DEF Asks

\* Nobody waits for an answer any more.
LEMMA AsksFree ==
  ASSUME NEW t \in Sessions, Ids(t)', ~AtHead(t)',
         \A r \in server'[t].todo : r.op = "interrupt",
         handle'[t].native => server'[t].plan
  PROVE  Asks(t)'
<1>1. Asked(t)' /\ HeadId(t)' /\ Told(t)' /\ Native(t)' BY DEF Asked, HeadId, Told, Native
<1>2. Kept(t)' BY DEF Kept
<1>3. QED BY <1>1, <1>2 DEF Asks

\* What of the mode is still to be told was to be told before.
NoNews(t) == \A n \in Pending(server'[t]) : n.kind = "plan" => n \in Pending(server[t])

\* What a step has to leave for Wish to hold.
Wishes(t) ==
    /\ (\A i \in DOMAIN queue' : ~IsOf(queue'[i], t, "plan")) => handle'[t].plan = ui'[t].plan
    /\ \A i \in DOMAIN queue' : IsOf(queue'[i], t, "plan") =>
         /\ queue'[i].order.on = ui'[t].plan
         /\ queue'[i].at = "queued" => \A n \in Pending(server'[t]) : n.kind # "plan"
         /\ queue'[i].at = "waiting" => handle'[t].plan = ui'[t].plan
         /\ \A j \in DOMAIN queue' : Shown(queue'[j], t) /\ j < i => handle'[t].plan
         /\ \A j \in DOMAIN queue' : IsOf(queue'[j], t, "plan") => i = j
    /\ \A n \in Pending(server'[t]) : n.kind = "plan" => n.on = ui'[t].plan
    /\ \A j \in DOMAIN queue' : Shown(queue'[j], t) =>
         \/ ui'[t].plan
         \/ \E i \in DOMAIN queue' : IsOf(queue'[i], t, "plan") /\ j < i

LEMMA WishNext ==
  ASSUME NEW t, handle'[t].held /\ ~ui'[t].lost => Wishes(t) PROVE Wish(t)'
BY DEF Wish, Firm, Wishes, Pending, Written, IsOf, Waits, Shown

LEMMA ChosenSame ==
  ASSUME NEW t, Chosen(t), ui'[t].lost => ui[t].lost,
         \A k \in DOMAIN queue' : Shown(queue'[k], t) =>
           \E i \in DOMAIN queue : queue[i] = queue'[k]
  PROVE  Chosen(t)'
<1>1. \A k \in DOMAIN queue' : Shown(queue'[k], t) => ~ui'[t].lost BY DEF Chosen
<1>2. QED BY <1>1 DEF Chosen, Shown, Waits, IsOf

\* Whoever leaves the line or goes on to wait shows nothing new.
LEMMA ChosenOn ==
  ASSUME NEW t, Chosen(t), ui'[t].lost => ui[t].lost,
         UNCHANGED queue \/ Advances \/ \E n : Awaiting(n)
  PROVE  Chosen(t)'
<1>1. ASSUME NEW k \in DOMAIN queue', Shown(queue'[k], t)
      PROVE  \E i \in DOMAIN queue : queue[i] = queue'[k]
  <2>1. CASE UNCHANGED queue BY <2>1
  <2>2. CASE Advances BY <2>2 DEF Advances
  <2>3. CASE \E n : Awaiting(n)
    <3>1. k \in DOMAIN queue /\ k # 1 BY <1>1, <2>3 DEF Awaiting, Shown, Waits
    <3>2. QED BY <2>3, <3>1 DEF Awaiting
  <2>4. QED BY <2>1, <2>2, <2>3
<1>2. QED BY <1>1, ChosenSame

LEMMA WishSame ==
  ASSUME NEW t \in Sessions, Chosen(t), Wish(t), PlanSame(t), ui'[t].lost => ui[t].lost,
         Firm(t)' => /\ Firm(t) /\ ui'[t].plan = ui[t].plan
                     /\ handle'[t].plan = handle[t].plan /\ NoNews(t)
  PROVE  Chosen(t)' /\ Wish(t)'
<1>1. PICK d \in {0, 1} : \A k \in DOMAIN queue' :
        IsOf(queue'[k], t, "plan") \/ Waits(queue'[k], t) =>
          k \in Nat /\ k + d \in DOMAIN queue /\ queue[k + d] = queue'[k]
  BY DEF PlanSame
<1>2. \A k \in DOMAIN queue' : Shown(queue'[k], t) =>
        k \in Nat /\ k + d \in DOMAIN queue /\ queue[k + d] = queue'[k]
  BY <1>1 DEF Shown
<1>3. Chosen(t)' BY <1>2, ChosenSame
<1>4. ASSUME handle'[t].held, ~ui'[t].lost PROVE Wishes(t)
  <2>1. /\ Firm(t) /\ ui'[t].plan = ui[t].plan /\ handle'[t].plan = handle[t].plan
        /\ \A n \in Pending(server'[t]) : n.kind = "plan" => n \in Pending(server[t])
    BY <1>4 DEF NoNews, Firm
  <2>2. (\A i \in DOMAIN queue' : ~IsOf(queue'[i], t, "plan")) => handle'[t].plan = ui'[t].plan
    BY <2>1 DEF PlanSame, Wish
  <2>3. ASSUME NEW i \in DOMAIN queue', IsOf(queue'[i], t, "plan")
        PROVE  /\ queue'[i].order.on = ui'[t].plan
               /\ queue'[i].at = "queued" => \A n \in Pending(server'[t]) : n.kind # "plan"
               /\ queue'[i].at = "waiting" => handle'[t].plan = ui'[t].plan
               /\ \A j \in DOMAIN queue' : Shown(queue'[j], t) /\ j < i => handle'[t].plan
               /\ \A j \in DOMAIN queue' : IsOf(queue'[j], t, "plan") => i = j
    <3> DEFINE m == i + d
    <3>1. i \in Nat /\ m \in DOMAIN queue /\ queue[m] = queue'[i] BY <1>1, <2>3
    <3> HIDE DEF m
    <3>2. /\ queue[m].order.on = ui[t].plan
          /\ queue[m].at = "queued" => \A n \in Pending(server[t]) : n.kind # "plan"
          /\ queue[m].at = "waiting" => handle[t].plan = ui[t].plan
          /\ \A j \in DOMAIN queue : Shown(queue[j], t) /\ j < m => handle[t].plan
          /\ \A j \in DOMAIN queue : IsOf(queue[j], t, "plan") => m = j
      BY <2>1, <2>3, <3>1 DEF Wish
    <3>3. ASSUME NEW j \in DOMAIN queue', Shown(queue'[j], t), j < i PROVE handle'[t].plan
      <4>1. j \in Nat /\ j + d \in DOMAIN queue /\ queue[j + d] = queue'[j] BY <1>2, <3>3
      <4>2. j + d < m BY <3>1, <3>3, <4>1 DEF m
      <4>3. QED BY <2>1, <3>2, <3>3, <4>1, <4>2
    <3>4. ASSUME NEW j \in DOMAIN queue', IsOf(queue'[j], t, "plan") PROVE i = j
      <4>1. j \in Nat /\ j + d \in DOMAIN queue /\ queue[j + d] = queue'[j] BY <1>1, <3>4
      <4>2. i + d = j + d BY <3>2, <3>4, <4>1 DEF m
      <4>3. QED BY <3>1, <4>1, <4>2
    <3>5. QED BY <2>1, <3>1, <3>2, <3>3, <3>4
  <2>4. \A n \in Pending(server'[t]) : n.kind = "plan" => n.on = ui'[t].plan
    BY <2>1 DEF Wish
  <2>5. ASSUME NEW j \in DOMAIN queue', Shown(queue'[j], t), ~ui'[t].plan
        PROVE  \E i \in DOMAIN queue' : IsOf(queue'[i], t, "plan") /\ j < i
    <3>1. j \in Nat /\ j + d \in DOMAIN queue /\ Shown(queue[j + d], t) BY <1>2, <2>5
    <3>2. PICK m \in DOMAIN queue : IsOf(queue[m], t, "plan") /\ j + d < m
      BY <2>1, <2>5, <3>1 DEF Wish
    <3>3. PICK i \in DOMAIN queue' : queue'[i] = queue[m] BY <3>2 DEF PlanSame
    <3>4. i \in Nat /\ i + d \in DOMAIN queue /\ queue[i + d] = queue'[i] BY <1>1, <3>2, <3>3
    <3>5. i + d = m BY <2>1, <3>2, <3>3, <3>4 DEF Wish
    <3>6. j < i BY <3>1, <3>2, <3>4, <3>5
    <3>7. QED BY <3>2, <3>3, <3>6
  <2>6. QED BY <2>2, <2>3, <2>4, <2>5 DEF Wishes
<1>5. QED BY <1>3, <1>4, WishNext
-----------------------------------------------------------------------------
(* The steps that change nothing of it *)

LEMMA StepKeeps ==
  ASSUME TypeOK, AllKeep, NEW s \in Sessions, LineFor(s), Asks(s)', Chosen(s)', Wish(s)',
         \A t \in Sessions \ {s} :
           handle'[t] = handle[t] /\ server'[t] = server[t] /\ ui'[t] = ui[t]
  PROVE  AllKeep'
<1>1. OnlyHead' /\ \A t : t # s => HeadSame(t) /\ PlanSame(t) BY OthersLine DEF AllKeep
<1>2. ASSUME NEW t \in Sessions \ {s} PROVE Asks(t)' /\ Chosen(t)' /\ Wish(t)'
  <2>1. Asks(t) /\ Chosen(t) /\ Wish(t) /\ HeadSame(t) /\ PlanSame(t) BY <1>1 DEF AllKeep
  <2>2. Asks(t)' BY <2>1, AsksSame
  <2>3. Firm(t)' => Firm(t) BY DEF Firm
  <2>4. NoNews(t) BY DEF NoNews
  <2>5. Chosen(t)' /\ Wish(t)' BY <2>1, <2>3, <2>4, WishSame
  <2>6. QED BY <2>2, <2>5
<1>3. QED BY <1>1, <1>2 DEF AllKeep

SameHandle(s) ==
    /\ \A t \in Sessions \ {s} : handle'[t] = handle[t]
    /\ handle'[s].next = handle[s].next /\ handle'[s].plan = handle[s].plan
    /\ handle'[s].native => handle[s].native
    /\ handle'[s].held => handle[s].held

SameUi(s) ==
    /\ \A t \in Sessions \ {s} : ui'[t] = ui[t]
    /\ ui'[s].plan = ui[s].plan /\ ui'[s].lost = ui[s].lost

SameServer(s) ==
    /\ \A t \in Sessions \ {s} : server'[t] = server[t]
    /\ server'[s].todo \subseteq server[s].todo /\ server'[s].plan = server[s].plan
    /\ \A n \in Written(server'[s]) : n.kind = "reply" => n \in Written(server[s])
    /\ NoNews(s)

LEMMA StillHere ==
  ASSUME NEW s \in Sessions
  PROVE  /\ UNCHANGED handle => SameHandle(s)
         /\ UNCHANGED ui => SameUi(s)
         /\ UNCHANGED server => SameServer(s)
BY DEF SameHandle, SameUi, SameServer, NoNews

LEMMA QuietKeeps ==
  ASSUME TypeOK, AllKeep, NEW s \in Sessions, LineFor(s), HeadSame(s), PlanSame(s),
         SameHandle(s), SameUi(s), SameServer(s)
  PROVE  AllKeep'
<1>1. Asks(s) /\ Chosen(s) /\ Wish(s) BY DEF AllKeep
<1>2. Asks(s)' BY <1>1, AsksSame DEF SameHandle, SameServer
<1>3. Firm(s)' => Firm(s) BY DEF Firm, SameHandle, SameUi
<1>4. Chosen(s)' /\ Wish(s)' BY <1>1, <1>3, WishSame DEF SameHandle, SameUi, SameServer
<1>5. QED BY <1>2, <1>4, StepKeeps DEF SameHandle, SameUi, SameServer

\* The line as it is, or with a command at its end that is no message and no
\* plan command.
LEMMA JoinedLine ==
  ASSUME TypeOK, OnlyHead, NEW s, NEW o, o.op \notin {"send", "plan"}, Call(s, o)
  PROVE  LineFor(s) /\ HeadSame(s) /\ PlanSame(s)
<1>1. Joins(NewCommand(s, o)) BY CallJoins
<1>2. QED BY <1>1, JoinsLine DEF LineFor

LEMMA StillLine ==
  ASSUME TypeOK, NEW s, UNCHANGED queue PROVE LineFor(s) /\ HeadSame(s) /\ PlanSame(s)
BY IdleLine DEF LineFor

LEMMA ChatKeeps ==
  ASSUME TypeOK, AllKeep, NEW s \in Sessions,
         Stop(s) \/ Escalate(s) \/ Spawned(s) \/ SpawnFails(s) \/ Returns(s)
  PROVE  AllKeep'
<1>1. ui \in [Sessions -> UiType] /\ ui[s] \in UiType BY Types
<1>2. UNCHANGED <<handle, server>> BY DEF Stop, Escalate, Spawned, SpawnFails, Returns
<1>3. SameUi(s)
  <2>1. CASE Stop(s)
    <3>1. [ui[s] EXCEPT !.stop = "stopping", !.upto = sends[s]].plan = ui[s].plan
          /\ [ui[s] EXCEPT !.stop = "stopping", !.upto = sends[s]].lost = ui[s].lost
      BY <1>1 DEF UiType
    <3>2. QED BY <1>1, <2>1, <3>1 DEF Stop, SameUi
  <2>2. CASE Escalate(s)
    <3>1. [ui[s] EXCEPT !.stop = "forcing"].plan = ui[s].plan
          /\ [ui[s] EXCEPT !.stop = "forcing"].lost = ui[s].lost
      BY <1>1 DEF UiType
    <3>2. QED BY <1>1, <2>2, <3>1 DEF Escalate, SameUi
  <2>3. CASE Spawned(s) BY <2>3 DEF Spawned, SameUi
  <2>4. CASE SpawnFails(s)
    <3>1. [ui[s] EXCEPT !.stop = "idle"].plan = ui[s].plan
          /\ [ui[s] EXCEPT !.stop = "idle"].lost = ui[s].lost
      BY <1>1 DEF UiType
    <3>2. QED BY <1>1, <2>4, <3>1 DEF SpawnFails, SameUi
  <2>5. CASE Returns(s)
    <3>1. Unbusy(ui[s]).plan = ui[s].plan /\ Unbusy(ui[s]).lost = ui[s].lost
      BY <1>1, UnbusyStops
    <3>2. QED BY <1>1, <2>5, <3>1 DEF Returns, SameUi
  <2>6. QED BY <2>1, <2>2, <2>3, <2>4, <2>5
<1>4. LineFor(s) /\ HeadSame(s) /\ PlanSame(s)
  <2>1. OnlyHead BY DEF AllKeep
  <2>2. CASE Stop(s)
    <3>1. Call(s, [op |-> "interrupt", upto |-> sends[s]]) BY <2>2 DEF Stop
    <3>2. QED BY <2>1, <3>1, JoinedLine
  <2>3. CASE Escalate(s)
    <3>1. Call(s, [op |-> "pause"]) BY <2>3 DEF Escalate
    <3>2. QED BY <2>1, <3>1, JoinedLine
  <2>4. CASE Spawned(s)
    <3>1. Call(s, [op |-> "insert"]) BY <2>4 DEF Spawned
    <3>2. QED BY <2>1, <3>1, JoinedLine
  <2>5. CASE SpawnFails(s) \/ Returns(s)
    <3>1. UNCHANGED queue BY <2>5 DEF SpawnFails, Returns
    <3>2. QED BY <3>1, StillLine
  <2>6. QED BY <2>2, <2>3, <2>4, <2>5
<1>5. QED BY <1>2, <1>3, <1>4, StillHere, QuietKeeps

\* Lines that are no replies and tell of no mode.
LEMMA WrittenMore ==
  ASSUME NEW S, NEW l \in Seq(S), NEW n \in S
  PROVE  {Append(l, n)[k] : k \in DOMAIN Append(l, n)} \subseteq {l[k] : k \in DOMAIN l} \cup {n}
BY OneMore

LEMMA WrittenTwo ==
  ASSUME NEW S, NEW l \in Seq(S), NEW x \in S, NEW y \in S
  PROVE  {(l \o <<x, y>>)[k] : k \in DOMAIN (l \o <<x, y>>)}
           \subseteq {l[k] : k \in DOMAIN l} \cup {x, y}
<1> DEFINE z == l \o <<x, y>>
<1>1. \A k \in DOMAIN z : z[k] \in {x, y} \/ (k \in DOMAIN l /\ z[k] = l[k]) BY TwoMore
<1> HIDE DEF z
<1>2. QED BY <1>1

LEMMA ServerKeeps ==
  ASSUME TypeOK, AllKeep, NEW s \in Sessions, NEW v, server' = [server EXCEPT ![s] = v],
         v.todo = server[s].todo, v.plan = server[s].plan,
         \A n \in Written(v) : n.kind \in {"reply", "plan"} => n \in Written(server[s]),
         \A n \in v.tasks : n \in Pending(server[s]),
         LineFor(s), HeadSame(s), PlanSame(s), SameHandle(s), SameUi(s)
  PROVE  AllKeep'
<1>1. server'[s] = v /\ \A t \in Sessions \ {s} : server'[t] = server[t] BY Types
<1>2. NoNews(s) BY <1>1 DEF NoNews, Pending
<1>3. SameServer(s) BY <1>1, <1>2 DEF SameServer
<1>4. QED BY <1>3, QuietKeeps

LEMMA WorksKeeps ==
  ASSUME TypeOK, AllKeep, NEW s \in Sessions,
         TurnStarts(s) \/ Delta(s) \/ TurnEnds(s) \/ Errs(s)
  PROVE  AllKeep'
<1> DEFINE w == server[s]
<1>1. w \in ServerType /\ w.turns \in Seq(Turns) /\ w.lines \in Seq(Notes \cup Replies)
  BY Types DEF ServerType
<1>2. UNCHANGED <<ui, handle, queue>> BY DEF TurnStarts, Delta, TurnEnds, Errs
<1>3. LineFor(s) /\ HeadSame(s) /\ PlanSame(s) /\ SameHandle(s) /\ SameUi(s)
  BY <1>2, StillHere, StillLine
<1>4. ASSUME NEW n \in Notes, n.kind # "plan", NEW v, server' = [server EXCEPT ![s] = v],
             v.todo = w.todo, v.plan = w.plan, v.lines = Append(w.lines, n), v.tasks = w.tasks
      PROVE  AllKeep'
  <2>1. n.kind # "reply" BY DEF Notes
  <2>2. Written(v) \subseteq Written(w) \cup {n} BY <1>1, <1>4, WrittenMore DEF Written
  <2>3. \A m \in Written(v) : m.kind \in {"reply", "plan"} => m \in Written(w)
    BY <1>4, <2>1, <2>2
  <2>4. \A m \in v.tasks : m \in Pending(w) BY <1>4 DEF Pending
  <2>5. QED BY <1>3, <1>4, <2>3, <2>4, ServerKeeps
<1>5. ASSUME NEW kind \in {"started", "delta", "completed"}, NEW turn \in Turns
      PROVE  Notice(kind, turn) \in Notes /\ Notice(kind, turn).kind # "plan"
  BY DEF Notice, Notes
<1>6. CASE TurnStarts(s)
  <2> DEFINE turn == Head(w.turns)
             v == [w EXCEPT !.running = turn, !.turns = Tail(@),
                            !.lines = Append(@, Notice("started", turn))]
  <2>1. server' = [server EXCEPT ![s] = v] /\ w.turns # <<>> BY <1>6 DEF TurnStarts
  <2>2. turn \in Turns BY <1>1, <2>1
  <2>3. /\ v.lines = Append(w.lines, Notice("started", turn))
        /\ v.todo = w.todo /\ v.tasks = w.tasks /\ v.plan = w.plan
    BY <1>1 DEF ServerType
  <2> HIDE DEF v, turn
  <2>4. QED BY <1>4, <1>5, <2>1, <2>2, <2>3
<1>7. CASE Delta(s)
  <2> DEFINE v == [w EXCEPT !.said = w.running, !.lines = Append(@, Notice("delta", w.running))]
  <2>1. server' = [server EXCEPT ![s] = v] BY <1>7 DEF Delta
  <2>2. w.running \in Turns BY <1>7, RunningTypes DEF Delta
  <2>3. /\ v.lines = Append(w.lines, Notice("delta", w.running))
        /\ v.todo = w.todo /\ v.tasks = w.tasks /\ v.plan = w.plan
    BY <1>1 DEF ServerType
  <2> HIDE DEF v
  <2>4. QED BY <1>4, <1>5, <2>1, <2>2, <2>3
<1>8. CASE TurnEnds(s)
  <2> DEFINE v == [w EXCEPT !.running = 0, !.lines = Append(@, Notice("completed", w.running))]
  <2>1. server' = [server EXCEPT ![s] = v] /\ w.running # 0 BY <1>8 DEF TurnEnds
  <2>2. w.running \in Turns BY <2>1, RunningTypes
  <2>3. /\ v.lines = Append(w.lines, Notice("completed", w.running))
        /\ v.todo = w.todo /\ v.tasks = w.tasks /\ v.plan = w.plan
    BY <1>1 DEF ServerType
  <2> HIDE DEF v
  <2>4. QED BY <1>4, <1>5, <2>1, <2>2, <2>3
<1>9. CASE Errs(s)
  <2> DEFINE n == [kind |-> "error"]
             v == [w EXCEPT !.lines = Append(@, n)]
  <2>1. server' = [server EXCEPT ![s] = v] BY <1>9 DEF Errs
  <2>2. n \in Notes /\ n.kind # "plan" BY DEF Notes
  <2> HIDE DEF n
  <2>3. /\ v.lines = Append(w.lines, n)
        /\ v.todo = w.todo /\ v.tasks = w.tasks /\ v.plan = w.plan
    BY <1>1 DEF ServerType
  <2> HIDE DEF v
  <2>4. QED BY <1>4, <2>1, <2>2, <2>3
<1>10. QED BY <1>6, <1>7, <1>8, <1>9

LEMMA FailureKeeps ==
  ASSUME TypeOK, AllKeep, NEW s \in Sessions, Wedge(s) \/ Exit(s) \/ Killed(s) \/ WriterFails(s)
  PROVE  AllKeep'
<1> DEFINE w == server[s]
<1>1. w \in ServerType BY Types
<1>2. UNCHANGED <<ui, queue>> BY DEF Wedge, Exit, Killed, WriterFails
<1>3. LineFor(s) /\ HeadSame(s) /\ PlanSame(s) /\ SameUi(s) BY <1>2, StillHere, StillLine
<1>4. ASSUME NEW v, server' = [server EXCEPT ![s] = v], v.todo = w.todo, v.plan = w.plan,
             v.lines = w.lines, v.tasks = w.tasks, UNCHANGED handle
      PROVE  AllKeep'
  <2>1. Written(v) = Written(w) BY <1>4 DEF Written
  <2>2. \A n \in v.tasks : n \in Pending(w) BY <1>4 DEF Pending
  <2>3. QED BY <1>3, <1>4, <2>1, <2>2, StillHere, ServerKeeps
<1>5. CASE Wedge(s)
  <2> DEFINE v == [w EXCEPT !.is = "wedged"]
  <2>1. server' = [server EXCEPT ![s] = v] /\ UNCHANGED handle BY <1>5 DEF Wedge
  <2>2. v.todo = w.todo /\ v.plan = w.plan /\ v.lines = w.lines /\ v.tasks = w.tasks
    BY <1>1 DEF ServerType
  <2> HIDE DEF v
  <2>3. QED BY <1>4, <2>1, <2>2
<1>6. CASE Exit(s) \/ Killed(s)
  <2> DEFINE v == [w EXCEPT !.is = "gone", !.running = 0, !.turns = <<>>]
  <2>1. server' = [server EXCEPT ![s] = v] /\ UNCHANGED handle BY <1>6 DEF Exit, Killed
  <2>2. v.todo = w.todo /\ v.plan = w.plan /\ v.lines = w.lines /\ v.tasks = w.tasks
    BY <1>1 DEF ServerType
  <2> HIDE DEF v
  <2>3. QED BY <1>4, <2>1, <2>2
<1>7. CASE WriterFails(s)
  <2> DEFINE h == [handle[s] EXCEPT !.writer = FALSE]
  <2>1. handle \in [Sessions -> HandleType] BY Types
  <2>2. h.next = handle[s].next /\ h.plan = handle[s].plan /\ h.native = handle[s].native
        /\ h.held = handle[s].held
    BY <2>1 DEF HandleType
  <2>3. handle' = [handle EXCEPT ![s] = h] /\ UNCHANGED server BY <1>7 DEF WriterFails
  <2> HIDE DEF h
  <2>4. SameHandle(s) BY <2>1, <2>2, <2>3 DEF SameHandle
  <2>5. QED BY <1>3, <2>3, <2>4, StillHere, QuietKeeps
<1>8. QED BY <1>5, <1>6, <1>7
-----------------------------------------------------------------------------
(* What the user does *)

\* A message is shown as what the chat shows, and stands behind every change.
LEMMA SendKeeps == ASSUME TypeOK, AllKeep, NEW s \in Sessions, Send(s) PROVE AllKeep'
<1> DEFINE o == [op |-> "send", turn |-> sends[s] + 1,
                 shown |-> ui[s].plan /\ ~ui[s].lost]
           c == NewCommand(s, o)
<1>1. /\ Call(s, o) /\ UNCHANGED <<handle, server>>
      /\ ui' = [ui EXCEPT ![s].busy = TRUE]
  BY DEF Send
<1>2. Joins(c) BY <1>1, CallJoins
<1>3. c.order.shown = (ui[s].plan /\ ~ui[s].lost) /\ ~IsOf(c, s, "plan") BY DEF NewCommand, IsOf
<1>4. OnlyHead /\ Asks(s) /\ Chosen(s) /\ Wish(s) BY DEF AllKeep
<1>5. HeadSame(s) /\ LineFor(s) BY <1>2, <1>4, JoinsLine DEF LineFor
<1>6. /\ \A t \in Sessions \ {s} : ui'[t] = ui[t]
      /\ ui'[s].plan = ui[s].plan /\ ui'[s].lost = ui[s].lost
  BY <1>1, Types DEF UiType
<1> HIDE DEF c, o
<1>7. Asks(s)' BY <1>1, <1>4, <1>5, AsksSame
<1>8. PICK n \in DOMAIN queue' :
        /\ n \in Nat /\ n \notin DOMAIN queue /\ queue'[n] = c
        /\ \A i \in DOMAIN queue : i < n /\ i \in DOMAIN queue' /\ queue'[i] = queue[i]
        /\ \A i \in DOMAIN queue' : i = n \/ i \in DOMAIN queue
  BY <1>2 DEF Joins
<1>9. \A i \in DOMAIN queue' : i # n => i \in DOMAIN queue /\ queue'[i] = queue[i] BY <1>8
<1>10. \A i \in DOMAIN queue' : IsOf(queue'[i], s, "plan") =>
         i # n /\ i \in DOMAIN queue /\ queue'[i] = queue[i]
  BY <1>3, <1>8, <1>9
<1>11. ASSUME handle'[s].held, ~ui'[s].lost PROVE Wishes(s)
  <2>1. Firm(s) BY <1>1, <1>6, <1>11 DEF Firm
  <2>2. (\A i \in DOMAIN queue' : ~IsOf(queue'[i], s, "plan")) => handle[s].plan = ui[s].plan
    BY <1>4, <1>8, <2>1 DEF Wish
  <2>3. ASSUME NEW i \in DOMAIN queue', IsOf(queue'[i], s, "plan")
        PROVE  /\ queue'[i].order.on = ui[s].plan
               /\ queue'[i].at = "queued" => \A m \in Pending(server[s]) : m.kind # "plan"
               /\ queue'[i].at = "waiting" => handle[s].plan = ui[s].plan
               /\ \A j \in DOMAIN queue' : Shown(queue'[j], s) /\ j < i => handle[s].plan
               /\ \A j \in DOMAIN queue' : IsOf(queue'[j], s, "plan") => i = j
    <3>1. i \in DOMAIN queue /\ queue'[i] = queue[i] /\ i < n BY <1>8, <1>10, <2>3
    <3>2. /\ queue[i].order.on = ui[s].plan
          /\ queue[i].at = "queued" => \A m \in Pending(server[s]) : m.kind # "plan"
          /\ queue[i].at = "waiting" => handle[s].plan = ui[s].plan
          /\ \A j \in DOMAIN queue : Shown(queue[j], s) /\ j < i => handle[s].plan
          /\ \A j \in DOMAIN queue : IsOf(queue[j], s, "plan") => i = j
      BY <1>4, <2>1, <2>3, <3>1 DEF Wish
    <3>3. ASSUME NEW j \in DOMAIN queue', Shown(queue'[j], s), j < i PROVE handle[s].plan
      <4>1. i \in Nat /\ n \in Nat BY <1>8, <3>1, Places
      <4>2. j # n BY <3>1, <3>3, <4>1
      <4>3. QED BY <1>9, <3>2, <3>3, <4>2
    <3>4. \A j \in DOMAIN queue' : IsOf(queue'[j], s, "plan") => i = j BY <1>10, <3>2
    <3>5. QED BY <3>1, <3>2, <3>3, <3>4
  <2>4. \A m \in Pending(server[s]) : m.kind = "plan" => m.on = ui[s].plan
    BY <1>4, <2>1 DEF Wish
  <2>5. ASSUME NEW j \in DOMAIN queue', Shown(queue'[j], s), ~ui[s].plan
        PROVE  \E i \in DOMAIN queue' : IsOf(queue'[i], s, "plan") /\ j < i
    <3>1. j # n BY <1>3, <1>8, <2>5 DEF Shown
    <3>2. j \in DOMAIN queue /\ queue'[j] = queue[j] BY <1>9, <3>1
    <3>3. PICK i \in DOMAIN queue : IsOf(queue[i], s, "plan") /\ j < i
      BY <1>4, <2>1, <2>5, <3>2 DEF Wish
    <3>4. QED BY <1>8, <3>3
  <2>6. QED BY <1>1, <1>6, <2>2, <2>3, <2>4, <2>5 DEF Wishes
<1>12. Wish(s)' BY <1>11, WishNext
<1>13. Chosen(s)'
  <2>1. \A k \in DOMAIN queue' : Shown(queue'[k], s) => ~ui'[s].lost
    BY <1>3, <1>4, <1>6, <1>8, <1>9 DEF Chosen, Shown
  <2>2. QED BY <2>1 DEF Chosen, Shown, Waits, IsOf
<1>14. QED BY <1>1, <1>4, <1>5, <1>6, <1>7, <1>12, <1>13, StepKeeps

\* Whoever changes the mode does so when no other change is under way and no news
\* of one. A message may wait, behind an error, and goes out as it was shown.
LEMMA ToggleKeeps ==
  ASSUME TypeOK, AllKeep, "hasty" \notin Acts, NEW s \in Sessions, TogglePlan(s)
  PROVE  AllKeep'
<1> DEFINE o == [op |-> "plan", on |-> ~ui[s].plan]
           c == NewCommand(s, o)
<1>1. /\ Call(s, o) /\ UNCHANGED <<handle, server>> /\ ~Called(s, "plan")
      /\ server[s].lines = <<>> /\ server[s].tasks = {}
      /\ ui' = [ui EXCEPT ![s].plan = ~@, ![s].lost = FALSE]
  BY DEF TogglePlan
<1>2. Joins(c) BY <1>1, CallJoins
<1>3. /\ c.order.on = ~ui[s].plan /\ IsOf(c, s, "plan") /\ ~Waits(c, s) /\ c.at = "queued"
  BY DEF NewCommand, IsOf, Waits
<1>4. OnlyHead /\ Asks(s) /\ Chosen(s) /\ Wish(s) BY DEF AllKeep
<1>5. HeadSame(s) /\ LineFor(s) BY <1>2, <1>4, JoinsLine DEF LineFor
<1>6. ui \in [Sessions -> UiType] BY Types
<1>7. (\A t \in Sessions \ {s} : ui'[t] = ui[t]) /\ ui'[s].plan = ~ui[s].plan /\ ~ui'[s].lost
  BY <1>1, <1>6 DEF UiType
<1> HIDE DEF c, o
<1>8. Asks(s)' BY <1>1, <1>4, <1>5, AsksSame
<1>9. PICK n \in DOMAIN queue' :
        /\ n \in Nat /\ queue'[n] = c /\ \A i \in DOMAIN queue : i < n
        /\ \A i \in DOMAIN queue' : i # n => i \in DOMAIN queue /\ queue'[i] = queue[i]
  BY <1>2 DEF Joins
<1>10. Pending(server[s]) = {} BY <1>1 DEF Pending, Written
<1>11. \A i \in DOMAIN queue' : IsOf(queue'[i], s, "plan") => i = n
  BY <1>1, <1>9 DEF Called, IsOf
<1>12. \A j \in DOMAIN queue' : Shown(queue'[j], s) =>
         j \in DOMAIN queue /\ Shown(queue[j], s) /\ j < n
  BY <1>3, <1>9 DEF Shown
<1>13. ASSUME handle'[s].held PROVE Wishes(s)
  <2>1. handle[s].held /\ \A i \in DOMAIN queue : ~IsOf(queue[i], s, "plan")
    BY <1>1, <1>13 DEF Called, IsOf
  <2>2. ASSUME NEW j \in DOMAIN queue, Shown(queue[j], s) PROVE handle[s].plan
    <3>1. Firm(s) BY <1>4, <2>1, <2>2 DEF Firm, Chosen
    <3>2. QED BY <1>4, <2>1, <2>2, <3>1 DEF Wish
  <2>3. \A j \in DOMAIN queue' : Shown(queue'[j], s) => handle'[s].plan BY <1>1, <1>12, <2>2
  <2>4. \A i \in DOMAIN queue' : IsOf(queue'[i], s, "plan") =>
          /\ queue'[i].order.on = ui'[s].plan
          /\ queue'[i].at = "queued"
    BY <1>3, <1>7, <1>9, <1>11
  <2>5. IsOf(queue'[n], s, "plan") BY <1>3, <1>9
  <2>6. Pending(server'[s]) = {} BY <1>1, <1>10
  <2>7. QED BY <1>11, <1>12, <2>3, <2>4, <2>5, <2>6 DEF Wishes
<1>14. Wish(s)' BY <1>13, WishNext
<1>15. Chosen(s)' BY <1>7 DEF Chosen
<1>16. QED BY <1>1, <1>4, <1>5, <1>7, <1>8, <1>14, <1>15, StepKeeps

-----------------------------------------------------------------------------
(* What a forced stop does, and an interrupt that is given up *)

LEMMA AckKeeps == ASSUME TypeOK, AllKeep, NEW s \in Sessions, AckTimesOut(s) PROVE AllKeep'
<1>1. /\ queue # <<>> /\ Release /\ Head(queue).s = s /\ Head(queue).order.op = "interrupt"
      /\ UNCHANGED <<ui, handle, server>>
  BY DEF AckTimesOut
<1>2. OnlyHead /\ Asks(s) /\ Chosen(s) /\ Wish(s) BY DEF AllKeep
<1>3. Advances BY <1>1, ReleaseAdvances
<1>4. queue[1].s = s /\ queue[1].order.op = "interrupt" BY <1>1, <1>3 DEF Advances
<1>5. ~IsOf(queue[1], s, "plan") BY <1>4 DEF IsOf
<1>6. ~AtHead(s)' /\ PlanSame(s) /\ LineFor(s)
  BY <1>2, <1>3, <1>4, <1>5, AdvancesLine DEF LineFor
<1>7. \A r \in server[s].todo : r.op = "interrupt"
  <2> SUFFICES ASSUME NEW r \in server[s].todo, r.op # "interrupt" PROVE FALSE OBVIOUS
  <2>1. r.op \in {"turn", "settings"}
    <3>1. server[s] \in ServerType BY Types
    <3>2. r \in Requests BY <3>1 DEF ServerType
    <3>3. QED BY <3>2 DEF Requests
  <2>2. QED BY <1>2, <1>4, <2>1 DEF Asks, Asked
<1>8. handle[s].native => server[s].plan BY <1>2, <1>4 DEF Asks, Native
<1>9. Ids(s)' BY <1>1, <1>2, IdsSame DEF Asks
<1>10. Asks(s)' BY <1>1, <1>6, <1>7, <1>8, <1>9, AsksFree
<1>11. Firm(s)' => Firm(s) BY <1>1 DEF Firm
<1>12. NoNews(s) BY <1>1 DEF NoNews
<1>13. Chosen(s)' /\ Wish(s)' BY <1>1, <1>2, <1>6, <1>11, <1>12, WishSame
<1>14. QED BY <1>1, <1>6, <1>10, <1>13, StepKeeps

LEMMA QueuedHead ==
  ASSUME TypeOK, OnlyHead, NEW s \in Sessions, NEW op, Takes(s, op)
  PROVE  /\ queue # <<>> /\ 1 \in DOMAIN queue /\ Head(queue) = queue[1]
         /\ queue[1].s = s /\ queue[1].order.op = op /\ queue[1].at = "queued"
         /\ ~AtHead(s)
<1>1. queue # <<>> /\ 1 \in DOMAIN queue /\ Head(queue) = queue[1] BY HeadFacts DEF Takes
<1>2. QED BY <1>1 DEF Takes, AtHead

LEMMA PauseKeeps == ASSUME TypeOK, AllKeep, NEW s \in Sessions, PauseTakes(s) PROVE AllKeep'
<1>1. /\ Takes(s, "pause") /\ Release /\ UNCHANGED <<ui, server>>
      /\ handle' = [handle EXCEPT ![s].held = FALSE]
  BY DEF PauseTakes
<1>2. OnlyHead /\ Asks(s) /\ Chosen(s) BY DEF AllKeep
<1>3. queue # <<>> /\ queue[1].s = s /\ ~AtHead(s) BY <1>1, <1>2, QueuedHead
<1>4. Advances BY <1>1, <1>3, ReleaseAdvances
<1>5. HeadSame(s) /\ LineFor(s) BY <1>2, <1>3, <1>4, AdvancesLine DEF LineFor
<1>6. handle \in [Sessions -> HandleType] BY Types
<1> DEFINE h == [handle[s] EXCEPT !.held = FALSE]
<1>7. ~h.held /\ h.next = handle[s].next /\ h.native = handle[s].native
  BY <1>6 DEF HandleType
<1>8. handle' = [handle EXCEPT ![s] = h] BY <1>1
<1> HIDE DEF h
<1>9. handle'[s] = h /\ \A t \in Sessions \ {s} : handle'[t] = handle[t] BY <1>6, <1>8
<1>10. Asks(s)' BY <1>1, <1>2, <1>5, <1>7, <1>9, AsksSame
<1>11. Wish(s)' BY <1>7, <1>9, WishNext
<1>12. Chosen(s)' BY <1>1, <1>2, <1>4, ChosenOn
<1>13. QED BY <1>1, <1>5, <1>9, <1>10, <1>11, <1>12, StepKeeps

\* Whoever puts a new process in place finds no message that waits.
LEMMA InsertKeeps ==
  ASSUME TypeOK, AllTell, AllKeep, NEW s \in Sessions, InsertTakes(s)
  PROVE  AllKeep'
<1>1. /\ Takes(s, "insert") /\ Release
      /\ handle' = [handle EXCEPT ![s] = NewHandle]
      /\ server' = [server EXCEPT ![s] = NewServer]
      /\ ui' = [ui EXCEPT ![s].lost = TRUE]
  BY DEF InsertTakes
<1>2. OnlyHead BY DEF AllKeep
<1>3. queue # <<>> /\ queue[1].s = s /\ ~AtHead(s) BY <1>1, <1>2, QueuedHead
<1>4. Advances BY <1>1, <1>3, ReleaseAdvances
<1>5. ~AtHead(s)' /\ LineFor(s) BY <1>2, <1>3, <1>4, AdvancesLine DEF LineFor
<1>6. /\ handle \in [Sessions -> HandleType] /\ server \in [Sessions -> ServerType]
      /\ ui \in [Sessions -> UiType]
  BY Types
<1>7. /\ \A t \in Sessions \ {s} :
           handle'[t] = handle[t] /\ server'[t] = server[t] /\ ui'[t] = ui[t]
      /\ handle'[s] = NewHandle /\ server'[s] = NewServer
  BY <1>1, <1>6
<1>8. ui'[s].lost BY <1>1, <1>6 DEF UiType
<1>9. /\ NewServer.todo = {} /\ NewServer.lines = <<>> /\ ~NewHandle.native
  BY DEF NewServer, NewHandle
<1>10. Ids(s)' BY <1>7, <1>9 DEF Ids, Written
<1>11. Asks(s)' BY <1>5, <1>7, <1>9, <1>10, AsksFree
<1>12. Wish(s)' BY <1>8, WishNext
<1>13. Chosen(s)'
  <2>1. PICK i \in DOMAIN forces[s] : forces[s][i].at = "inserting" BY DEF InsertTakes, First
  <2>2. \A k \in DOMAIN queue : ~Waits(queue[k], s)
    BY <2>1 DEF AllTell, Tells, Cleared, Underway, Waits
  <2>3. \A k \in DOMAIN queue' : ~Waits(queue'[k], s) BY <1>4, <2>2 DEF Advances
  <2>4. QED BY <2>3 DEF Chosen, Shown, Waits, IsOf
<1>14. QED BY <1>5, <1>7, <1>11, <1>12, <1>13, StepKeeps

-----------------------------------------------------------------------------
(* What the holder of the lock asks for *)

LEMMA FreeLine ==
  ASSUME TypeOK, NEW s \in Sessions, Asks(s), ~AtHead(s)
  PROVE  (\A r \in server[s].todo : r.op = "interrupt") /\ (handle[s].native => server[s].plan)
BY DEF Asks, Asked, Native

\* A request r is made that nobody has made before.
LEMMA AskAsks ==
  ASSUME TypeOK, NEW s \in Sessions, Asks(s), NEW r \in Requests, r.id = handle[s].next,
         queue[1].s = s, ~AtHead(s), Awaiting(r.id),
         server'[s].todo = server[s].todo \cup {r}, server'[s].lines = server[s].lines,
         server'[s].plan = server[s].plan,
         handle'[s].next = handle[s].next + 1, handle'[s].native = handle[s].native,
         r.op = "turn" => queue[1].order.op = "send",
         r.op = "settings" => queue[1].order.op = "plan" /\ queue[1].order.on = r.on,
         queue[1].order.op = "plan" => r.op = "settings",
         r.op = "turn" /\ r.shown => r.readOnly /\ (r.preamble \/ server[s].plan)
  PROVE  Asks(s)'
<1>1. /\ \A q \in server[s].todo : q.op = "interrupt"
      /\ handle[s].native => server[s].plan
  BY FreeLine
<1>2. handle[s].next \in Nat BY Types DEF HandleType
<1>3. /\ \A q \in server[s].todo : q.id < handle[s].next /\ q.id \in Nat
      /\ \A p, q \in server[s].todo : p.id = q.id => p = q
      /\ \A n \in Written(server[s]) : n.kind = "reply" =>
           n.id < handle[s].next /\ \A q \in server[s].todo : q.id # n.id
  <2>1. server[s] \in ServerType BY Types
  <2>2. server[s].todo \subseteq Requests BY <2>1 DEF ServerType
  <2>3. \A q \in Requests : q.id \in Nat BY DEF Requests
  <2>4. QED BY <2>2, <2>3 DEF Asks, Ids
<1>4. Written(server'[s]) = Written(server[s]) BY DEF Written
<1>5. \A n \in Written(server[s]) : n.kind = "reply" => n.id \in Nat
  <2>1. server[s] \in ServerType BY Types
  <2>2. server[s].lines \in Seq(Notes \cup Replies) BY <2>1 DEF ServerType
  <2>3. \A n \in Written(server[s]) : n \in Notes \cup Replies BY <2>2 DEF Written
  <2>4. \A n \in Notes : n.kind # "reply" BY DEF Notes
  <2>5. \A n \in Replies : n.id \in Nat BY DEF Replies
  <2>6. QED BY <2>3, <2>4, <2>5
<1>6. AtHead(s)' /\ queue'[1].id = r.id /\ queue'[1].order = queue[1].order
  BY DEF Awaiting, AtHead
<1>7. Ids(s)'
  <2>1. \A q \in server'[s].todo : q.id < handle'[s].next BY <1>2, <1>3
  <2>2. \A p, q \in server'[s].todo : p.id = q.id => p = q BY <1>2, <1>3
  <2>3. \A n \in Written(server'[s]) : n.kind = "reply" =>
          n.id < handle'[s].next /\ \A q \in server'[s].todo : q.id # n.id
    BY <1>2, <1>3, <1>4, <1>5
  <2>4. QED BY <2>1, <2>2, <2>3 DEF Ids, Written
<1>8. Asked(s)' BY <1>1, <1>6 DEF Asked
<1>9. HeadId(s)'
  <2>1. \A q \in server'[s].todo : q.id = r.id => q = r BY <1>2, <1>3
  <2>2. r.op = "settings" <=> queue'[1].order.op = "plan" BY <1>6
  <2>3. QED BY <1>6, <2>1, <2>2 DEF HeadId
<1>10. Told(s)'
  <2>1. \A n \in Written(server'[s]) : n.kind = "reply" => n.id # r.id
    BY <1>2, <1>3, <1>4, <1>5
  <2>2. QED BY <1>6, <2>1 DEF Told, Written
<1>11. Native(s)' BY <1>1 DEF Native
<1>12. Kept(s)' BY <1>1 DEF Kept
<1>13. QED BY <1>7, <1>8, <1>9, <1>10, <1>11, <1>12 DEF Asks

LEMMA AskFacts ==
  ASSUME TypeOK, queue # <<>>, NEW s \in Sessions, NEW r, Ask(s, r)
  PROVE  /\ Awaiting(r.id)
         /\ \A t \in Sessions \ {s} : handle'[t] = handle[t] /\ server'[t] = server[t]
         /\ server'[s].todo = server[s].todo \cup {r} /\ server'[s].plan = server[s].plan
         /\ server'[s].lines = server[s].lines /\ server'[s].tasks = server[s].tasks
         /\ handle'[s].next = handle[s].next + 1 /\ handle'[s].native = handle[s].native
         /\ handle'[s].plan = handle[s].plan /\ handle'[s].held = handle[s].held
<1>1. Awaiting(r.id) BY AskAwaiting DEF Ask
<1>2. handle \in [Sessions -> HandleType] /\ server \in [Sessions -> ServerType] BY Types
<1> DEFINE v == [server[s] EXCEPT !.todo = @ \cup {r}]
           h == [handle[s] EXCEPT !.next = @ + 1]
<1>3. /\ v.todo = server[s].todo \cup {r} /\ v.plan = server[s].plan
      /\ v.lines = server[s].lines /\ v.tasks = server[s].tasks
  <2>1. server[s] \in ServerType BY <1>2
  <2>2. QED BY <2>1 DEF ServerType
<1>4. /\ h.next = handle[s].next + 1 /\ h.native = handle[s].native
      /\ h.plan = handle[s].plan /\ h.held = handle[s].held
  <2>1. handle[s] \in HandleType BY <1>2
  <2>2. QED BY <2>1 DEF HandleType
<1>5. server' = [server EXCEPT ![s] = v] /\ handle' = [handle EXCEPT ![s] = h] BY DEF Ask
<1> HIDE DEF v, h
<1>6. QED BY <1>1, <1>2, <1>3, <1>4, <1>5

\* The holder asks for what does not touch the mode.
LEMMA AskKeeps ==
  ASSUME TypeOK, AllKeep, NEW s \in Sessions, NEW op \in {"send", "interrupt"}, Takes(s, op),
         NEW r \in Requests, r.id = handle[s].next, Ask(s, r), UNCHANGED ui,
         r.op # "settings", r.op = "turn" => op = "send",
         r.op = "turn" /\ r.shown => r.readOnly /\ (r.preamble \/ server[s].plan)
  PROVE  AllKeep'
<1>1. OnlyHead /\ Asks(s) /\ Chosen(s) /\ Wish(s) BY DEF AllKeep
<1>2. queue # <<>> /\ queue[1].s = s /\ queue[1].order.op = op /\ ~AtHead(s)
  BY <1>1, QueuedHead
<1>3. Awaiting(r.id) BY <1>2, AskFacts
<1>4. Asks(s)' BY <1>1, <1>2, <1>3, AskFacts, AskAsks
<1>5. ~IsOf(queue[1], s, "plan") BY <1>2 DEF IsOf
<1>6. PlanSame(s) /\ LineFor(s) BY <1>1, <1>2, <1>3, <1>5, AwaitingLine DEF LineFor
<1>7. handle'[s].held = handle[s].held /\ handle'[s].plan = handle[s].plan
  BY <1>2, AskFacts
<1>8. Firm(s)' => Firm(s) BY <1>7 DEF Firm
<1>9. NoNews(s)
  <2>1. server'[s].lines = server[s].lines /\ server'[s].tasks = server[s].tasks
    BY <1>2, AskFacts
  <2>2. QED BY <2>1 DEF NoNews, Pending, Written
<1>10. Chosen(s)' /\ Wish(s)' BY <1>1, <1>6, <1>7, <1>8, <1>9, WishSame
<1>11. QED BY <1>2, <1>4, <1>6, <1>10, AskFacts, StepKeeps

\* A command that leaves at once.
LEMMA LeaveKeeps ==
  ASSUME TypeOK, AllKeep, NEW s \in Sessions, NEW op, op # "plan", Takes(s, op), Release,
         UNCHANGED <<ui, handle, server>>
  PROVE  AllKeep'
<1>1. OnlyHead BY DEF AllKeep
<1>2. queue # <<>> /\ queue[1].s = s /\ queue[1].order.op = op /\ ~AtHead(s)
  BY <1>1, QueuedHead
<1>3. Advances BY <1>2, ReleaseAdvances
<1>4. ~IsOf(queue[1], s, "plan") BY <1>2 DEF IsOf
<1>5. HeadSame(s) /\ PlanSame(s) /\ LineFor(s)
  BY <1>1, <1>2, <1>3, <1>4, AdvancesLine DEF LineFor
<1>6. QED BY <1>5, StillHere, QuietKeeps

LEMMA SendStartsKeeps == ASSUME TypeOK, AllKeep, NEW s \in Sessions, SendStarts(s) PROVE AllKeep'
<1>1. Takes(s, "send") /\ UNCHANGED ui BY DEF SendStarts
<1>2. CASE ~Reaches(s)
  <2>1. Release /\ UNCHANGED <<handle, server>> BY <1>2 DEF SendStarts
  <2>2. QED BY <1>1, <2>1, LeaveKeeps
<1>3. CASE Reaches(s)
  <2> DEFINE o == Head(queue).order
             r == TurnRequest(s, o)
  <2>1. OnlyHead /\ Asks(s) /\ Wish(s) BY DEF AllKeep
  <2>2. /\ queue # <<>> /\ 1 \in DOMAIN queue /\ Head(queue) = queue[1] /\ ~AtHead(s)
        /\ Waits(queue[1], s)
    BY <1>1, <2>1, QueuedHead DEF Waits, IsOf
  <2>3. /\ o.turn \in Turns /\ o.shown \in BOOLEAN
        /\ handle[s].next \in Nat /\ handle[s].plan \in BOOLEAN /\ handle[s].native \in BOOLEAN
        /\ ui[s].lost \in BOOLEAN
    BY <1>1, <2>2, HeadTypes, Types DEF Takes, HandleType, UiType
  <2>4. r \in Requests BY <2>3 DEF TurnRequest, Requests
  <2>5. /\ r.id = handle[s].next /\ r.op = "turn" /\ r.readOnly = handle[s].plan
        /\ r.preamble = (handle[s].plan /\ ~handle[s].native)
        /\ r.shown = (o.shown /\ ~ui[s].lost)
    BY DEF TurnRequest
  <2>6. Ask(s, r) BY <1>3 DEF SendStarts
  <2> HIDE DEF r
  <2>7. ASSUME r.shown PROVE r.readOnly /\ (r.preamble \/ server[s].plan)
    <3>1. Firm(s) /\ o.shown BY <1>3, <2>5, <2>7 DEF Firm, Reaches
    <3>2. Shown(queue[1], s) BY <2>2, <3>1 DEF Shown
    <3>3. handle[s].plan
      <4>1. CASE \E i \in DOMAIN queue : IsOf(queue[i], s, "plan")
        <5>1. PICK i \in DOMAIN queue : IsOf(queue[i], s, "plan") BY <4>1
        <5>2. i # 1 BY <2>2, <5>1 DEF Waits, IsOf
        <5>3. i \in Nat /\ i > 0 BY Places
        <5>4. 1 < i BY <5>2, <5>3
        <5>5. QED BY <2>1, <2>2, <3>1, <3>2, <5>1, <5>4 DEF Wish
      <4>2. CASE \A i \in DOMAIN queue : ~IsOf(queue[i], s, "plan")
        BY <2>1, <2>2, <3>1, <3>2, <4>2 DEF Wish
      <4>3. QED BY <4>1, <4>2
    <3>4. handle[s].native => server[s].plan BY <2>1, <2>2, FreeLine
    <3>5. QED BY <2>5, <3>3, <3>4
  <2>8. QED BY <1>1, <2>4, <2>5, <2>6, <2>7, AskKeeps
<1>4. QED BY <1>2, <1>3

LEMMA InterruptKeeps ==
  ASSUME TypeOK, AllKeep, NEW s \in Sessions, InterruptStarts(s) PROVE AllKeep'
<1>1. Takes(s, "interrupt") /\ queue # <<>> /\ UNCHANGED ui BY DEF InterruptStarts, Takes
<1>2. CASE Reaches(s) /\ handle[s].known # 0
  <2> DEFINE r == [id |-> handle[s].next, op |-> "interrupt", turn |-> handle[s].known,
                   upto |-> Head(queue).order.upto]
  <2>1. r \in Requests
    <3>1. Head(queue).order.upto \in MaybeTurn BY <1>1, HeadTypes DEF Takes
    <3>2. handle[s].next \in Nat /\ handle[s].known \in Turns
      BY <1>2, Types, CodexAssumption DEF HandleType, MaybeTurn, Turns
    <3>3. QED BY <3>1, <3>2 DEF Requests
  <2>2. Ask(s, r) /\ r.op = "interrupt" /\ r.id = handle[s].next BY <1>2 DEF InterruptStarts
  <2> HIDE DEF r
  <2>3. QED BY <1>1, <2>1, <2>2, AskKeeps
<1>3. CASE ~(Reaches(s) /\ handle[s].known # 0)
  <2>1. Release /\ UNCHANGED <<handle, server>> BY <1>3 DEF InterruptStarts
  <2>2. QED BY <1>1, <2>1, LeaveKeeps
<1>4. QED BY <1>2, <1>3

-----------------------------------------------------------------------------
(* A change of the mode *)

LEMMA NoPlanWishes ==
  ASSUME NEW t, \A i \in DOMAIN queue' : ~IsOf(queue'[i], t, "plan"),
         handle'[t].plan = ui'[t].plan,
         \A n \in Pending(server'[t]) : n.kind = "plan" => n.on = ui'[t].plan,
         \A j \in DOMAIN queue' : Shown(queue'[j], t) => ui'[t].plan
  PROVE  Wishes(t)
BY DEF Wishes

\* A change that is made leaves the line.
LEMMA PlanDone ==
  ASSUME TypeOK, NEW s \in Sessions, Wish(s), Advances, IsOf(queue[1], s, "plan"),
         Firm(s)' => /\ Firm(s) /\ ui'[s].plan = ui[s].plan /\ handle'[s].plan = ui[s].plan
                     /\ NoNews(s)
  PROVE  Wish(s)'
<1> SUFFICES ASSUME handle'[s].held, ~ui'[s].lost PROVE Wishes(s) BY WishNext
<1>1. Firm(s) /\ ui'[s].plan = ui[s].plan /\ handle'[s].plan = ui[s].plan /\ NoNews(s)
  BY DEF Firm
<1>2. 1 \in DOMAIN queue BY DEF Advances
<1>3. ASSUME NEW i \in DOMAIN queue' PROVE ~IsOf(queue'[i], s, "plan")
  <2>1. i \in Nat \ {0} /\ i + 1 \in DOMAIN queue /\ queue'[i] = queue[i + 1] BY DEF Advances
  <2>2. i + 1 # 1 BY <2>1
  <2>3. QED BY <1>1, <1>2, <2>1, <2>2 DEF Wish
<1>4. \A n \in Pending(server'[s]) : n.kind = "plan" => n.on = ui'[s].plan
  BY <1>1 DEF NoNews, Wish
<1>5. ASSUME NEW j \in DOMAIN queue', Shown(queue'[j], s) PROVE ui'[s].plan
  <2>1. j \in Nat /\ j + 1 \in DOMAIN queue /\ Shown(queue[j + 1], s) BY <1>5 DEF Advances
  <2>2. ~(j + 1 < 1) BY <2>1
  <2>3. \A i \in DOMAIN queue : IsOf(queue[i], s, "plan") => i = 1 BY <1>1, <1>2 DEF Wish
  <2>4. QED BY <1>1, <2>1, <2>2, <2>3 DEF Wish
<1>6. QED BY <1>1, <1>3, <1>4, <1>5, NoPlanWishes

LEMMA PlanKeeps == ASSUME TypeOK, AllKeep, NEW s \in Sessions, PlanStarts(s) PROVE AllKeep'
<1> DEFINE on == Head(queue).order.on
           r == [id |-> handle[s].next, op |-> "settings", on |-> on]
<1>1. OnlyHead /\ Asks(s) /\ Chosen(s) /\ Wish(s) BY DEF AllKeep
<1>2. /\ queue # <<>> /\ 1 \in DOMAIN queue /\ queue[1].s = s /\ queue[1].order.op = "plan"
      /\ queue[1].at = "queued" /\ ~AtHead(s) /\ on = queue[1].order.on
      /\ IsOf(queue[1], s, "plan")
  BY <1>1, QueuedHead DEF PlanStarts, IsOf
<1>3. /\ handle \in [Sessions -> HandleType] /\ server \in [Sessions -> ServerType]
      /\ ui \in [Sessions -> UiType] /\ on \in BOOLEAN
  BY <1>2, HeadTypes, Types DEF PlanStarts, Takes
<1>4. Firm(s) => /\ on = ui[s].plan
                 /\ \A i \in DOMAIN queue : IsOf(queue[i], s, "plan") => i = 1
  BY <1>1, <1>2 DEF Wish
<1>5. r \in Requests /\ r.id = handle[s].next /\ r.op = "settings" /\ r.on = on
  BY <1>3 DEF Requests, HandleType
<1>6. \/ /\ handle[s].held
         /\ server' = [server EXCEPT ![s].todo = @ \cup {r}]
         /\ handle' = [handle EXCEPT ![s].plan = on, ![s].next = @ + 1]
         /\ queue' = [queue EXCEPT ![1].id = handle[s].next, ![1].at = "waiting"]
         /\ UNCHANGED ui
      \/ /\ handle[s].held
         /\ handle' = [handle EXCEPT ![s].plan = on, ![s].native = FALSE]
         /\ ui' = [ui EXCEPT ![s].plan = on]
         /\ Release /\ UNCHANGED server
      \/ /\ ~handle[s].held
         /\ ui' = [ui EXCEPT ![s].plan = ~on]
         /\ Release /\ UNCHANGED <<handle, server>>
  BY DEF PlanStarts, Reaches
<1> HIDE DEF r, on
<1>7. ASSUME NEW b, ui' = [ui EXCEPT ![s].plan = b]
      PROVE  /\ \A t \in Sessions \ {s} : ui'[t] = ui[t]
             /\ ui'[s].plan = b /\ ui'[s].lost = ui[s].lost
  <2>1. [ui[s] EXCEPT !.plan = b].plan = b /\ [ui[s] EXCEPT !.plan = b].lost = ui[s].lost
    BY <1>3 DEF UiType
  <2>2. QED BY <1>3, <1>7, <2>1
<1>8. CASE /\ handle[s].held
           /\ server' = [server EXCEPT ![s].todo = @ \cup {r}]
           /\ handle' = [handle EXCEPT ![s].plan = on, ![s].next = @ + 1]
           /\ queue' = [queue EXCEPT ![1].id = handle[s].next, ![1].at = "waiting"]
           /\ UNCHANGED ui
  <2> DEFINE v == [server[s] EXCEPT !.todo = @ \cup {r}]
             h == [handle[s] EXCEPT !.plan = on, !.next = @ + 1]
  <2>1. /\ v.todo = server[s].todo \cup {r} /\ v.plan = server[s].plan
        /\ v.lines = server[s].lines /\ v.tasks = server[s].tasks
    <3>1. server[s] \in ServerType BY <1>3
    <3>2. QED BY <3>1 DEF ServerType
  <2>2. /\ h.next = handle[s].next + 1 /\ h.native = handle[s].native
        /\ h.plan = on /\ h.held = handle[s].held
    <3>1. handle[s] \in HandleType BY <1>3
    <3>2. QED BY <3>1 DEF HandleType
  <2>3. server' = [server EXCEPT ![s] = v] /\ handle' = [handle EXCEPT ![s] = h] BY <1>8
  <2> HIDE DEF v, h
  <2>4. /\ server'[s] = v /\ handle'[s] = h
        /\ \A t \in Sessions \ {s} : handle'[t] = handle[t] /\ server'[t] = server[t]
    BY <1>3, <2>3
  <2>5. Awaiting(r.id) BY <1>2, <1>5, <1>8, AskAwaiting
  <2>6. Asks(s)' BY <1>1, <1>2, <1>5, <2>1, <2>2, <2>4, <2>5, AskAsks
  <2>7. LineFor(s) BY <1>2, <2>5 DEF LineFor
  <2>8. ASSUME handle'[s].held, ~ui'[s].lost PROVE Wishes(s)
    <3>1. Firm(s) /\ ui'[s] = ui[s] BY <1>8, <2>8 DEF Firm
    <3>2. h.plan = ui'[s].plan BY <1>4, <2>2, <3>1
    <3>3. Pending(v) = Pending(server[s]) BY <2>1 DEF Pending, Written
    <3>4. /\ IsOf(queue'[1], s, "plan") /\ ~Waits(queue'[1], s) /\ queue'[1].at = "waiting"
          /\ queue'[1].order.on = ui'[s].plan
      BY <1>2, <1>4, <2>5, <3>1 DEF Awaiting, IsOf, Waits
    <3>5. \A i \in DOMAIN queue' : i # 1 => i \in DOMAIN queue /\ queue'[i] = queue[i]
      BY <2>5 DEF Awaiting
    <3>6. \A i \in DOMAIN queue' : IsOf(queue'[i], s, "plan") => i = 1 BY <1>4, <3>1, <3>5
    <3>7. \A j \in DOMAIN queue' : j \in Nat /\ j > 0 /\ ~(j < 1)
      BY <2>5, Places DEF Awaiting
    <3>8. 1 \in DOMAIN queue' BY <2>5 DEF Awaiting
    <3>9. \A n \in Pending(v) : n.kind = "plan" => n.on = ui'[s].plan
      BY <1>1, <3>1, <3>3 DEF Wish
    <3>10. ASSUME NEW j \in DOMAIN queue', Shown(queue'[j], s) PROVE ui'[s].plan
      <4>1. j \in DOMAIN queue /\ Shown(queue[j], s) BY <3>4, <3>5, <3>10 DEF Shown
      <4>2. \A i \in DOMAIN queue : IsOf(queue[i], s, "plan") => ~(j < i)
        BY <1>4, <3>1, <3>7
      <4>3. QED BY <1>1, <3>1, <4>1, <4>2 DEF Wish
    <3>11. QED BY <2>4, <3>2, <3>4, <3>6, <3>7, <3>8, <3>9, <3>10 DEF Wishes
  <2>9. Wish(s)' BY <2>8, WishNext
  <2>10. Chosen(s)' BY <1>1, <1>8, <2>5, ChosenOn
  <2>11. QED BY <1>8, <2>4, <2>6, <2>7, <2>9, <2>10, StepKeeps
<1>9. ASSUME Release, UNCHANGED server,
             \A t \in Sessions \ {s} : handle'[t] = handle[t] /\ ui'[t] = ui[t],
             handle'[s].next = handle[s].next, handle'[s].native => handle[s].native,
             ui'[s].lost = ui[s].lost, Wish(s)'
      PROVE  AllKeep'
  <2>1. Advances BY <1>2, <1>9, ReleaseAdvances
  <2>2. HeadSame(s) /\ LineFor(s) BY <1>1, <1>2, <2>1, AdvancesLine DEF LineFor
  <2>3. Asks(s)' BY <1>1, <1>9, <2>2, AsksSame
  <2>4. Chosen(s)' BY <1>1, <1>9, <2>1, ChosenOn
  <2>5. QED BY <1>9, <2>2, <2>3, <2>4, StepKeeps
<1>10. CASE /\ handle[s].held
            /\ handle' = [handle EXCEPT ![s].plan = on, ![s].native = FALSE]
            /\ ui' = [ui EXCEPT ![s].plan = on]
            /\ Release /\ UNCHANGED server
  <2> DEFINE h == [handle[s] EXCEPT !.plan = on, !.native = FALSE]
  <2>1. /\ h.next = handle[s].next /\ h.native = FALSE
        /\ h.plan = on /\ h.held = handle[s].held
    <3>1. handle[s] \in HandleType BY <1>3
    <3>2. QED BY <3>1 DEF HandleType
  <2>2. handle' = [handle EXCEPT ![s] = h] BY <1>10
  <2> HIDE DEF h
  <2>3. handle'[s] = h /\ \A t \in Sessions \ {s} : handle'[t] = handle[t] BY <1>3, <2>2
  <2>4. Advances BY <1>2, <1>10, ReleaseAdvances
  <2>5. ASSUME Firm(s)'
        PROVE  /\ Firm(s) /\ ui'[s].plan = ui[s].plan /\ handle'[s].plan = ui[s].plan
               /\ NoNews(s)
    <3>1. Firm(s) BY <1>7, <1>10, <2>1, <2>3, <2>5 DEF Firm
    <3>2. QED BY <1>4, <1>7, <1>10, <2>1, <2>3, <3>1 DEF NoNews
  <2>6. Wish(s)' BY <1>1, <1>2, <2>4, <2>5, PlanDone
  <2>7. QED BY <1>7, <1>9, <1>10, <2>1, <2>3, <2>6
<1>11. CASE /\ ~handle[s].held
            /\ ui' = [ui EXCEPT ![s].plan = ~on]
            /\ Release /\ UNCHANGED <<handle, server>>
  <2>1. Wish(s)' BY <1>11, WishNext
  <2>2. QED BY <1>7, <1>9, <1>11, <2>1
<1>12. QED BY <1>6, <1>8, <1>10, <1>11

-----------------------------------------------------------------------------
(* What the app-server answers *)

LEMMA AnswerAsks ==
  ASSUME TypeOK, NEW s \in Sessions, Asks(s), NEW r \in server[s].todo, NEW ok \in BOOLEAN,
         UNCHANGED <<queue, handle>>, server'[s].todo = server[s].todo \ {r},
         \A n \in Written(server'[s]) : n.kind = "reply" =>
           n \in Written(server[s]) \/ n = Reply(r, ok),
         r.op = "settings" /\ ok => server'[s].plan = r.on,
         ~(r.op = "settings" /\ ok) => server'[s].plan = server[s].plan
  PROVE  Asks(s)'
<1>1. Ids(s) /\ Asked(s) /\ HeadId(s) /\ Told(s) /\ Native(s) /\ Kept(s) BY DEF Asks
<1>2. Reply(r, ok).id = r.id /\ Reply(r, ok).ok = ok BY DEF Reply
<1>3. r.op = "settings" => /\ AtHead(s) /\ queue[1].id = r.id /\ queue[1].order.op = "plan"
                           /\ queue[1].order.on = r.on
  BY <1>1 DEF Asked
<1>4. Ids(s)'
  <2>1. \A q \in server'[s].todo : q.id < handle'[s].next BY <1>1 DEF Ids
  <2>2. \A p, q \in server'[s].todo : p.id = q.id => p = q BY <1>1 DEF Ids
  <2>3. \A n \in Written(server'[s]) : n.kind = "reply" =>
          n.id < handle'[s].next /\ \A q \in server'[s].todo : q.id # n.id
    BY <1>1, <1>2 DEF Ids
  <2>4. QED BY <2>1, <2>2, <2>3 DEF Ids, Written
<1>5. Asked(s)' BY <1>1 DEF Asked, AtHead
<1>6. HeadId(s)' BY <1>1 DEF HeadId, AtHead
<1>7. Told(s)'
  <2> SUFFICES ASSUME AtHead(s), queue[1].order.op = "plan", NEW n \in Written(server'[s]),
                      n.kind = "reply", n.id = queue[1].id, n.ok
               PROVE  server'[s].plan = queue[1].order.on
    BY DEF Told, Written, AtHead
  <2>1. CASE n \in Written(server[s])
    <3>1. server[s].plan = queue[1].order.on BY <1>1, <2>1 DEF Told
    <3>2. n.id # r.id BY <1>1, <2>1 DEF Ids
    <3>3. r.op # "settings" BY <1>3, <3>2
    <3>4. QED BY <3>1, <3>3
  <2>2. CASE n = Reply(r, ok)
    <3>1. ok /\ r.id = queue[1].id BY <1>2, <2>2
    <3>2. r.op = "settings" BY <1>1, <3>1 DEF HeadId
    <3>3. QED BY <1>3, <3>1, <3>2
  <2>3. QED BY <2>1, <2>2
<1>8. Native(s)'
  <2>1. CASE r.op = "settings" BY <1>3, <2>1 DEF Native, AtHead
  <2>2. CASE r.op # "settings" BY <1>1, <2>2 DEF Native, AtHead
  <2>3. QED BY <2>1, <2>2
<1>9. Kept(s)'
  <2> SUFFICES ASSUME NEW q \in server[s].todo, q.op = "turn", q.shown
               PROVE  q.readOnly /\ (q.preamble \/ server'[s].plan)
    BY DEF Kept
  <2>1. q.readOnly /\ (q.preamble \/ server[s].plan) BY <1>1 DEF Kept
  <2>2. queue[1].order.op = "send" BY <1>1 DEF Asked
  <2>3. r.op # "settings" BY <1>3, <2>2
  <2>4. QED BY <2>1, <2>3
<1>10. QED BY <1>4, <1>5, <1>6, <1>7, <1>8, <1>9 DEF Asks

LEMMA AnswerKeeps == ASSUME TypeOK, AllKeep, NEW s \in Sessions, Answer(s) PROVE AllKeep'
<1> DEFINE w == server[s]
<1>1. PICK r \in server[s].todo, ok \in BOOLEAN :
        LET lacks == [server[s] EXCEPT !.todo = @ \ {r}]
             does ==
               CASE r.op = "turn" ->
                      [lacks EXCEPT !.turns = Append(@, r.turn), !.lines = Append(@, Reply(r, TRUE))]
                 [] r.op = "interrupt" ->
                      [lacks EXCEPT !.running = 0,
                                    !.lines = @ \o <<Reply(r, TRUE),
                                                    [kind |-> "completed", turn |-> r.turn]>>]
                 [] r.op = "settings" ->
                      [lacks EXCEPT !.plan = r.on,
                                    !.lines = @ \o <<[kind |-> "plan", on |-> r.on],
                                                     Reply(r, TRUE)>>]
        IN server' = [server EXCEPT ![s] =
                            IF ok THEN does
                                  ELSE [lacks EXCEPT !.lines = Append(@, Reply(r, FALSE))]]
  BY DEF Answer
<1> DEFINE lacks == [w EXCEPT !.todo = @ \ {r}]
<1>2. /\ w \in ServerType /\ w.lines \in Seq(Notes \cup Replies)
      /\ r \in Requests /\ r \in w.todo
  BY Types DEF ServerType
<1>3. /\ lacks.todo = w.todo \ {r} /\ lacks.plan = w.plan
      /\ lacks.lines = w.lines /\ lacks.tasks = w.tasks /\ lacks \in ServerType
  BY <1>2 DEF ServerType
<1>4. r.id \in Nat /\ r.op \in {"turn", "interrupt", "settings"}
      /\ (r.op \in {"turn", "interrupt"} => r.turn \in Turns)
      /\ (r.op = "settings" => r.on \in BOOLEAN)
  BY <1>2 DEF Requests
<1>5. \A yes \in BOOLEAN : Reply(r, yes) \in Notes \cup Replies /\ Reply(r, yes).kind = "reply"
  BY <1>4 DEF Reply, Replies
<1>6. UNCHANGED <<ui, queue, handle>> BY DEF Answer
<1>7. Asks(s) /\ Chosen(s) /\ Wish(s) BY DEF AllKeep
<1>8. LineFor(s) /\ PlanSame(s) BY <1>6, StillLine
<1>9. ASSUME NEW v, server' = [server EXCEPT ![s] = v], v.todo = w.todo \ {r},
             v.tasks = w.tasks, v.plan = w.plan, ~(r.op = "settings" /\ ok),
             \A n \in Written(v) : n.kind \in {"reply", "plan"} =>
               n \in Written(w) \/ n = Reply(r, ok)
      PROVE  AllKeep'
  <2>1. server'[s] = v /\ \A t \in Sessions \ {s} : server'[t] = server[t] BY <1>9, Types
  <2>2. Asks(s)' BY <1>6, <1>7, <1>9, <2>1, AnswerAsks
  <2>3. NoNews(s) BY <1>5, <1>9, <2>1 DEF NoNews, Pending
  <2>4. Firm(s)' => Firm(s) BY <1>6 DEF Firm
  <2>5. Chosen(s)' /\ Wish(s)' BY <1>6, <1>7, <1>8, <2>3, <2>4, WishSame
  <2>6. QED BY <1>6, <1>8, <2>1, <2>2, <2>5, StepKeeps
<1>10. CASE ~ok
  <2> DEFINE n == Reply(r, FALSE)
             v == [lacks EXCEPT !.lines = Append(@, n)]
  <2>1. server' = [server EXCEPT ![s] = v] /\ n = Reply(r, ok) BY <1>1, <1>10
  <2>2. n \in Notes \cup Replies BY <1>5
  <2> HIDE DEF n, lacks, w
  <2>3. /\ v.plan = w.plan /\ v.lines = Append(w.lines, n)
        /\ v.todo = w.todo \ {r} /\ v.tasks = w.tasks
    BY <1>3 DEF ServerType
  <2> HIDE DEF v
  <2>4. Written(v) \subseteq Written(w) \cup {n} BY <1>2, <2>2, <2>3, WrittenMore DEF Written
  <2>5. QED BY <1>9, <1>10, <2>1, <2>3, <2>4
<1>11. CASE ok /\ r.op = "turn"
  <2> DEFINE n == Reply(r, TRUE)
             v == [lacks EXCEPT !.turns = Append(@, r.turn), !.lines = Append(@, n)]
  <2>1. server' = [server EXCEPT ![s] = v] /\ n = Reply(r, ok) BY <1>1, <1>11
  <2>2. n \in Notes \cup Replies BY <1>5
  <2> HIDE DEF n, lacks, w
  <2>3. /\ v.plan = w.plan /\ v.lines = Append(w.lines, n)
        /\ v.todo = w.todo \ {r} /\ v.tasks = w.tasks
    BY <1>3 DEF ServerType
  <2> HIDE DEF v
  <2>4. Written(v) \subseteq Written(w) \cup {n} BY <1>2, <2>2, <2>3, WrittenMore DEF Written
  <2>5. QED BY <1>9, <1>11, <2>1, <2>3, <2>4
<1>12. CASE ok /\ r.op = "interrupt"
  <2> DEFINE n == Reply(r, TRUE)
             m == [kind |-> "completed", turn |-> r.turn]
             v == [lacks EXCEPT !.running = 0, !.lines = @ \o <<n, m>>]
  <2>1. server' = [server EXCEPT ![s] = v] /\ n = Reply(r, ok) BY <1>1, <1>12
  <2>2. n \in Notes \cup Replies BY <1>5
  <2>3. m \in Notes \cup Replies /\ m.kind = "completed" BY <1>4, <1>12 DEF Notes
  <2> HIDE DEF n, m, lacks, w
  <2>4. /\ v.plan = w.plan /\ v.lines = w.lines \o <<n, m>>
        /\ v.todo = w.todo \ {r} /\ v.tasks = w.tasks
    BY <1>3 DEF ServerType
  <2> HIDE DEF v
  <2>5. Written(v) \subseteq Written(w) \cup {n, m}
    BY <1>2, <2>2, <2>3, <2>4, WrittenTwo DEF Written
  <2>6. QED BY <1>9, <1>12, <2>1, <2>3, <2>4, <2>5
<1>13. CASE ok /\ r.op = "settings"
  <2> DEFINE n == Reply(r, TRUE)
             m == [kind |-> "plan", on |-> r.on]
             v == [lacks EXCEPT !.plan = r.on, !.lines = @ \o <<m, n>>]
  <2>1. server' = [server EXCEPT ![s] = v] /\ n = Reply(r, ok) BY <1>1, <1>13
  <2>2. n \in Notes \cup Replies /\ n.kind = "reply" BY <1>5
  <2>3. m \in Notes \cup Replies /\ m.kind = "plan" /\ m.on = r.on BY <1>4, <1>13 DEF Notes
  <2> HIDE DEF n, m, lacks, w
  <2>4. /\ v.plan = r.on /\ v.lines = w.lines \o <<m, n>>
        /\ v.todo = w.todo \ {r} /\ v.tasks = w.tasks
    BY <1>3 DEF ServerType
  <2> HIDE DEF v
  <2>5. Written(v) \subseteq Written(w) \cup {m, n}
    BY <1>2, <2>2, <2>3, <2>4, WrittenTwo DEF Written
  <2>6. server'[s] = v /\ \A t \in Sessions \ {s} : server'[t] = server[t] BY <2>1, Types
  <2>7. Asks(s)'
    <3>1. \A x \in Written(v) : x.kind = "reply" => x \in Written(w) \/ x = Reply(r, ok)
      BY <2>1, <2>3, <2>5
    <3>2. QED BY <1>6, <1>7, <1>13, <2>4, <2>6, <3>1, AnswerAsks DEF w
  <2>8. /\ 1 \in DOMAIN queue /\ IsOf(queue[1], s, "plan") /\ queue[1].at = "waiting"
        /\ queue[1].order.on = r.on
    BY <1>7, <1>13, <1>2 DEF Asks, Asked, AtHead, IsOf, w
  <2>9. ASSUME handle'[s].held, ~ui'[s].lost PROVE Wishes(s)
    <3>1. Firm(s) BY <1>6, <2>9 DEF Firm
    <3>2. r.on = ui[s].plan /\ \A i \in DOMAIN queue : IsOf(queue[i], s, "plan") => i = 1
      BY <1>7, <2>8, <3>1 DEF Wish
    <3>3. \A x \in Pending(v) : x.kind = "plan" => x \in Pending(w) \/ x = m
      BY <2>2, <2>4, <2>5 DEF Pending
    <3>4. \A x \in Pending(v) : x.kind = "plan" => x.on = ui[s].plan
      BY <1>7, <2>3, <3>1, <3>2, <3>3 DEF Wish, w
    <3>5. \A i \in DOMAIN queue : IsOf(queue[i], s, "plan") =>
            /\ queue[i].order.on = ui[s].plan
            /\ queue[i].at = "queued" => FALSE
            /\ queue[i].at = "waiting" => handle[s].plan = ui[s].plan
            /\ \A j \in DOMAIN queue : Shown(queue[j], s) /\ j < i => handle[s].plan
            /\ \A j \in DOMAIN queue : IsOf(queue[j], s, "plan") => i = j
      BY <1>7, <2>8, <3>1, <3>2 DEF Wish
    <3>6. \A j \in DOMAIN queue : Shown(queue[j], s) =>
            \/ ui[s].plan
            \/ \E i \in DOMAIN queue : IsOf(queue[i], s, "plan") /\ j < i
      BY <1>7, <3>1 DEF Wish
    <3>7. QED BY <1>6, <2>6, <2>8, <3>4, <3>5, <3>6 DEF Wishes
  <2>10. Wish(s)' BY <2>9, WishNext
  <2>11. Chosen(s)' BY <1>6, <1>7, ChosenOn
  <2>12. QED BY <1>6, <1>8, <2>6, <2>7, <2>10, <2>11, StepKeeps
<1>14. QED BY <1>4, <1>10, <1>11, <1>12, <1>13

-----------------------------------------------------------------------------
(* What is read, and what is made of the notifications *)

\* The holder of the lock has its answer.
LEMMA ResumeKeeps ==
  ASSUME TypeOK, AllKeep, NEW s \in Sessions, NEW line, line \in Written(server[s]),
         line.kind = "reply", Awaits(s, line.id), Resume(s, line.ok),
         NEW v, server' = [server EXCEPT ![s] = v], v.todo = server[s].todo,
         v.plan = server[s].plan, Written(v) \subseteq Written(server[s]),
         v.tasks = server[s].tasks
  PROVE  AllKeep'
<1> DEFINE w == server[s]
           on == queue[1].order.on
<1>1. /\ queue # <<>> /\ 1 \in DOMAIN queue /\ Head(queue) = queue[1]
      /\ AtHead(s) /\ queue[1].s = s /\ queue[1].at = "waiting" /\ queue[1].id = line.id
  BY HeadFacts DEF Awaits, AtHead
<1>2. OnlyHead /\ Asks(s) /\ Chosen(s) /\ Wish(s) BY DEF AllKeep
<1>3. Advances BY <1>1, ReleaseAdvances DEF Resume
<1>4. ~AtHead(s)' /\ LineFor(s) BY <1>1, <1>2, <1>3, AdvancesLine DEF LineFor
<1>5. /\ handle \in [Sessions -> HandleType] /\ ui \in [Sessions -> UiType]
      /\ server \in [Sessions -> ServerType]
  BY Types
<1>6. server'[s] = v /\ \A t \in Sessions \ {s} : server'[t] = server[t] BY <1>5
<1>7. \A r \in w.todo : r.op = "interrupt"
  <2>1. \A r \in w.todo : r.id # line.id BY <1>2 DEF Asks, Ids
  <2>2. QED BY <1>1, <1>2, <2>1 DEF Asks, Asked
<1>8. \/ /\ queue[1].order.op = "plan"
         /\ handle' = [handle EXCEPT ![s].native = on /\ line.ok]
         /\ ui' = [ui EXCEPT ![s].plan = on]
      \/ queue[1].order.op # "plan" /\ UNCHANGED <<handle, ui>>
  BY <1>1 DEF Resume
<1> DEFINE h == [handle[s] EXCEPT !.native = on /\ line.ok]
           u == [ui[s] EXCEPT !.plan = on]
<1>9. /\ h.next = handle[s].next /\ h.native = (on /\ line.ok)
      /\ h.plan = handle[s].plan /\ h.held = handle[s].held
  <2>1. handle[s] \in HandleType BY <1>5
  <2> HIDE DEF on
  <2>2. QED BY <2>1 DEF HandleType
<1>10. u.plan = on /\ u.lost = ui[s].lost
  <2>1. ui[s] \in UiType BY <1>5
  <2> HIDE DEF on
  <2>2. QED BY <2>1 DEF UiType
<1>11. NoNews(s) BY <1>6 DEF NoNews, Pending
<1>12. ASSUME \A t \in Sessions \ {s} : handle'[t] = handle[t] /\ ui'[t] = ui[t],
              handle'[s].next = handle[s].next, handle'[s].native => server[s].plan,
              ui'[s].lost = ui[s].lost, Wish(s)'
       PROVE  AllKeep'
  <2>1. Ids(s)' BY <1>2, <1>6, <1>12, IdsSame DEF Asks
  <2>2. Asks(s)' BY <1>4, <1>6, <1>7, <1>12, <2>1, AsksFree
  <2>3. Chosen(s)' BY <1>2, <1>3, <1>12, ChosenOn
  <2>4. QED BY <1>4, <1>6, <1>12, <2>2, <2>3, StepKeeps
<1>13. CASE /\ queue[1].order.op = "plan"
            /\ handle' = [handle EXCEPT ![s].native = on /\ line.ok]
            /\ ui' = [ui EXCEPT ![s].plan = on]
  <2>1. handle' = [handle EXCEPT ![s] = h] /\ ui' = [ui EXCEPT ![s] = u] BY <1>13
  <2> HIDE DEF h, u, on
  <2>2. /\ handle'[s] = h /\ ui'[s] = u
        /\ \A t \in Sessions \ {s} : handle'[t] = handle[t] /\ ui'[t] = ui[t]
    BY <1>5, <2>1
  <2>3. handle'[s].native => server[s].plan
    BY <1>1, <1>2, <1>9, <1>13, <2>2 DEF Asks, Told, on
  <2>4. IsOf(queue[1], s, "plan") BY <1>1, <1>13 DEF IsOf
  <2>5. ASSUME Firm(s)'
        PROVE  /\ Firm(s) /\ ui'[s].plan = ui[s].plan /\ handle'[s].plan = ui[s].plan
               /\ NoNews(s)
    <3>1. Firm(s) BY <1>9, <1>10, <2>2, <2>5 DEF Firm
    <3>2. on = ui[s].plan /\ handle[s].plan = ui[s].plan
      BY <1>1, <1>2, <2>4, <3>1 DEF Wish, on
    <3>3. QED BY <1>9, <1>10, <1>11, <2>2, <3>1, <3>2
  <2>6. Wish(s)' BY <1>2, <1>3, <2>4, <2>5, PlanDone
  <2>7. QED BY <1>9, <1>10, <1>12, <2>2, <2>3, <2>6
<1>14. CASE queue[1].order.op # "plan" /\ UNCHANGED <<handle, ui>>
  <2>1. handle[s].native => server[s].plan BY <1>2, <1>14 DEF Asks, Native
  <2>2. ~IsOf(queue[1], s, "plan") BY <1>14 DEF IsOf
  <2>3. PlanSame(s) BY <1>2, <1>3, <2>2, AdvancesLine
  <2>4. Firm(s)' => Firm(s) BY <1>14 DEF Firm
  <2>5. Wish(s)' BY <1>2, <1>11, <1>14, <2>3, <2>4, WishSame
  <2>6. QED BY <1>12, <1>14, <2>1, <2>5
<1>15. QED BY <1>8, <1>13, <1>14

LEMMA ReadKeeps == ASSUME TypeOK, AllKeep, NEW s \in Sessions, Read(s) PROVE AllKeep'
<1> DEFINE w == server[s]
           line == Head(w.lines)
           rest == [w EXCEPT !.lines = Tail(@)]
<1>1. w \in ServerType /\ w.lines \in Seq(Notes \cup Replies) /\ w.lines # <<>>
  BY Types DEF ServerType, Read
<1>2. line = w.lines[1] /\ 1 \in DOMAIN w.lines BY <1>1
<1>3. \A k \in DOMAIN Tail(w.lines) : k + 1 \in DOMAIN w.lines /\ Tail(w.lines)[k] = w.lines[k + 1]
  BY <1>1
<1>4. /\ rest.plan = w.plan /\ rest.lines = Tail(w.lines)
      /\ rest.todo = w.todo /\ rest.tasks = w.tasks
      /\ \A T : [rest EXCEPT !.tasks = T].plan = w.plan
      /\ \A T : [rest EXCEPT !.tasks = T].lines = Tail(w.lines)
      /\ \A T : [rest EXCEPT !.tasks = T].todo = w.todo
      /\ \A T : [rest EXCEPT !.tasks = T].tasks = T
  BY <1>1 DEF ServerType
<1>5. line \in Written(w) BY <1>2 DEF Written
<1>6. \A v : v.lines = Tail(w.lines) => Written(v) \subseteq Written(w) BY <1>3 DEF Written
<1>7. CASE line.kind = "reply"
  <2>1. server' = [server EXCEPT ![s] = rest] BY <1>7 DEF Read
  <2>2. CASE Awaits(s, line.id)
    <3>1. Resume(s, line.ok) BY <1>7, <2>2 DEF Read
    <3> HIDE DEF rest, line
    <3>2. Written(rest) \subseteq Written(w) BY <1>4, <1>6
    <3>3. QED BY <1>4, <1>5, <1>7, <2>1, <2>2, <3>1, <3>2, ResumeKeeps
  <2>3. CASE ~Awaits(s, line.id)
    <3>1. UNCHANGED <<ui, queue, handle>> BY <1>7, <2>3 DEF Read
    <3> HIDE DEF rest, line
    <3>2. Written(rest) \subseteq Written(w) BY <1>4, <1>6
    <3>3. \A n \in rest.tasks : n \in Pending(w) BY <1>4 DEF Pending
    <3>4. QED BY <1>4, <2>1, <3>1, <3>2, <3>3, StillHere, StillLine, ServerKeeps
  <2>4. QED BY <2>2, <2>3
<1>8. CASE line.kind # "reply"
  <2> DEFINE v == [rest EXCEPT !.tasks = @ \cup {line}]
  <2>1. server' = [server EXCEPT ![s] = v] /\ UNCHANGED <<ui, queue, handle>>
    BY <1>8 DEF Read
  <2> HIDE DEF rest
  <2>2. /\ v.plan = w.plan /\ v.lines = Tail(w.lines)
        /\ v.todo = w.todo /\ v.tasks = w.tasks \cup {line}
    BY <1>4
  <2> HIDE DEF v, line
  <2>3. Written(v) \subseteq Written(w) BY <1>6, <2>2
  <2>4. \A n \in v.tasks : n \in Pending(w) BY <1>5, <2>2 DEF Pending
  <2>5. QED BY <2>1, <2>2, <2>3, <2>4, StillHere, StillLine, ServerKeeps
<1>9. QED BY <1>7, <1>8

\* News of the mode tells what the chat shows already.
LEMMA HandleKeeps == ASSUME TypeOK, AllKeep, NEW s \in Sessions, Handle(s) PROVE AllKeep'
<1> DEFINE w == server[s]
<1>1. PICK note \in server[s].tasks :
         /\ server' = [server EXCEPT ![s].tasks = @ \ {note}]
         /\ handle' = [handle EXCEPT ![s].known = CASE note.kind = "started" -> note.turn
                                                   [] note.kind = "completed" -> 0
                                                   [] OTHER -> @]
         /\ ui' = [ui EXCEPT ![s] = CASE note.kind = "completed" -> Unbusy(@)
                                      [] note.kind = "delta" -> [@ EXCEPT !.busy = TRUE]
                                      [] note.kind = "error" -> [Unbusy(@) EXCEPT !.erred = TRUE]
                                      [] note.kind = "plan" -> [@ EXCEPT !.plan = note.on]
                                      [] OTHER -> @]
  BY DEF Handle
<1> DEFINE v == [w EXCEPT !.tasks = @ \ {note}]
<1>2. server' = [server EXCEPT ![s] = v] /\ UNCHANGED queue BY <1>1 DEF Handle
<1>3. /\ v.plan = w.plan /\ v.lines = w.lines
      /\ v.todo = w.todo /\ v.tasks = w.tasks \ {note} /\ note \in w.tasks
  <2>1. w \in ServerType BY Types
  <2>2. QED BY <2>1 DEF ServerType
<1>4. /\ handle \in [Sessions -> HandleType] /\ ui \in [Sessions -> UiType]
      /\ ui[s] \in UiType
  BY Types
<1>5. SameHandle(s)
  <2>1. PICK b : handle' = [handle EXCEPT ![s].known = b] BY <1>1
  <2> DEFINE h == [handle[s] EXCEPT !.known = b]
  <2>2. /\ h.next = handle[s].next /\ h.plan = handle[s].plan /\ h.native = handle[s].native
        /\ h.held = handle[s].held
    <3>1. handle[s] \in HandleType BY <1>4
    <3>2. QED BY <3>1 DEF HandleType
  <2>3. handle' = [handle EXCEPT ![s] = h] BY <2>1
  <2> HIDE DEF h
  <2>4. QED BY <1>4, <2>2, <2>3 DEF SameHandle
<1>6. LineFor(s) /\ HeadSame(s) /\ PlanSame(s) BY <1>2, StillLine
<1> HIDE DEF v, w
<1>7. Written(v) = Written(w) /\ \A n \in v.tasks : n \in Pending(w)
  BY <1>3 DEF Written, Pending
<1>8. CASE note.kind # "plan"
  <2>1. \/ ui' = [ui EXCEPT ![s] = [ui[s] EXCEPT !.busy = TRUE]]
        \/ ui' = [ui EXCEPT ![s] = Unbusy(ui[s])]
        \/ ui' = [ui EXCEPT ![s] = [Unbusy(ui[s]) EXCEPT !.erred = TRUE]]
        \/ ui' = [ui EXCEPT ![s] = ui[s]]
    BY <1>1, <1>8
  <2>2. /\ [ui[s] EXCEPT !.busy = TRUE].plan = ui[s].plan
        /\ [ui[s] EXCEPT !.busy = TRUE].lost = ui[s].lost
    BY <1>4 DEF UiType
  <2>3. Unbusy(ui[s]).plan = ui[s].plan /\ Unbusy(ui[s]).lost = ui[s].lost
    BY <1>4, UnbusyStops
  <2>4. /\ [Unbusy(ui[s]) EXCEPT !.erred = TRUE].plan = ui[s].plan
        /\ [Unbusy(ui[s]) EXCEPT !.erred = TRUE].lost = ui[s].lost
    BY <1>4 DEF Unbusy, UiType
  <2>5. SameUi(s) BY <1>4, <2>1, <2>2, <2>3, <2>4 DEF SameUi
  <2>6. QED BY <1>2, <1>3, <1>5, <1>6, <1>7, <2>5, ServerKeeps DEF w
<1>9. CASE note.kind = "plan"
  <2> DEFINE u == [ui[s] EXCEPT !.plan = note.on]
  <2>1. ui' = [ui EXCEPT ![s] = u] BY <1>1, <1>9
  <2>2. u.plan = note.on /\ u.lost = ui[s].lost BY <1>4 DEF UiType
  <2> HIDE DEF u
  <2>3. ui'[s] = u /\ \A t \in Sessions \ {s} : ui'[t] = ui[t] BY <1>4, <2>1
  <2>4. server'[s] = v /\ \A t \in Sessions \ {s} : server'[t] = server[t] BY <1>2, Types
  <2>5. Asks(s) /\ Chosen(s) /\ Wish(s) BY DEF AllKeep
  <2>6. Asks(s)' BY <1>3, <1>5, <1>6, <1>7, <2>4, <2>5, AsksSame DEF SameHandle, w
  <2>7. NoNews(s) BY <1>7, <2>4 DEF NoNews, Pending, w
  <2>8. note \in Pending(server[s]) BY <1>3 DEF Pending, w
  <2>9. ASSUME Firm(s)'
        PROVE  /\ Firm(s) /\ ui'[s].plan = ui[s].plan
               /\ handle'[s].plan = handle[s].plan /\ NoNews(s)
    <3>1. Firm(s) BY <1>5, <2>2, <2>3, <2>9 DEF Firm, SameHandle
    <3>2. note.on = ui[s].plan BY <1>9, <2>5, <2>8, <3>1 DEF Wish
    <3>3. QED BY <1>5, <2>2, <2>3, <2>7, <3>1, <3>2 DEF SameHandle
  <2>10. Chosen(s)' /\ Wish(s)' BY <1>6, <2>2, <2>3, <2>5, <2>9, WishSame
  <2>11. QED BY <1>5, <1>6, <2>3, <2>4, <2>6, <2>10, StepKeeps DEF SameHandle
<1>10. QED BY <1>8, <1>9

-----------------------------------------------------------------------------

LEMMA InitKeeps == Init => AllKeep
<1> SUFFICES ASSUME Init PROVE AllKeep OBVIOUS
<1>1. queue = <<>> /\ \A t \in Sessions : server[t] = NewServer /\ handle[t] = NewHandle
      /\ ~ui[t].plan /\ ui[t].plan \in BOOLEAN
  BY DEF Init
<1>2. DOMAIN queue = {} BY <1>1
<1>3. /\ NewServer.todo = {} /\ NewServer.lines = <<>> /\ NewServer.tasks = {}
      /\ ~NewHandle.native /\ NewHandle.plan = FALSE
  BY DEF NewServer, NewHandle
<1>4. ASSUME NEW t \in Sessions PROVE Asks(t) /\ Chosen(t) /\ Wish(t)
  <2>1. Written(server[t]) = {} /\ Pending(server[t]) = {} BY <1>1, <1>3 DEF Written, Pending
  <2>2. Ids(t) /\ Asked(t) /\ HeadId(t) /\ Told(t) /\ Native(t) /\ Kept(t)
    BY <1>1, <1>3, <2>1 DEF Ids, Asked, HeadId, Told, Native, Kept
  <2>3. Chosen(t) /\ Wish(t) BY <1>1, <1>2, <1>3, <2>1 DEF Chosen, Wish
  <2>4. QED BY <2>2, <2>3 DEF Asks
<1>5. OnlyHead BY <1>2 DEF OnlyHead
<1>6. QED BY <1>4, <1>5 DEF AllKeep

LEMMA NextKeeps ==
  ASSUME "hasty" \notin Acts, TypeOK, AllTell, AllKeep, [Next]_vars PROVE AllKeep'
<1>1. CASE UNCHANGED vars
  <2>1. UNCHANGED <<queue, handle, server, ui>> BY <1>1 DEF vars
  <2>2. OnlyHead' BY <2>1 DEF AllKeep, OnlyHead
  <2>3. ASSUME NEW t \in Sessions PROVE Asks(t)' /\ Chosen(t)' /\ Wish(t)'
    <3>1. Asks(t) /\ Chosen(t) /\ Wish(t) /\ HeadSame(t) /\ PlanSame(t) BY <2>1, IdleLine DEF AllKeep
    <3>2. Firm(t)' => Firm(t) BY <2>1 DEF Firm
    <3>3. NoNews(t) BY <2>1 DEF NoNews
    <3>4. Chosen(t)' /\ Wish(t)' BY <2>1, <3>1, <3>2, <3>3, WishSame
    <3>5. QED BY <2>1, <3>1, <3>4, AsksSame
  <2>4. QED BY <2>2, <2>3 DEF AllKeep
<1>2. ASSUME NEW s \in Sessions, User(s) \/ TimerFires(s) PROVE AllKeep'
  BY <1>2, SendKeeps, ChatKeeps, ToggleKeeps DEF User, StopAgain, TimerFires
<1>3. ASSUME NEW s \in Sessions, Command(s) PROVE AllKeep'
  BY <1>3, SendStartsKeeps, InterruptKeeps, PlanKeeps, AckKeeps, PauseKeeps, InsertKeeps
     DEF Command
<1>4. ASSUME NEW s \in Sessions, Forcing(s) PROVE AllKeep'
  BY <1>4, FailureKeeps, ChatKeeps DEF Forcing
<1>5. ASSUME NEW s \in Sessions, AppServer(s) \/ WriterFails(s) PROVE AllKeep'
  BY <1>5, WorksKeeps, FailureKeeps DEF AppServer
<1>6. ASSUME NEW s \in Sessions, Answer(s) \/ Read(s) \/ Handle(s) PROVE AllKeep'
  BY <1>6, AnswerKeeps, ReadKeeps, HandleKeeps
<1>7. QED BY <1>1, <1>2, <1>3, <1>4, <1>5, <1>6 DEF Next

\* A message sent while the chat shows plan mode goes out read-only, and with
\* Codex's plan mode on or the preamble in front, if the user does not write or
\* change the mode while a forced stop or the news of the last change is under
\* way: for any number of sessions, messages, changes, stops and failures.
THEOREM PlanModeIsKept ==
  ASSUME "hasty" \notin Acts PROVE Spec => []PlanIsKept
<1>1. AllKeep => PlanIsKept BY DEF AllKeep, Asks, Kept, PlanIsKept
<1>2. Init => TypeOK /\ AllTell /\ AllKeep BY InitTypes, InitTells, InitKeeps
<1>3. TypeOK /\ AllTell /\ AllKeep /\ [Next]_vars => TypeOK' /\ AllTell' /\ AllKeep'
  BY NextTypes, NextTells, NextKeeps
<1>4. QED BY <1>1, <1>2, <1>3, PTL DEF Spec

=============================================================================
