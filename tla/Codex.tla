------------------------------- MODULE Codex -------------------------------
(***************************************************************************)
(* Codex sessions: the app-server of each, the JSON-RPC client and the     *)
(* handle that talk to it, the one lock that all commands share            *)
(* (src-tauri/src/agents/codex, commands/session.rs), and the escalating   *)
(* Stop of the chat (src/hooks/useStopSession.ts).                         *)
(*                                                                         *)
(* A command holds the map of processes locked while it awaits the         *)
(* app-server.  Tokio's mutex is first come, first served: `queue' is that *)
(* line, its head holds the lock.  Each notification is handled by a task  *)
(* of its own, so they take effect in any order.                           *)
(***************************************************************************)
EXTENDS Naturals, Sequences, FiniteSets

CONSTANTS
    Sessions,   \* the Codex sessions that are open
    Acts,       \* what the user does besides sending and stopping
    Faults,     \* what may go wrong with an app-server
    MaxSends,   \* bound: messages per session
    MaxClicks   \* bound: clicks on Stop and on Plan

ASSUME CodexAssumption ==
    /\ Acts \subseteq {"plan", "hasty"}
    /\ Faults \subseteq {"wedge", "exit", "spawn", "refuse", "error", "anytime"}
    /\ MaxSends \in Nat
    /\ MaxClicks \in Nat

VARIABLES
    ui,       \* of each session: what the chat shows, and the stop under way
    forces,   \* of each session: the calls of forceStop that are suspended
    queue,    \* the commands at the lock of the processes, the holder first
    handle,   \* of each session: its CodexProcessHandle and client
    server,   \* of each session: its app-server and what it has written
    sends,    \* messages sent so far, by session
    clicks    \* other clicks so far

vars == <<ui, forces, queue, handle, server, sends, clicks>>

Turns == 1 .. MaxSends
MaybeTurn == 0 .. MaxSends

\* Notifications, which name their turn, and replies, which name their request.
\* An error stands for all that becomes a ProcessError: most notifications of
\* errors, and a compaction that failed.
Notes == [kind : {"started", "delta", "completed"}, turn : Turns]
            \cup [kind : {"plan"}, on : BOOLEAN]
            \cup [kind : {"error"}]
Replies == [kind : {"reply"}, id : Nat, ok : BOOLEAN]

\* `readOnly' and `preamble' are what the request carries; `shown', that the
\* chat showed plan mode when it was sent, by a handle that knows of it.
Requests ==
    [id : Nat, op : {"turn"}, turn : Turns, readOnly : BOOLEAN, preamble : BOOLEAN,
     shown : BOOLEAN]
        \cup [id : Nat, op : {"interrupt"}, turn : Turns, upto : MaybeTurn]
        \cup [id : Nat, op : {"settings"}, on : BOOLEAN]

\* `upto' is the last message sent when the user clicked.
Orders ==
    [op : {"send"}, turn : Turns, shown : BOOLEAN]
        \cup [op : {"interrupt"}, upto : MaybeTurn]
        \cup [op : {"plan"}, on : BOOLEAN]
        \cup [op : {"pause", "insert"}]
Commands == [s : Sessions, order : Orders, id : Nat, at : {"queued", "waiting"}]

TypeOK ==
    /\ ui \in [Sessions -> [busy : BOOLEAN, plan : BOOLEAN, lost : BOOLEAN, erred : BOOLEAN,
                            stop : {"idle", "stopping", "forcing"}, upto : MaybeTurn]]
    /\ forces \in [Sessions ->
                     Seq([at : {"pausing", "killing", "spawning", "inserting", "done"},
                          upto : MaybeTurn])]
    /\ queue \in Seq(Commands)
    /\ handle \in [Sessions -> [held : BOOLEAN, writer : BOOLEAN, next : Nat,
                                known : MaybeTurn, plan : BOOLEAN, native : BOOLEAN]]
    /\ server \in [Sessions -> [is : {"up", "wedged", "gone"}, todo : SUBSET Requests,
                                turns : Seq(Turns), running : MaybeTurn, said : MaybeTurn,
                                plan : BOOLEAN, lines : Seq(Notes \cup Replies),
                                tasks : SUBSET Notes]]
    /\ sends \in [Sessions -> MaybeTurn]
    /\ clicks \in 0 .. MaxClicks

NewHandle == [held |-> TRUE, writer |-> TRUE, next |-> 0, known |-> 0,
              plan |-> FALSE, native |-> FALSE]
NewServer == [is |-> "up", todo |-> {}, turns |-> <<>>, running |-> 0, said |-> 0,
              plan |-> FALSE, lines |-> <<>>, tasks |-> {}]

Init ==
    /\ ui = [s \in Sessions |-> [busy |-> FALSE, plan |-> FALSE, lost |-> FALSE, erred |-> FALSE,
                                 stop |-> "idle", upto |-> 0]]
    /\ forces = [s \in Sessions |-> <<>>]
    /\ queue = <<>>
    /\ handle = [s \in Sessions |-> NewHandle]
    /\ server = [s \in Sessions |-> NewServer]
    /\ sends = [s \in Sessions |-> 0]
    /\ clicks = 0

-----------------------------------------------------------------------------
(* The chat *)

Called(s, op) == \E i \in DOMAIN queue : queue[i].s = s /\ queue[i].order.op = op

\* Mutant: the lock is not fair, who comes last is served first.
CallBarging(s, order) ==
    LET call == [s |-> s, order |-> order, id |-> 0, at |-> "queued"]
    IN queue' = IF queue = <<>> THEN <<call>> ELSE <<Head(queue), call>> \o Tail(queue)

\* Invoking a command puts it at the end of the line.
Call(s, order) ==
    queue' = Append(queue, [s |-> s, order |-> order, id |-> 0, at |-> "queued"])

\* Mutant: nothing watches the busy flag, so a stop outlives the turn it was for.
UnbusyUnwatched(u) == [u EXCEPT !.busy = FALSE]

\* setSessionBusy(false), on which the hook's subscription forgets the stop.
Unbusy(u) == [u EXCEPT !.busy = FALSE, !.stop = "idle"]

\* The user writes when the chat is at rest; "hasty", also while a forced stop
\* is under way.
AtRest(s) == ~ui[s].busy /\ (forces[s] = <<>> \/ "hasty" \in Acts)

Send(s) ==
    /\ AtRest(s)
    /\ sends[s] < MaxSends
    /\ sends' = [sends EXCEPT ![s] = @ + 1]
    /\ ui' = [ui EXCEPT ![s].busy = TRUE]
    /\ Call(s, [op |-> "send", turn |-> sends[s] + 1,
                shown |-> ui[s].plan /\ ~ui[s].lost])
    /\ UNCHANGED <<forces, handle, server, clicks>>

Click == clicks < MaxClicks /\ clicks' = clicks + 1

\* The first click on Stop interrupts.
Stop(s) ==
    /\ Click
    /\ ui[s].busy /\ ui[s].stop = "idle"
    /\ ui' = [ui EXCEPT ![s].stop = "stopping", ![s].upto = sends[s]]
    /\ Call(s, [op |-> "interrupt", upto |-> sends[s]])
    /\ UNCHANGED <<forces, handle, server, sends>>

\* Mutant: the chat is set free before the process is out of the way.
EscalateAtOnce(s) ==
    /\ ui[s].busy /\ ui[s].stop = "stopping"
    /\ ui' = [ui EXCEPT ![s] = Unbusy(@)]
    /\ forces' = [forces EXCEPT ![s] = Append(@, [at |-> "pausing", upto |-> ui[s].upto])]
    /\ Call(s, [op |-> "pause"])
    /\ UNCHANGED <<handle, server, sends>>

Escalate(s) ==
    /\ ui[s].busy /\ ui[s].stop = "stopping"
    /\ ui' = [ui EXCEPT ![s].stop = "forcing"]
    /\ forces' = [forces EXCEPT ![s] = Append(@, [at |-> "pausing", upto |-> ui[s].upto])]
    /\ Call(s, [op |-> "pause"])
    /\ UNCHANGED <<handle, server, sends>>

StopAgain(s) == Click /\ Escalate(s)

\* Four seconds after the click.
TimerFires(s) == Escalate(s) /\ UNCHANGED clicks

\* Nobody who is not hasty clicks before the news of the last click is in.
TogglePlan(s) ==
    /\ "plan" \in Acts
    /\ AtRest(s)
    /\ ~Called(s, "plan")
    /\ "hasty" \in Acts \/ (server[s].lines = <<>> /\ server[s].tasks = {})
    /\ Click
    /\ ui' = [ui EXCEPT ![s].plan = ~@, ![s].lost = FALSE]
    /\ Call(s, [op |-> "plan", on |-> ~ui[s].plan])
    /\ UNCHANGED <<forces, handle, server, sends>>

-----------------------------------------------------------------------------
(* Commands, at the head of the line *)

Takes(s, op) ==
    /\ queue # <<>>
    /\ Head(queue).s = s
    /\ Head(queue).order.op = op
    /\ Head(queue).at = "queued"

Release == queue' = Tail(queue)

\* The holder writes a request and keeps the lock until it is answered.
Ask(s, request) ==
    /\ server' = [server EXCEPT ![s].todo = @ \cup {request}]
    /\ handle' = [handle EXCEPT ![s].next = @ + 1]
    /\ queue' = [queue EXCEPT ![1].id = request.id, ![1].at = "waiting"]

\* is_running says yes as long as the handle is there, whatever the process
\* does; a closed channel is the only thing a request can fail on at once.
Reaches(s) == handle[s].held /\ handle[s].writer

TurnRequest(s, order) ==
    [id |-> handle[s].next, op |-> "turn", turn |-> order.turn,
     readOnly |-> handle[s].plan, preamble |-> handle[s].plan /\ ~handle[s].native,
     shown |-> order.shown /\ ~ui[s].lost]

\* A message that cannot be sent leaves the chat busy.
SendStarts(s) ==
    /\ Takes(s, "send")
    /\ IF Reaches(s)
         THEN Ask(s, TurnRequest(s, Head(queue).order))
         ELSE Release /\ UNCHANGED <<handle, server>>
    /\ UNCHANGED <<ui, forces, sends, clicks>>

\* Mutant: the interrupt is sent although no turn is known.
InterruptBlindly(s) ==
    /\ Takes(s, "interrupt")
    /\ IF Reaches(s)
         THEN Ask(s, [id |-> handle[s].next, op |-> "interrupt", turn |-> handle[s].known,
                      upto |-> Head(queue).order.upto])
         ELSE Release /\ UNCHANGED <<handle, server>>
    /\ UNCHANGED <<ui, forces, sends, clicks>>

\* Without a turn that is known to run there is nothing to interrupt.
InterruptStarts(s) ==
    /\ Takes(s, "interrupt")
    /\ IF Reaches(s) /\ handle[s].known # 0
         THEN Ask(s, [id |-> handle[s].next, op |-> "interrupt", turn |-> handle[s].known,
                      upto |-> Head(queue).order.upto])
         ELSE Release /\ UNCHANGED <<handle, server>>
    /\ UNCHANGED <<ui, forces, sends, clicks>>

\* Without a handle the pill goes back; without a channel the mode is set for
\* the next turn all the same.
PlanStarts(s) ==
    /\ Takes(s, "plan")
    /\ LET on == Head(queue).order.on
       IN \/ /\ Reaches(s)
             /\ server' = [server EXCEPT ![s].todo = @ \cup
                             {[id |-> handle[s].next, op |-> "settings", on |-> on]}]
             /\ handle' = [handle EXCEPT ![s].plan = on, ![s].next = @ + 1]
             /\ queue' = [queue EXCEPT ![1].id = handle[s].next, ![1].at = "waiting"]
             /\ UNCHANGED ui
          \/ /\ handle[s].held /\ ~handle[s].writer
             /\ handle' = [handle EXCEPT ![s].plan = on, ![s].native = FALSE]
             /\ ui' = [ui EXCEPT ![s].plan = on]
             /\ Release
             /\ UNCHANGED server
          \/ /\ ~handle[s].held
             /\ ui' = [ui EXCEPT ![s].plan = ~on]
             /\ Release
             /\ UNCHANGED <<handle, server>>
    /\ UNCHANGED <<forces, sends, clicks>>

\* Mutant: the wait for the answer to an interrupt is not bounded.
AckIsAwaited(s) == FALSE

\* Five seconds; the interrupt stays with the app-server.
AckTimesOut(s) ==
    /\ queue # <<>>
    /\ Head(queue).s = s /\ Head(queue).order.op = "interrupt" /\ Head(queue).at = "waiting"
    /\ Release
    /\ UNCHANGED <<ui, forces, handle, server, sends, clicks>>

\* Mutant: native plan mode counts as on although Codex refused it.
ResumeTrusting(s, ok) ==
    /\ Release
    /\ IF Head(queue).order.op = "plan"
         THEN LET on == Head(queue).order.on
              IN /\ handle' = [handle EXCEPT ![s].native = on]
                 /\ ui' = [ui EXCEPT ![s].plan = on]
         ELSE UNCHANGED <<handle, ui>>

\* What the holder does with the answer to its request; a turn or an interrupt
\* that is refused changes nothing here.
Resume(s, ok) ==
    /\ Release
    /\ IF Head(queue).order.op = "plan"
         THEN LET on == Head(queue).order.on
              IN /\ handle' = [handle EXCEPT ![s].native = on /\ ok]
                 /\ ui' = [ui EXCEPT ![s].plan = on]
         ELSE UNCHANGED <<handle, ui>>

-----------------------------------------------------------------------------
(* The forced stop *)

\* The first call of forceStop that is suspended at some point goes on.
First(s, i, at) ==
    /\ i \in DOMAIN forces[s] /\ forces[s][i].at = at
    /\ \A j \in 1 .. i - 1 : forces[s][j].at # at

Moves(s, i, to) == forces' = [forces EXCEPT ![s][i].at = to]

Leaves(s, i) ==
    forces' = [forces EXCEPT ![s] = SubSeq(@, 1, i - 1) \o SubSeq(@, i + 1, Len(@))]

\* pause_session_process takes the handle out under the lock and kills the
\* process without it.
PauseTakes(s) ==
    /\ Takes(s, "pause")
    /\ \E i \in DOMAIN forces[s] :
         /\ First(s, i, "pausing")
         /\ Moves(s, i, IF handle[s].held THEN "killing" ELSE "spawning")
    /\ handle' = [handle EXCEPT ![s].held = FALSE]
    /\ Release
    /\ UNCHANGED <<ui, server, sends, clicks>>

Killed(s) ==
    /\ \E i \in DOMAIN forces[s] : First(s, i, "killing") /\ Moves(s, i, "spawning")
    /\ server' = [server EXCEPT ![s].is = "gone", ![s].running = 0, ![s].turns = <<>>]
    /\ UNCHANGED <<ui, queue, handle, sends, clicks>>

\* Assumed: a process is killed, and what it had written is handled, before the
\* handshake with its successor is over.
Spawned(s) ==
    /\ \E i \in DOMAIN forces[s] : First(s, i, "spawning") /\ Moves(s, i, "inserting")
    /\ handle[s].held \/ /\ \A i \in DOMAIN forces[s] : forces[s][i].at # "killing"
                         /\ server[s].lines = <<>> /\ server[s].tasks = {}
    /\ Call(s, [op |-> "insert"])
    /\ UNCHANGED <<ui, handle, server, sends, clicks>>

SpawnFails(s) ==
    /\ "spawn" \in Faults
    /\ \E i \in DOMAIN forces[s] : First(s, i, "spawning") /\ Leaves(s, i)
    /\ ui' = [ui EXCEPT ![s].stop = "idle"]
    /\ UNCHANGED <<queue, handle, server, sends, clicks>>

\* The new handle knows nothing of plan mode; a handle it replaces is dropped
\* and its process killed.
InsertTakes(s) ==
    /\ Takes(s, "insert")
    /\ handle' = [handle EXCEPT ![s] = NewHandle]
    /\ server' = [server EXCEPT ![s] = NewServer]
    /\ ui' = [ui EXCEPT ![s].lost = TRUE]
    /\ \E i \in DOMAIN forces[s] : First(s, i, "inserting") /\ Moves(s, i, "done")
    /\ Release
    /\ UNCHANGED <<sends, clicks>>

Returns(s) ==
    /\ \E i \in DOMAIN forces[s] : First(s, i, "done") /\ Leaves(s, i)
    /\ ui' = [ui EXCEPT ![s] = Unbusy(@)]
    /\ UNCHANGED <<queue, handle, server, sends, clicks>>

-----------------------------------------------------------------------------
(* The app-server *)

Works(s) == server[s].is = "up"
Reply(r, ok) == [kind |-> "reply", id |-> r.id, ok |-> ok]

\* It answers requests in any order; an interrupt of a turn that does not run
\* is refused.
Answer(s) ==
    /\ Works(s)
    /\ \E r \in server[s].todo, ok \in BOOLEAN :
         LET lacks == [server[s] EXCEPT !.todo = @ \ {r}]
             does ==
               CASE r.op = "turn" ->
                      [lacks EXCEPT !.turns = Append(@, r.turn), !.lines = Append(@, Reply(r, TRUE))]
                 [] r.op = "interrupt" ->
                      [lacks EXCEPT !.running = 0,
                                    !.lines = @ \o <<Reply(r, TRUE),
                                                    [kind |-> "completed", turn |-> r.turn]>>]
                 [] r.op = "settings" ->
                      [lacks EXCEPT !.plan = r.on,
                                    !.lines = @ \o <<[kind |-> "plan", on |-> r.on],
                                                     Reply(r, TRUE)>>]
         IN /\ IF r.op = "interrupt" THEN ok = (server[s].running = r.turn)
                                     ELSE ok \/ "refuse" \in Faults
            /\ server' = [server EXCEPT ![s] =
                            IF ok THEN does
                                  ELSE [lacks EXCEPT !.lines = Append(@, Reply(r, FALSE))]]
    /\ UNCHANGED <<ui, forces, queue, handle, sends, clicks>>

Notice(kind, turn) == [kind |-> kind, turn |-> turn]

TurnStarts(s) ==
    /\ Works(s)
    /\ server[s].running = 0 /\ server[s].turns # <<>>
    /\ LET turn == Head(server[s].turns)
       IN server' = [server EXCEPT ![s].running = turn, ![s].turns = Tail(@),
                                   ![s].lines = Append(@, Notice("started", turn))]
    /\ UNCHANGED <<ui, forces, queue, handle, sends, clicks>>

\* One delta stands for all of a turn.
Delta(s) ==
    /\ Works(s)
    /\ server[s].running \notin {0, server[s].said}
    /\ server' = [server EXCEPT ![s].said = server[s].running,
                                ![s].lines = Append(@, Notice("delta", server[s].running))]
    /\ UNCHANGED <<ui, forces, queue, handle, sends, clicks>>

TurnEnds(s) ==
    /\ Works(s)
    /\ server[s].running # 0
    /\ server' = [server EXCEPT ![s].running = 0,
                                ![s].lines = Append(@, Notice("completed", server[s].running))]
    /\ UNCHANGED <<ui, forces, queue, handle, sends, clicks>>

Reported(s) == [kind |-> "error"] \in server[s].tasks
                 \/ \E i \in DOMAIN server[s].lines : server[s].lines[i].kind = "error"

\* It reports an error of the turn, which it may then try again or end; one
\* report in a session (a bound).
Errs(s) ==
    /\ "error" \in Faults
    /\ Works(s)
    /\ server[s].running # 0 /\ ~Reported(s) /\ ~ui[s].erred
    /\ server' = [server EXCEPT ![s].lines = Append(@, [kind |-> "error"])]
    /\ UNCHANGED <<ui, forces, queue, handle, sends, clicks>>

\* It fails in the middle of a turn that the chat shows, when only an interrupt
\* can be waiting; "anytime" lets it fail while it owes another answer, or idle,
\* or before the chat has heard of an error.
MayFail(s) ==
    \/ "anytime" \in Faults
    \/ /\ server[s].running # 0 /\ ui[s].busy /\ ~Reported(s)
       /\ \A r \in server[s].todo : r.op = "interrupt"
       /\ ~Called(s, "send") /\ ~Called(s, "plan")

Wedge(s) ==
    /\ "wedge" \in Faults
    /\ Works(s) /\ MayFail(s)
    /\ server' = [server EXCEPT ![s].is = "wedged"]
    /\ UNCHANGED <<ui, forces, queue, handle, sends, clicks>>

Exit(s) ==
    /\ "exit" \in Faults
    /\ Works(s) /\ MayFail(s)
    /\ server' = [server EXCEPT ![s].is = "gone", ![s].running = 0, ![s].turns = <<>>]
    /\ UNCHANGED <<ui, forces, queue, handle, sends, clicks>>

\* The writer learns of the exit when it has something to write.
WriterFails(s) ==
    /\ server[s].is = "gone" /\ server[s].todo # {}
    /\ handle[s].writer
    /\ handle' = [handle EXCEPT ![s].writer = FALSE]
    /\ UNCHANGED <<ui, forces, queue, server, sends, clicks>>

-----------------------------------------------------------------------------
(* What comes from it *)

Awaits(s, id) ==
    /\ queue # <<>>
    /\ Head(queue).s = s /\ Head(queue).at = "waiting" /\ Head(queue).id = id

\* One task reads the lines in order: it completes requests, drops what nobody
\* awaits, and gives each notification a task of its own.
Read(s) ==
    /\ server[s].lines # <<>>
    /\ LET line == Head(server[s].lines)
           rest == [server[s] EXCEPT !.lines = Tail(@)]
       IN \/ /\ line.kind = "reply"
             /\ server' = [server EXCEPT ![s] = rest]
             /\ IF Awaits(s, line.id) THEN Resume(s, line.ok)
                                      ELSE UNCHANGED <<ui, queue, handle>>
          \/ /\ line.kind # "reply"
             /\ server' = [server EXCEPT ![s] = [rest EXCEPT !.tasks = @ \cup {line}]]
             /\ UNCHANGED <<ui, queue, handle>>
    /\ UNCHANGED <<forces, sends, clicks>>

\* The translator's bookkeeping of the turn, then the event in the chat, where an
\* error clears the busy flag whatever becomes of the turn.
Handle(s) ==
    /\ \E note \in server[s].tasks :
         /\ server' = [server EXCEPT ![s].tasks = @ \ {note}]
         /\ handle' = [handle EXCEPT ![s].known = CASE note.kind = "started" -> note.turn
                                                   [] note.kind = "completed" -> 0
                                                   [] OTHER -> @]
         /\ ui' = [ui EXCEPT ![s] = CASE note.kind = "completed" -> Unbusy(@)
                                      [] note.kind = "delta" -> [@ EXCEPT !.busy = TRUE]
                                      [] note.kind = "error" -> [Unbusy(@) EXCEPT !.erred = TRUE]
                                      [] note.kind = "plan" -> [@ EXCEPT !.plan = note.on]
                                      [] OTHER -> @]
    /\ UNCHANGED <<forces, queue, sends, clicks>>

-----------------------------------------------------------------------------

User(s) == Send(s) \/ Stop(s) \/ StopAgain(s) \/ TogglePlan(s)
Command(s) == SendStarts(s) \/ InterruptStarts(s) \/ PlanStarts(s) \/ AckTimesOut(s)
                \/ PauseTakes(s) \/ InsertTakes(s)
Forcing(s) == Killed(s) \/ Spawned(s) \/ SpawnFails(s) \/ Returns(s)
AppServer(s) == TurnStarts(s) \/ Delta(s) \/ TurnEnds(s) \/ Errs(s) \/ Wedge(s) \/ Exit(s)

Next == \E s \in Sessions :
    User(s) \/ TimerFires(s) \/ Command(s) \/ Forcing(s) \/ Answer(s) \/ AppServer(s)
        \/ WriterFails(s) \/ Read(s) \/ Handle(s)

Spec == Init /\ [][Next]_vars

\* The scheduler runs what can run and timers fire; an app-server that works
\* answers.  Nobody makes the user act or a turn end.
Fairness == \A s \in Sessions :
    /\ WF_vars(TimerFires(s))
    /\ WF_vars(Command(s))
    /\ WF_vars(Forcing(s))
    /\ WF_vars(Answer(s))
    /\ WF_vars(Read(s))
    /\ WF_vars(Handle(s))

FairSpec == Spec /\ Fairness

-----------------------------------------------------------------------------
(* Properties *)

\* While the app-server of a session works on a turn, the chat shows the
\* session as busy, so that Stop is there: no notification handled late and no
\* stop that ends late hides a turn. An error that was reported in the session
\* may (README, Disagreements).
BusyTells == \A s \in Sessions :
    handle[s].held /\ server[s].running # 0 => ui[s].busy \/ ui[s].erred

\* An interrupt that the user asked for when some message was the last one
\* never names the turn of a later message, however long it stood in line.
InterruptsAreAimed == \A s \in Sessions : \A r \in server[s].todo :
    r.op = "interrupt" => r.turn <= r.upto

\* Nor does a forced stop kill the process while it works on a later message.
KillsAreAimed == \A s \in Sessions : \A i \in DOMAIN forces[s] :
    forces[s][i].at = "killing" => server[s].running <= forces[s][i].upto

\* A message sent while the chat shows plan mode goes out read-only, and with
\* Codex's plan mode on or the preamble in front - unless the process was
\* replaced since the mode was chosen.
PlanIsKept == \A s \in Sessions : \A r \in server[s].todo :
    r.op = "turn" /\ r.shown => r.readOnly /\ (r.preamble \/ server[s].plan)

\* A stop unsticks the session: it comes to an end, and the session is then no
\* longer busy or has lost its process, so that the next message starts anew.
StopUnsticks == \A s \in Sessions :
    ui[s].stop # "idle" ~> ui[s].stop = "idle" /\ (ui[s].busy => ~handle[s].held)

=============================================================================
