--------------------------- MODULE CrashRecovery ---------------------------
(***************************************************************************)
(* Sessions across crashes: the rows of the database, the commands that    *)
(* write them, the tabs of the window and the hydration at each start      *)
(* (src/lib/crash-recovery.ts, src/hooks/useClaudeSession.ts,              *)
(* src-tauri/src/commands/session.rs and storage/database.rs).             *)
(*                                                                         *)
(* `db' survives everything.  The backend's memory (`procs', `ids',        *)
(* `calls', `acks') survives a reload of the window, the window's memory   *)
(* (`tabs', `boot', `jobs') does not.  Each write of a row is a step of    *)
(* its own, between any two of them the machine may die.                   *)
(***************************************************************************)
EXTENDS Naturals, FiniteSets

CONSTANTS
    Rows,      \* bound: the ids that sessions get, a resumed one gets a new id
    Messages,  \* bound: the messages that are written
    MaxTabs,   \* maxCodingAgentSessions
    Acts,      \* what the user and the system do besides the ordinary
    Faults     \* the calls that may fail

ASSUME RecoveryAssumption ==
    /\ MaxTabs \in Nat
    /\ Acts \subseteq {"dismiss", "early", "idle"}
    /\ Faults \subseteq {"spawn", "list", "ack"}

VARIABLES
    db,     \* of each id: its row and the messages saved under it
    app,    \* the backend: "up", or how far a regular exit has come
    procs,  \* AppState.processes: sessions with a CLI
    ids,    \* AppState.cli_session_ids: sessions whose CLI has reported its id
    calls,  \* create_session and close_session under way
    acks,   \* what acknowledge_crashed_sessions has still to do
    wake,   \* wake_recovery_reload
    tabs,   \* of each id: its tab and the messages in it
    boot,   \* hydratePersistedOpenSessions
    jobs,   \* what the user, and the start for the active tab, is awaiting
    sent    \* messages written so far

vars == <<db, app, procs, ids, calls, acks, wake, tabs, boot, jobs, sent>>

TabKinds == {"none", "paused", "live", "reattached"}
Jobs == [kind : {"idle"}]
          \cup [kind : {"new"}, to : Rows]
          \cup [kind : {"resume"}, from : Rows, to : Rows, msgs : SUBSET Messages]
          \cup [kind : {"swap"}, from : Rows]
          \cup [kind : {"listed"}, from : Rows, to : Rows]
          \cup [kind : {"saving", "closing"}, from : Rows]
Calls == [op : {"insert", "flag", "token", "spawn"}, row : Rows, resumes : BOOLEAN]
           \cup [op : {"close", "unflag"}, row : Rows, known : BOOLEAN]

\* `status' is "closed" when closed_at is set, "open" for all others; `cli',
\* whether cli_session_id is known.
TypeOK ==
    /\ db \in [Rows -> [status : {"none", "open", "closed"}, cli : BOOLEAN,
                        was_open : BOOLEAN, msgs : SUBSET Messages]]
    /\ app \in {"up", "draining", "promoted", "cleared"}
    /\ procs \in SUBSET Rows
    /\ ids \in SUBSET Rows
    /\ calls \in SUBSET Calls
    /\ acks \in SUBSET Rows
    /\ wake \in BOOLEAN
    /\ tabs \in [Rows -> [kind : TabKinds, msgs : SUBSET Messages]]
    /\ boot \in [stage : {"list", "restore", "ack", "resume", "done"}, todo : SUBSET Rows,
                 live : SUBSET Rows, crashed : SUBSET Rows]
    /\ jobs \in [{"user", "start"} -> Jobs]
    /\ sent \in SUBSET Messages

NoTab == [kind |-> "none", msgs |-> {}]
Idle == [kind |-> "idle"]
NoJobs == [w \in {"user", "start"} |-> Idle]
Start == [stage |-> "list", todo |-> {}, live |-> {}, crashed |-> {}]
Done == [Start EXCEPT !.stage = "done"]

Init ==
    /\ db = [r \in Rows |-> [status |-> "none", cli |-> FALSE, was_open |-> FALSE,
                             msgs |-> {}]]
    /\ app = "up"
    /\ procs = {}
    /\ ids = {}
    /\ calls = {}
    /\ acks = {}
    /\ wake = FALSE
    /\ tabs = [r \in Rows |-> NoTab]
    /\ boot = Start
    /\ jobs = NoJobs
    /\ sent = {}

-----------------------------------------------------------------------------
(* Statements of the database *)

\* Messages are inserted or replaced by their own id: saved under another row
\* they leave the one they were in.
Saved(r, msgs) ==
    [q \in Rows |-> IF q = r THEN [db[q] EXCEPT !.msgs = msgs]
                             ELSE [db[q] EXCEPT !.msgs = @ \ msgs]]

\* Mutant: an interrupted session counts as an error.
PromotedToErrored(row) == IF row.status = "open" THEN [row EXCEPT !.status = "errored"] ELSE row

\* What is neither closed nor errored becomes closed, and gets a closed_at.
Promoted(row) == IF row.status = "open" THEN [row EXCEPT !.status = "closed"] ELSE row

\* list_crashed_sessions: what it returns, and the placeholders it unflags.
Crashed == {r \in Rows : db[r].was_open /\ db[r].msgs # {} /\ db[r].cli}
Empty == {r \in Rows : db[r].was_open /\ db[r].msgs = {}}

\* list_recent_sessions, the Resume Session tab. Its LIMIT is left out: there are
\* never more closed sessions than it lists (README, What is not modelled).
Listed == {r \in Rows : /\ db[r].status = "closed"
                        /\ db[r].msgs # {}
                        /\ db[r].cli}

-----------------------------------------------------------------------------
(* Commands, step by step *)

Unused == {r \in Rows : db[r].status = "none" /\ \A c \in calls : c.row # r}
Running(r) == \E c \in calls : c.row = r

Insert(c) ==
    /\ c.op = "insert"
    /\ db' = [db EXCEPT ![c.row].status = "open"]
    /\ calls' = (calls \ {c}) \cup {[c EXCEPT !.op = "flag"]}
    /\ UNCHANGED <<procs, ids>>

Flag(c) ==
    /\ c.op = "flag"
    /\ db' = [db EXCEPT ![c.row].was_open = TRUE]
    /\ calls' = (calls \ {c}) \cup {[c EXCEPT !.op = "token"]}
    /\ UNCHANGED <<procs, ids>>

\* Mutant: the id comes with the CLI's first message alone.
TokenForgotten(c) ==
    /\ c.op = "token"
    /\ calls' = (calls \ {c}) \cup {[c EXCEPT !.op = "spawn"]}
    /\ UNCHANGED <<db, procs, ids>>

\* The id that is resumed is persisted before its CLI runs.
Token(c) ==
    /\ c.op = "token"
    /\ db' = [db EXCEPT ![c.row].cli = c.resumes]
    /\ calls' = (calls \ {c}) \cup {[c EXCEPT !.op = "spawn"]}
    /\ UNCHANGED <<procs, ids>>

Spawn(c) ==
    /\ c.op = "spawn"
    /\ \/ procs' = procs \cup {c.row}
       \/ "spawn" \in Faults /\ UNCHANGED procs
    /\ calls' = calls \ {c}
    /\ UNCHANGED <<db, ids>>

\* close_session has read its id and killed its CLI when it was called.
CloseDetails(c) ==
    /\ c.op = "close"
    /\ db' = [db EXCEPT ![c.row].status = "closed", ![c.row].cli = c.known]
    /\ calls' = (calls \ {c}) \cup {[c EXCEPT !.op = "unflag"]}
    /\ UNCHANGED <<procs, ids>>

Unflag(c) ==
    /\ c.op = "unflag"
    /\ db' = [db EXCEPT ![c.row].was_open = FALSE]
    /\ ids' = ids \ {c.row}
    /\ calls' = calls \ {c}
    /\ UNCHANGED procs

CallStep ==
    /\ \E c \in calls :
         \/ Insert(c) \/ Flag(c) \/ Token(c) \/ Spawn(c)
         \/ CloseDetails(c) \/ Unflag(c)
    /\ UNCHANGED <<app, acks, wake, tabs, boot, jobs, sent>>

\* Mutant: the flags of all sessions are cleared, not of those restored.
AcknowledgeAll(r) ==
    /\ r \in acks
    /\ db' = [q \in Rows |-> [Promoted(db[q]) EXCEPT !.was_open = FALSE]]
    /\ acks' = {}
    /\ UNCHANGED <<app, procs, ids, calls, wake, tabs, boot, jobs, sent>>

\* acknowledge_crashed_sessions, row by row: closed first, then unflagged.
Acknowledge(r) ==
    /\ r \in acks
    /\ IF db[r].status = "open"
       THEN db' = [db EXCEPT ![r] = Promoted(@)] /\ UNCHANGED acks
       ELSE db' = [db EXCEPT ![r].was_open = FALSE] /\ acks' = acks \ {r}
    /\ UNCHANGED <<app, procs, ids, calls, wake, tabs, boot, jobs, sent>>

\* The CLI reports its id with the first message of a turn.
CliReports(r) ==
    /\ r \in procs
    /\ r \notin ids
    /\ ids' = ids \cup {r}
    /\ db' = [db EXCEPT ![r].cli = TRUE]
    /\ UNCHANGED <<app, procs, calls, acks, wake, tabs, boot, jobs, sent>>

-----------------------------------------------------------------------------
(* Opening, resuming and closing tabs *)

Open == {r \in Rows : tabs[r].kind # "none"}
Opened(r, kind, msgs) == [tabs EXCEPT ![r] = [kind |-> kind, msgs |-> msgs]]
Removed(r) == [tabs EXCEPT ![r] = NoTab]
Create(r, resumes) == calls \cup {[op |-> "insert", row |-> r, resumes |-> resumes]}

Begin(who, job) == jobs' = [jobs EXCEPT ![who] = job]

\* resumeRecoveredSession: at the limit the tab makes room for its successor.
Resume(who, r) ==
    LET room == IF Cardinality(Open) >= MaxTabs THEN Removed(r) ELSE tabs
        full == Cardinality({q \in Rows : room[q].kind # "none"}) >= MaxTabs
    IN /\ tabs[r].kind = "paused"
       /\ tabs' = room
       /\ IF full
          THEN UNCHANGED <<calls, jobs>>
          ELSE \E b \in Unused :
                 /\ calls' = Create(b, TRUE)
                 /\ Begin(who, [kind |-> "resume", from |-> r, to |-> b, msgs |-> tabs[r].msgs])

\* The messages of the paused tab, or else those of the row that is resumed.
Loaded(job) ==
    IF job.kind = "new" THEN {}
    ELSE IF job.kind = "resume" /\ job.msgs # {} THEN job.msgs
    ELSE db[job.from].msgs

\* create_session has returned.
Returns(who) ==
    LET job == jobs[who]
    IN /\ job.kind \in {"new", "resume", "listed"}
       /\ ~Running(job.to)
       /\ IF job.to \in procs
          THEN /\ tabs' = Opened(job.to, "live", Loaded(job))
               /\ Begin(who, IF job.kind = "resume" THEN [kind |-> "swap", from |-> job.from]
                                                     ELSE Idle)
          ELSE Begin(who, Idle) /\ UNCHANGED tabs

Swap(who) ==
    /\ jobs[who].kind = "swap"
    /\ tabs' = Removed(jobs[who].from)
    /\ Begin(who, Idle)

GoesOn ==
    /\ app = "up"
    /\ \E who \in {"user", "start"} : Returns(who) \/ Swap(who)
    /\ UNCHANGED <<db, app, procs, ids, calls, acks, wake, boot, sent>>

\* The user acts on what the start has put on display, one thing at a time.
AtLeisure == app = "up" /\ boot.stage # "list" /\ jobs["user"] = Idle

New ==
    /\ AtLeisure
    /\ Cardinality(Open) < MaxTabs
    /\ \E b \in Unused :
         /\ Begin("user", [kind |-> "new", to |-> b])
         /\ calls' = Create(b, FALSE)
    /\ UNCHANGED <<db, app, procs, ids, acks, wake, tabs, boot, sent>>

ResumeTab(r) ==
    /\ AtLeisure
    /\ Resume("user", r)
    /\ UNCHANGED <<db, app, procs, ids, acks, wake, boot, sent>>

ResumeListed(r) ==
    /\ AtLeisure
    /\ Cardinality(Open) < MaxTabs
    /\ r \in Listed
    /\ \E b \in Unused :
         /\ Begin("user", [kind |-> "listed", from |-> r, to |-> b])
         /\ calls' = Create(b, TRUE)
    /\ UNCHANGED <<db, app, procs, ids, acks, wake, tabs, boot, sent>>

\* "dismiss": a paused tab; "early": a resumed session whose CLI has not
\* reported yet.
MayClose(r) ==
    /\ tabs[r].kind # "none"
    /\ tabs[r].kind = "paused" => "dismiss" \in Acts
    /\ tabs[r].kind # "paused" /\ db[r].cli /\ r \notin ids => "early" \in Acts

\* closeSession saves what the tab shows before it asks the backend.
Close(r) ==
    /\ AtLeisure
    /\ MayClose(r)
    /\ Begin("user", [kind |-> "saving", from |-> r])
    /\ db' = IF tabs[r].msgs # {} THEN Saved(r, tabs[r].msgs) ELSE db
    /\ UNCHANGED <<app, procs, ids, calls, acks, wake, tabs, boot, sent>>

CloseAsks ==
    LET r == jobs["user"].from
    IN /\ app = "up"
       /\ jobs["user"].kind = "saving"
       /\ Begin("user", [kind |-> "closing", from |-> r])
       /\ procs' = procs \ {r}
       /\ calls' = calls \cup {[op |-> "close", row |-> r, known |-> r \in ids]}
       /\ UNCHANGED <<db, app, ids, acks, wake, tabs, boot, sent>>

CloseReturns ==
    /\ app = "up"
    /\ jobs["user"].kind = "closing"
    /\ ~Running(jobs["user"].from)
    /\ Begin("user", Idle)
    /\ tabs' = Removed(jobs["user"].from)
    /\ UNCHANGED <<db, app, procs, ids, calls, acks, wake, boot, sent>>

Closing(r) == jobs["user"].kind \in {"saving", "closing"} /\ jobs["user"].from = r

\* A message of the user, or one of the agent.
Write(r) ==
    /\ app = "up"
    /\ tabs[r].kind \in {"live", "reattached"}
    /\ ~Closing(r)
    /\ \E m \in Messages \ sent :
         /\ sent' = sent \cup {m}
         /\ tabs' = [tabs EXCEPT ![r].msgs = @ \cup {m}]
    /\ UNCHANGED <<db, app, procs, ids, calls, acks, wake, boot, jobs>>

\* scheduleFlushTranscript and the tick of every minute.
Flush(r) ==
    /\ app = "up"
    /\ tabs[r].kind \in {"live", "reattached"}
    /\ tabs[r].msgs # {}
    /\ db' = Saved(r, tabs[r].msgs)
    /\ UNCHANGED <<app, procs, ids, calls, acks, wake, tabs, boot, jobs, sent>>

-----------------------------------------------------------------------------
(* Hydration *)

\* After a reload the sessions that still run are listed too.
List ==
    /\ app = "up"
    /\ boot.stage = "list"
    /\ wake' = FALSE
    /\ \E fails \in {FALSE} \cup {f \in BOOLEAN : "list" \in Faults} :
         LET live == IF wake THEN procs ELSE {}
             todo == IF fails THEN {} ELSE Crashed \cup live
         IN /\ boot' = IF todo = {} THEN Done
                       ELSE [stage |-> "restore", todo |-> todo, live |-> live,
                             crashed |-> Crashed]
            /\ db' = [r \in Rows |-> IF r \in Empty /\ ~fails
                                    THEN [db[r] EXCEPT !.was_open = FALSE] ELSE db[r]]
    /\ UNCHANGED <<app, procs, ids, calls, acks, tabs, jobs, sent>>

Restore(r) ==
    /\ app = "up"
    /\ boot.stage = "restore"
    /\ r \in boot.todo
    /\ boot' = [boot EXCEPT !.todo = @ \ {r}]
    /\ tabs' = IF r \in Open THEN tabs
               ELSE Opened(r, IF r \in boot.live THEN "reattached" ELSE "paused", db[r].msgs)
    /\ UNCHANGED <<db, app, procs, ids, calls, acks, wake, jobs, sent>>

\* Mutant: nobody tells the backend what was restored.
AckForgotten ==
    /\ app = "up"
    /\ boot.stage = "restore"
    /\ boot.todo = {}
    /\ boot' = [boot EXCEPT !.stage = "resume"]
    /\ UNCHANGED <<db, app, procs, ids, calls, acks, wake, tabs, jobs, sent>>

\* All of these sessions are acknowledged when all are restored.
AckAsks ==
    /\ app = "up"
    /\ boot.stage = "restore"
    /\ boot.todo = {}
    /\ boot' = [boot EXCEPT !.stage = "ack"]
    /\ acks' \in {acks \cup boot.crashed} \cup {a \in {acks} : "ack" \in Faults}
    /\ UNCHANGED <<db, app, procs, ids, calls, wake, tabs, jobs, sent>>

AckReturns ==
    /\ app = "up"
    /\ boot.stage = "ack"
    /\ acks \cap boot.crashed = {}
    /\ boot' = IF boot.live = {} THEN [boot EXCEPT !.stage = "resume"] ELSE Done
    /\ UNCHANGED <<db, app, procs, ids, calls, acks, wake, tabs, jobs, sent>>

\* The tab that was active last, any of them, unless the user was faster.
AutoResume ==
    /\ app = "up"
    /\ boot.stage = "resume"
    /\ boot' = Done
    /\ \E r \in boot.crashed :
         IF tabs[r].kind = "paused"
         THEN Resume("start", r)
         ELSE UNCHANGED <<calls, tabs, jobs>>
    /\ UNCHANGED <<db, app, procs, ids, acks, wake, sent>>

-----------------------------------------------------------------------------
(* Exit, crash and reload *)

WindowIsNew ==
    /\ tabs' = [r \in Rows |-> NoTab]
    /\ boot' = Start
    /\ jobs' = NoJobs

\* A regular exit kills the CLIs, closes the rows of what is open, and unflags
\* all.  The window is gone, a command under way goes on.
Quit ==
    /\ app = "up"
    /\ app' = "draining"
    /\ procs' = {}
    /\ WindowIsNew
    /\ UNCHANGED <<db, ids, calls, acks, wake, sent>>

\* Mutant: the flags are cleared first, no row is left to promote.
PromoteNone ==
    /\ app = "draining"
    /\ app' = "promoted"
    /\ UNCHANGED <<db, procs, ids, calls, acks, wake, tabs, boot, jobs, sent>>

PromoteAll ==
    /\ app = "draining"
    /\ app' = "promoted"
    /\ db' = [r \in Rows |-> IF db[r].was_open THEN Promoted(db[r]) ELSE db[r]]
    /\ UNCHANGED <<procs, ids, calls, acks, wake, tabs, boot, jobs, sent>>

ClearAll ==
    /\ app = "promoted"
    /\ app' = "cleared"
    /\ db' = [r \in Rows |-> [db[r] EXCEPT !.was_open = FALSE]]
    /\ UNCHANGED <<procs, ids, calls, acks, wake, tabs, boot, jobs, sent>>

\* The program ends, at whatever point, and is started again.
Restart ==
    /\ app' = "up"
    /\ procs' = {}
    /\ ids' = {}
    /\ calls' = {}
    /\ acks' = {}
    /\ wake' = FALSE
    /\ WindowIsNew
    /\ UNCHANGED <<db, sent>>

\* The wake observer reloads a window that hangs.  "idle": even with a session
\* nothing was saved of.
Reload ==
    /\ app = "up"
    /\ \/ "idle" \in Acts
       \/ /\ \A r \in procs : db[r].msgs # {}
          /\ \A c \in calls : c.op \in {"close", "unflag"}
    /\ wake' = TRUE
    /\ WindowIsNew
    /\ UNCHANGED <<db, app, procs, ids, calls, acks, sent>>

-----------------------------------------------------------------------------
Next ==
    \/ CallStep
    \/ GoesOn
    \/ New \/ CloseAsks \/ CloseReturns
    \/ \E r \in Rows :
         \/ Acknowledge(r) \/ CliReports(r)
         \/ ResumeTab(r) \/ ResumeListed(r) \/ Close(r)
         \/ Write(r) \/ Flush(r) \/ Restore(r)
    \/ List \/ AckAsks \/ AckReturns \/ AutoResume
    \/ Quit \/ PromoteAll \/ ClearAll \/ Restart \/ Reload

Spec == Init /\ [][Next]_vars

-----------------------------------------------------------------------------
(* Properties *)

\* Whoever may be started next finds message `m': by hydration or in the list.
Findable(m) == \E r \in Rows : /\ m \in db[r].msgs
                               /\ db[r].cli
                               /\ db[r].was_open \/ db[r].status = "closed"

\* No step makes a saved message of a resumable session unfindable: not the
\* move of the messages to a resumed session's row, not closing, acknowledging,
\* exiting or crashing between any two of their writes.
NothingIsLost == [][\A m \in Messages : Findable(m) => Findable(m)']_vars

\* What is saved of a resumable session is saved in a row that the next start
\* will look at, whatever has happened to the row's flag since it was opened.
SavedIsFindable ==
    \A r \in Rows : db[r].msgs # {} /\ db[r].cli => db[r].was_open \/ db[r].status = "closed"

Settled == app = "up" /\ boot.stage = "done" /\ acks = {} /\ calls = {}
             /\ jobs = NoJobs

\* When a start has settled, all that is findable is on display or in the
\* Resume Session list: nothing waits for yet another crash to turn up.
AllIsShown ==
    Settled => \A m \in Messages :
                 Findable(m) => \/ \E r \in Rows : m \in tabs[r].msgs
                                \/ \E r \in Listed : m \in db[r].msgs

\* A session in a live tab is flagged, so that a crash brings its tab back.
\* Sessions reattached after a reload are not: they have been acknowledged.
LiveIsFlagged ==
    app = "up" => \A r \in Rows : tabs[r].kind = "live" /\ ~Closing(r) => db[r].was_open
=============================================================================
