------------------------ MODULE CrashRecoveryProofs ------------------------
(***************************************************************************)
(* Theorems about sessions across crashes, for any number of sessions and  *)
(* messages: the rows that are saved stay findable, live sessions stay     *)
(* flagged, no step makes a saved message unfindable, and a start that has *)
(* settled shows all of them.                                              *)
(***************************************************************************)
EXTENDS CrashRecovery, TLAPS

RowType == [status : {"none", "open", "closed"}, cli : BOOLEAN,
            was_open : BOOLEAN, msgs : SUBSET Messages]
TabType == [kind : TabKinds, msgs : SUBSET Messages]
BootType == [stage : {"list", "restore", "ack", "resume", "done"}, todo : SUBSET Rows,
             live : SUBSET Rows, crashed : SUBSET Rows]

-----------------------------------------------------------------------------
(* Types *)

CreateCalls == [op : {"insert", "flag", "token", "spawn"}, row : Rows, resumes : BOOLEAN]
CloseCalls == [op : {"close", "unflag"}, row : Rows, known : BOOLEAN]
Creates(c) == c.op \in {"insert", "flag", "token", "spawn"}

LEMMA CallIs ==
  ASSUME NEW c \in Calls
  PROVE  /\ c.row \in Rows
         /\ \/ Creates(c) /\ c \in CreateCalls
            \/ ~Creates(c) /\ c.op \in {"close", "unflag"} /\ c \in CloseCalls
BY DEF Calls, CreateCalls, CloseCalls, Creates

LEMMA CallsAre == CreateCalls \subseteq Calls /\ CloseCalls \subseteq Calls
BY DEF Calls, CreateCalls, CloseCalls

LEMMA NextCreate ==
  ASSUME NEW c \in CreateCalls, NEW o \in {"insert", "flag", "token", "spawn"}
  PROVE  LET d == [c EXCEPT !.op = o]
         IN d \in CreateCalls /\ d.op = o /\ d.row = c.row /\ d.resumes = c.resumes
BY DEF CreateCalls

LEMMA NextClose ==
  ASSUME NEW c \in CloseCalls
  PROVE  LET d == [c EXCEPT !.op = "unflag"]
         IN d \in CloseCalls /\ d.op = "unflag" /\ d.row = c.row /\ d.known = c.known
BY DEF CloseCalls

LEMMA NewCall ==
  ASSUME NEW b \in Rows, NEW resumes \in BOOLEAN
  PROVE  LET d == [op |-> "insert", row |-> b, resumes |-> resumes]
         IN d \in CreateCalls /\ d.op = "insert" /\ d.row = b /\ d.resumes = resumes
BY DEF CreateCalls

LEMMA InitTypes == Init => TypeOK
<1>1. Idle \in Jobs BY DEF Idle, Jobs
<1>2. SUFFICES ASSUME Init PROVE TypeOK OBVIOUS
<1>3. jobs \in [{"user", "start"} -> Jobs] BY <1>1, <1>2 DEF Init, NoJobs
<1>4. QED BY <1>2, <1>3 DEF Init, TypeOK, TabKinds, NoTab, Start

LEMMA WindowTypes ==
  WindowIsNew => tabs' \in [Rows -> TabType] /\ boot' \in BootType
                   /\ jobs' \in [{"user", "start"} -> Jobs]
BY DEF WindowIsNew, TabType, TabKinds, BootType, NoTab, Start, NoJobs, Jobs, Idle

LEMMA CallTypes ==
  ASSUME TypeOK, CallStep PROVE TypeOK'
<1>1. PICK c \in calls : \/ Insert(c) \/ Flag(c) \/ Token(c) \/ Spawn(c)
                         \/ CloseDetails(c) \/ Unflag(c)
  BY DEF CallStep
<1>2. c \in Calls BY DEF TypeOK
<1>3. calls' \in SUBSET Calls
  <2>2. CASE Insert(c) \/ Flag(c) \/ Token(c)
    <3>1. c \in CreateCalls BY <1>2, <2>2, CallIs DEF Insert, Flag, Token
    <3>2. \A o \in {"insert", "flag", "token", "spawn"} : [c EXCEPT !.op = o] \in Calls
      BY <3>1, NextCreate, CallsAre
    <3>3. QED BY <2>2, <3>2 DEF TypeOK, Insert, Flag, Token
  <2>3. CASE CloseDetails(c)
    <3>1. c \in CloseCalls BY <1>2, <2>3, CallIs DEF CloseDetails, Creates
    <3>2. QED BY <2>3, <3>1, NextClose, CallsAre DEF TypeOK, CloseDetails
  <2>4. CASE Spawn(c) \/ Unflag(c) BY <2>4 DEF TypeOK, Spawn, Unflag
  <2>5. QED BY <1>1, <2>2, <2>3, <2>4
<1>4. db' \in [Rows -> RowType] /\ procs' \in SUBSET Rows /\ ids' \in SUBSET Rows
  <2>1. c.row \in Rows BY <1>2, CallIs
  <2>2. db[c.row] \in RowType BY <2>1 DEF TypeOK, RowType
  <2>3. CASE Insert(c) BY <2>1, <2>2, <2>3 DEF TypeOK, Insert, RowType
  <2>4. CASE Flag(c) BY <2>1, <2>2, <2>4 DEF TypeOK, Flag, RowType
  <2>5. CASE Token(c)
    <3>1. c.resumes \in BOOLEAN BY <1>2, <2>5, CallIs DEF Token, CreateCalls
    <3>2. QED BY <2>1, <2>2, <2>5, <3>1 DEF TypeOK, Token, RowType
  <2>6. CASE Spawn(c) BY <2>1, <2>6 DEF TypeOK, Spawn, RowType
  <2>7. CASE CloseDetails(c)
    <3>1. c.known \in BOOLEAN BY <1>2, <2>7, CallIs DEF CloseDetails, CloseCalls, Creates
    <3>2. QED BY <2>1, <2>2, <2>7, <3>1 DEF TypeOK, CloseDetails, RowType
  <2>8. CASE Unflag(c) BY <2>1, <2>2, <2>8 DEF TypeOK, Unflag, RowType
  <2>9. QED BY <1>1, <2>3, <2>4, <2>5, <2>6, <2>7, <2>8
<1>5. QED BY <1>3, <1>4 DEF CallStep, TypeOK, RowType

LEMMA SavedTypes ==
  ASSUME TypeOK, NEW r \in Rows, NEW msgs \in SUBSET Messages
  PROVE  Saved(r, msgs) \in [Rows -> RowType]
BY DEF TypeOK, Saved, RowType

LEMMA ResumeTypes ==
  ASSUME TypeOK, NEW who \in {"user", "start"}, NEW r \in Rows, Resume(who, r)
  PROVE  /\ calls' \in SUBSET Calls
         /\ tabs' \in [Rows -> TabType]
         /\ jobs' \in [{"user", "start"} -> Jobs]
<1>1. tabs' \in [Rows -> TabType]
  BY DEF TypeOK, Resume, Removed, NoTab, TabType, TabKinds
<1>2. tabs[r].msgs \in SUBSET Messages BY DEF TypeOK
<1>3. CASE UNCHANGED <<calls, jobs>> BY <1>1, <1>3 DEF TypeOK
<1>4. CASE \E b \in Unused :
             /\ calls' = Create(b, TRUE)
             /\ Begin(who, [kind |-> "resume", from |-> r, to |-> b, msgs |-> tabs[r].msgs])
  <2>1. PICK b \in Unused :
             /\ calls' = Create(b, TRUE)
             /\ Begin(who, [kind |-> "resume", from |-> r, to |-> b, msgs |-> tabs[r].msgs])
    BY <1>4
  <2>2. b \in Rows BY DEF Unused
  <2>3. calls' \in SUBSET Calls
    <3>1. [op |-> "insert", row |-> b, resumes |-> TRUE] \in Calls BY <2>2, NewCall, CallsAre
    <3>2. QED BY <2>1, <3>1 DEF TypeOK, Create
  <2>4. [kind |-> "resume", from |-> r, to |-> b, msgs |-> tabs[r].msgs] \in Jobs
    BY <1>2, <2>2 DEF Jobs
  <2>5. jobs' \in [{"user", "start"} -> Jobs] BY <2>1, <2>4 DEF TypeOK, Begin
  <2>6. QED BY <1>1, <2>3, <2>5
<1>5. QED BY <1>3, <1>4 DEF Resume

LEMMA ReturnsTypes ==
  ASSUME TypeOK, NEW who \in {"user", "start"}, Returns(who)
  PROVE  tabs' \in [Rows -> TabType] /\ jobs' \in [{"user", "start"} -> Jobs]
<1> DEFINE job == jobs[who]
<1>1. job \in Jobs BY DEF TypeOK
<1>2. Idle \in Jobs BY DEF Idle, Jobs
<1>3. CASE job.to \notin procs
  BY <1>2, <1>3 DEF TypeOK, Returns, Begin, TabType
<1>4. CASE job.to \in procs
  <2>1. job.kind \in {"new", "resume", "listed"} BY DEF Returns
  <2>2. job.to \in Rows BY <1>4 DEF TypeOK
  <2>3. job.kind \in {"resume", "listed"} => job.from \in Rows /\ db[job.from].msgs \in SUBSET Messages
    BY <1>1 DEF Jobs, TypeOK
  <2>4. job.kind = "resume" => job.msgs \in SUBSET Messages BY <1>1 DEF Jobs
  <2>5. Loaded(job) \in SUBSET Messages BY <2>1, <2>3, <2>4 DEF Loaded
  <2>6. tabs' = Opened(job.to, "live", Loaded(job)) BY <1>4 DEF Returns
  <2>7. tabs' \in [Rows -> TabType] BY <2>2, <2>5, <2>6 DEF TypeOK, Opened, TabType, TabKinds
  <2>8. job.kind = "resume" => [kind |-> "swap", from |-> job.from] \in Jobs BY <2>3 DEF Jobs
  <2>9. jobs' \in [{"user", "start"} -> Jobs]
    BY <1>2, <1>4, <2>8 DEF TypeOK, Returns, Begin
  <2>10. QED BY <2>7, <2>9
<1>5. QED BY <1>3, <1>4

LEMMA UserTypes ==
  ASSUME TypeOK, New \/ CloseAsks \/ CloseReturns \/ GoesOn PROVE TypeOK'
<1>1. Idle \in Jobs BY DEF Idle, Jobs
<1>2. CASE New
  <2>1. PICK b \in Unused : /\ Begin("user", [kind |-> "new", to |-> b])
                            /\ calls' = Create(b, FALSE)
    BY <1>2 DEF New
  <2>2. b \in Rows BY DEF Unused
  <2>3. [kind |-> "new", to |-> b] \in Jobs BY <2>2 DEF Jobs
  <2>4. [op |-> "insert", row |-> b, resumes |-> FALSE] \in Calls BY <2>2, NewCall, CallsAre
  <2>5. QED BY <1>2, <2>1, <2>3, <2>4 DEF TypeOK, New, Begin, Create
<1>3. CASE CloseAsks
  <2>1. jobs["user"] \in Jobs /\ jobs["user"].kind = "saving" BY <1>3 DEF TypeOK, CloseAsks
  <2>2. jobs["user"].from \in Rows BY <2>1 DEF Jobs
  <2>3. [kind |-> "closing", from |-> jobs["user"].from] \in Jobs BY <2>2 DEF Jobs
  <2>4. [op |-> "close", row |-> jobs["user"].from, known |-> jobs["user"].from \in ids] \in CloseCalls
    BY <2>2 DEF CloseCalls
  <2>5. QED BY <1>3, <2>3, <2>4, CallsAre DEF TypeOK, CloseAsks, Begin
<1>4. CASE CloseReturns
  BY <1>1, <1>4 DEF TypeOK, CloseReturns, Begin, Removed, NoTab, TabKinds
<1>5. CASE GoesOn
  <2>1. PICK who \in {"user", "start"} : Returns(who) \/ Swap(who) BY <1>5 DEF GoesOn
  <2>2. tabs' \in [Rows -> TabType] /\ jobs' \in [{"user", "start"} -> Jobs]
    <3>1. CASE Returns(who) BY <3>1, ReturnsTypes
    <3>2. CASE Swap(who) BY <1>1, <3>2 DEF TypeOK, Swap, Begin, Removed, NoTab, TabKinds, TabType
    <3>3. QED BY <2>1, <3>1, <3>2
  <2>3. QED BY <1>5, <2>2 DEF TypeOK, GoesOn, TabType
<1>6. QED BY <1>2, <1>3, <1>4, <1>5

LEMMA RowTypes ==
  ASSUME TypeOK, NEW r \in Rows,
         \/ Acknowledge(r) \/ CliReports(r)
         \/ ResumeTab(r) \/ ResumeListed(r) \/ Close(r)
         \/ Write(r) \/ Flush(r) \/ Restore(r)
  PROVE  TypeOK'
<1>1. db[r] \in RowType /\ tabs[r] \in TabType BY DEF TypeOK, RowType, TabType
<1>2. CASE Acknowledge(r)
  <2>1. Promoted(db[r]) \in RowType BY <1>1 DEF Promoted, RowType
  <2>2. db' \in [Rows -> RowType] /\ acks' \in SUBSET Rows
    <3>1. CASE db[r].status = "open"
      <4>1. db' = [db EXCEPT ![r] = Promoted(db[r])] /\ acks' = acks
        BY <1>2, <3>1 DEF Acknowledge
      <4>2. QED BY <2>1, <4>1 DEF TypeOK, RowType
    <3>2. CASE db[r].status # "open"
      <4>1. db' = [db EXCEPT ![r].was_open = FALSE] /\ acks' = acks \ {r}
        BY <1>2, <3>2 DEF Acknowledge
      <4>2. [db[r] EXCEPT !.was_open = FALSE] \in RowType BY <1>1 DEF RowType
      <4>3. QED BY <4>1, <4>2 DEF TypeOK, RowType
    <3>3. QED BY <3>1, <3>2
  <2>3. QED BY <1>2, <2>2 DEF TypeOK, Acknowledge, RowType
<1>3. CASE CliReports(r) BY <1>1, <1>3 DEF TypeOK, CliReports, RowType
<1>4. CASE ResumeTab(r)
  <2>1. Resume("user", r) BY <1>4 DEF ResumeTab
  <2>2. QED BY <1>4, <2>1, ResumeTypes DEF TypeOK, ResumeTab, TabType
<1>5. CASE ResumeListed(r)
  <2>1. PICK b \in Unused : /\ Begin("user", [kind |-> "listed", from |-> r, to |-> b])
                            /\ calls' = Create(b, TRUE)
    BY <1>5 DEF ResumeListed
  <2>2. b \in Rows BY DEF Unused
  <2>3. [kind |-> "listed", from |-> r, to |-> b] \in Jobs BY <2>2 DEF Jobs
  <2>4. [op |-> "insert", row |-> b, resumes |-> TRUE] \in Calls BY <2>2, NewCall, CallsAre
  <2>5. QED BY <1>5, <2>1, <2>3, <2>4 DEF TypeOK, ResumeListed, Begin, Create
<1>6. CASE Close(r)
  <2>1. [kind |-> "saving", from |-> r] \in Jobs BY DEF Jobs
  <2>2. db' \in [Rows -> RowType] BY <1>1, <1>6, SavedTypes DEF TypeOK, Close, TabType, RowType
  <2>3. QED BY <1>6, <2>1, <2>2 DEF TypeOK, Close, Begin, RowType
<1>7. CASE Write(r) BY <1>1, <1>7 DEF TypeOK, Write, TabType
<1>8. CASE Flush(r)
  <2>1. db' \in [Rows -> RowType] BY <1>1, <1>8, SavedTypes DEF TypeOK, Flush, TabType, RowType
  <2>2. QED BY <1>8, <2>1 DEF TypeOK, Flush, RowType
<1>9. CASE Restore(r)
  <2>1. tabs' \in [Rows -> TabType] BY <1>1, <1>9 DEF TypeOK, Restore, Opened, TabType, TabKinds, RowType
  <2>2. QED BY <1>9, <2>1 DEF TypeOK, Restore, TabType
<1>10. QED BY <1>2, <1>3, <1>4, <1>5, <1>6, <1>7, <1>8, <1>9

LEMMA StartTypes ==
  ASSUME TypeOK, List \/ AckAsks \/ AckReturns \/ AutoResume PROVE TypeOK'
<1>1. CASE List
  <2>1. db' \in [Rows -> RowType]
    <3>1. PICK fails \in BOOLEAN :
            db' = [r \in Rows |-> IF r \in Empty /\ ~fails
                                  THEN [db[r] EXCEPT !.was_open = FALSE] ELSE db[r]]
      BY <1>1 DEF List
    <3>2. \A r \in Rows : db[r] \in RowType BY DEF TypeOK, RowType
    <3>3. \A row \in RowType : [row EXCEPT !.was_open = FALSE] \in RowType BY DEF RowType
    <3>4. QED BY <3>1, <3>2, <3>3
  <2>2. boot' \in BootType
    <3>1. Crashed \subseteq Rows /\ procs \subseteq Rows BY DEF Crashed, TypeOK
    <3>2. QED BY <1>1, <3>1 DEF List, Done, Start, BootType
  <2>3. QED BY <1>1, <2>1, <2>2 DEF TypeOK, List, RowType, BootType
<1>2. CASE AckAsks BY <1>2 DEF TypeOK, AckAsks
<1>3. CASE AckReturns BY <1>3 DEF TypeOK, AckReturns, Done, Start
<1>4. CASE AutoResume
  <2>1. PICK r \in boot.crashed : IF tabs[r].kind = "paused"
                                  THEN Resume("start", r) ELSE UNCHANGED <<calls, tabs, jobs>>
    BY <1>4 DEF AutoResume
  <2>2. r \in Rows BY DEF TypeOK
  <2>3. /\ calls' \in SUBSET Calls /\ tabs' \in [Rows -> TabType]
        /\ jobs' \in [{"user", "start"} -> Jobs]
    BY <2>1, <2>2, ResumeTypes DEF TypeOK, TabType
  <2>4. boot' \in BootType BY <1>4 DEF AutoResume, Done, Start, BootType
  <2>5. QED BY <1>4, <2>3, <2>4 DEF TypeOK, AutoResume, TabType, BootType
<1>5. QED BY <1>1, <1>2, <1>3, <1>4

LEMMA EndTypes ==
  ASSUME TypeOK, Quit \/ PromoteAll \/ ClearAll \/ Restart \/ Reload PROVE TypeOK'
<1>1. CASE Quit BY <1>1, WindowTypes DEF TypeOK, Quit, TabType, BootType
<1>2. ASSUME PromoteAll \/ ClearAll PROVE db' \in [Rows -> RowType]
  <2>1. \A r \in Rows : db[r] \in RowType BY DEF TypeOK, RowType
  <2>2. \A row \in RowType : Promoted(row) \in RowType /\ [row EXCEPT !.was_open = FALSE] \in RowType
    BY DEF Promoted, RowType
  <2>3. QED BY <1>2, <2>1, <2>2 DEF PromoteAll, ClearAll
<1>3. CASE PromoteAll \/ ClearAll BY <1>2, <1>3 DEF TypeOK, PromoteAll, ClearAll, RowType
<1>4. CASE Restart BY <1>4, WindowTypes DEF TypeOK, Restart, TabType, BootType
<1>5. CASE Reload BY <1>5, WindowTypes DEF TypeOK, Reload, TabType, BootType
<1>6. QED BY <1>1, <1>3, <1>4, <1>5

LEMMA NextTypes == TypeOK /\ [Next]_vars => TypeOK'
<1>1. CASE UNCHANGED vars BY <1>1 DEF vars, TypeOK
<1>2. ASSUME TypeOK, Next PROVE TypeOK'
  BY <1>2, CallTypes, UserTypes, RowTypes, StartTypes, EndTypes DEF Next
<1>3. QED BY <1>1, <1>2

\* Every row, tab, call and job is of a kind that somebody handles, for any
\* number of sessions, crashes and reloads.
THEOREM TypeCorrect == Spec => []TypeOK
<1>1. QED BY InitTypes, NextTypes, PTL DEF Spec

-----------------------------------------------------------------------------
(* What a step of a command does *)

Moved(c, op) == \E d \in Calls :
    /\ calls' = (calls \ {c}) \cup {d}
    /\ d.op = op /\ d.row = c.row
    /\ Creates(c) => d.resumes = c.resumes
    /\ ~Creates(c) => d.known = c.known

RowIs(r, status, cli, was_open) ==
    /\ db'[r].status = status /\ db'[r].cli = cli /\ db'[r].was_open = was_open
    /\ db'[r].msgs = db[r].msgs
    /\ \A q \in Rows \ {r} : db'[q] = db[q]

LEMMA CallEffects ==
  ASSUME TypeOK, NEW c \in calls
  PROVE  LET r == c.row
         IN /\ Insert(c) => /\ c.op = "insert" /\ Moved(c, "flag")
                            /\ RowIs(r, "open", db[r].cli, db[r].was_open)
                            /\ procs' = procs /\ ids' = ids
            /\ Flag(c) => /\ c.op = "flag" /\ Moved(c, "token")
                          /\ RowIs(r, db[r].status, db[r].cli, TRUE)
                          /\ procs' = procs /\ ids' = ids
            /\ Token(c) => /\ c.op = "token" /\ Moved(c, "spawn")
                           /\ RowIs(r, db[r].status, c.resumes, db[r].was_open)
                           /\ procs' = procs /\ ids' = ids
            /\ Spawn(c) => /\ c.op = "spawn" /\ calls' = calls \ {c}
                           /\ RowIs(r, db[r].status, db[r].cli, db[r].was_open)
                           /\ procs \subseteq procs' /\ procs' \subseteq procs \cup {r}
                           /\ ids' = ids
            /\ CloseDetails(c) => /\ c.op = "close" /\ Moved(c, "unflag")
                                  /\ RowIs(r, "closed", c.known, db[r].was_open)
                                  /\ procs' = procs /\ ids' = ids
            /\ Unflag(c) => /\ c.op = "unflag" /\ calls' = calls \ {c}
                            /\ RowIs(r, db[r].status, db[r].cli, FALSE)
                            /\ procs' = procs /\ ids' = ids \ {r}
<1>1. c \in Calls BY DEF TypeOK
<1>2. c.row \in Rows /\ \A q \in Rows : db[q] \in RowType BY <1>1, CallIs DEF TypeOK, RowType
<1>3. ASSUME NEW o \in {"flag", "token", "spawn"}, Creates(c),
             calls' = (calls \ {c}) \cup {[c EXCEPT !.op = o]}
      PROVE  Moved(c, o)
  <2>1. c \in CreateCalls BY <1>1, <1>3, CallIs
  <2> DEFINE d == [c EXCEPT !.op = o]
  <2>2. d \in Calls /\ d.op = o /\ d.row = c.row /\ d.resumes = c.resumes
    <3>1. d \in CreateCalls /\ d.op = o /\ d.row = c.row /\ d.resumes = c.resumes
      BY <2>1 DEF CreateCalls
    <3>2. QED BY <3>1, CallsAre
  <2>3. calls' = (calls \ {c}) \cup {d} BY <1>3
  <2> HIDE DEF d
  <2>4. QED BY <1>3, <2>2, <2>3 DEF Moved
<1>4. CASE Insert(c)
  <2>1. Creates(c) /\ Moved(c, "flag") BY <1>3, <1>4 DEF Insert, Creates
  <2>2. RowIs(c.row, "open", db[c.row].cli, db[c.row].was_open)
    BY <1>2, <1>4 DEF Insert, TypeOK, RowIs, RowType
  <2>3. QED BY <1>4, <2>1, <2>2 DEF Insert, Flag, Token, Spawn, CloseDetails, Unflag
<1>5. CASE Flag(c)
  <2>1. Creates(c) /\ Moved(c, "token") BY <1>3, <1>5 DEF Flag, Creates
  <2>2. RowIs(c.row, db[c.row].status, db[c.row].cli, TRUE)
    BY <1>2, <1>5 DEF Flag, TypeOK, RowIs, RowType
  <2>3. QED BY <1>5, <2>1, <2>2 DEF Insert, Flag, Token, Spawn, CloseDetails, Unflag
<1>6. CASE Token(c)
  <2>1. Creates(c) /\ Moved(c, "spawn") BY <1>3, <1>6 DEF Token, Creates
  <2>2. RowIs(c.row, db[c.row].status, c.resumes, db[c.row].was_open)
    BY <1>2, <1>6 DEF Token, TypeOK, RowIs, RowType
  <2>3. QED BY <1>6, <2>1, <2>2 DEF Insert, Flag, Token, Spawn, CloseDetails, Unflag
<1>7. CASE Spawn(c)
  <2>1. RowIs(c.row, db[c.row].status, db[c.row].cli, db[c.row].was_open)
    BY <1>7 DEF Spawn, RowIs
  <2>2. QED BY <1>7, <2>1 DEF Insert, Flag, Token, Spawn, CloseDetails, Unflag
<1>8. CASE CloseDetails(c)
  <2>1. c \in CloseCalls /\ ~Creates(c) BY <1>1, <1>8, CallIs DEF CloseDetails, Creates
  <2>2. Moved(c, "unflag") BY <1>8, <2>1, NextClose, CallsAre DEF CloseDetails, Moved
  <2>3. RowIs(c.row, "closed", c.known, db[c.row].was_open)
    BY <1>2, <1>8 DEF CloseDetails, TypeOK, RowIs, RowType
  <2>4. QED BY <1>8, <2>2, <2>3 DEF Insert, Flag, Token, Spawn, CloseDetails, Unflag
<1>9. CASE Unflag(c)
  <2>1. RowIs(c.row, db[c.row].status, db[c.row].cli, FALSE)
    BY <1>2, <1>9 DEF Unflag, TypeOK, RowIs, RowType
  <2>2. QED BY <1>9, <2>1 DEF Insert, Flag, Token, Spawn, CloseDetails, Unflag
<1>10. QED BY <1>4, <1>5, <1>6, <1>7, <1>8, <1>9

-----------------------------------------------------------------------------
(* What holds whatever the user and the system do *)

Marked == acks \cup boot.crashed \cup boot.todo
User == jobs["user"]
Closes == User.kind \in {"saving", "closing"}

\* What runs, is in a tab, marked or being closed has been inserted; what has not
\* is blank, and is about to be if it has a call.
Inserted ==
    /\ \A r \in Rows : db[r].status = "none" =>
         ~db[r].was_open /\ ~db[r].cli /\ db[r].msgs = {} /\ r \notin procs
    /\ \A c \in calls : c.op = "insert" <=> db[c.row].status = "none"
    /\ app = "up" => \A r \in Rows :
         r \in Marked \/ tabs[r].kind # "none" \/ Closing(r) => db[r].status # "none"

\* A session that is being created has one call, and nothing else.
Fresh == \A c \in calls : Creates(c) =>
    /\ \A d \in calls : d.row = c.row => d = c
    /\ c.row \notin procs
    /\ db[c.row].msgs = {}
    /\ c.op # "spawn" => ~db[c.row].cli
    /\ app = "up" => tabs[c.row].kind = "none" /\ c.row \notin Marked /\ ~Closing(c.row)

\* Before the list was read the window has nothing.
Blank == app = "up" /\ boot.stage = "list" =>
    /\ \A r \in Rows : tabs[r].kind = "none"
    /\ jobs = NoJobs
    /\ boot.todo = {} /\ boot.crashed = {}

Steady == TypeOK /\ Inserted /\ Fresh /\ Blank

LEMMA CallSteady ==
  ASSUME Steady, CallStep PROVE Inserted' /\ Fresh' /\ Blank'
<1>1. PICK c \in calls : \/ Insert(c) \/ Flag(c) \/ Token(c) \/ Spawn(c)
                         \/ CloseDetails(c) \/ Unflag(c)
  BY DEF CallStep
<1>2. UNCHANGED <<app, acks, wake, tabs, boot, jobs, sent>> BY DEF CallStep
<1>3. Blank' BY <1>2 DEF Steady, Blank, NoJobs, Idle
<1>4. TypeOK /\ Inserted /\ Fresh BY DEF Steady
<1>5. \A d \in calls : d.row \in Rows BY <1>4, CallIs DEF TypeOK
<1>6. CASE Insert(c)
  <2>1. c.op = "insert" /\ Moved(c, "flag") /\ RowIs(c.row, "open", db[c.row].cli, db[c.row].was_open)
          /\ procs' = procs
    BY <1>4, <1>6, CallEffects
  <2>2. Inserted' BY <1>2, <1>4, <1>5, <2>1 DEF Inserted, Fresh, Moved, RowIs, Creates, Marked, Closing, User
  <2>3. Fresh' BY <1>2, <1>4, <1>5, <2>1 DEF Inserted, Fresh, Moved, RowIs, Creates, Marked, Closing, User
  <2>4. QED BY <1>3, <2>2, <2>3
<1>7. CASE Flag(c)
  <2>1. c.op = "flag" /\ Moved(c, "token") /\ RowIs(c.row, db[c.row].status, db[c.row].cli, TRUE)
          /\ procs' = procs
    BY <1>4, <1>7, CallEffects
  <2>2. Inserted' BY <1>2, <1>4, <1>5, <2>1 DEF Inserted, Fresh, Moved, RowIs, Creates, Marked, Closing, User
  <2>3. Fresh' BY <1>2, <1>4, <1>5, <2>1 DEF Inserted, Fresh, Moved, RowIs, Creates, Marked, Closing, User
  <2>4. QED BY <1>3, <2>2, <2>3
<1>8. CASE Token(c)
  <2>1. c.op = "token" /\ Moved(c, "spawn") /\ RowIs(c.row, db[c.row].status, c.resumes, db[c.row].was_open)
          /\ procs' = procs
    BY <1>4, <1>8, CallEffects
  <2>2. Inserted' BY <1>2, <1>4, <1>5, <2>1 DEF Inserted, Fresh, Moved, RowIs, Creates, Marked, Closing, User
  <2>3. Fresh' BY <1>2, <1>4, <1>5, <2>1 DEF Inserted, Fresh, Moved, RowIs, Creates, Marked, Closing, User
  <2>4. QED BY <1>3, <2>2, <2>3
<1>9. CASE Spawn(c)
  <2>1. /\ c.op = "spawn" /\ calls' = calls \ {c}
        /\ RowIs(c.row, db[c.row].status, db[c.row].cli, db[c.row].was_open)
        /\ procs \subseteq procs' /\ procs' \subseteq procs \cup {c.row}
    BY <1>4, <1>9, CallEffects
  <2>2. Inserted' BY <1>2, <1>4, <1>5, <2>1 DEF Inserted, Fresh, RowIs, Creates, Marked, Closing, User
  <2>3. \A q \in Rows : Closing(q)' <=> Closing(q) BY <1>2 DEF Closing
  <2>4. Marked' = Marked BY <1>2 DEF Marked
  <2>5. \A d \in calls' : d \in calls /\ (Creates(d) => d.row # c.row) BY <1>4, <2>1 DEF Fresh
  <2>6. Fresh' BY <1>2, <1>4, <1>5, <2>1, <2>3, <2>4, <2>5 DEF Fresh, RowIs
  <2>7. QED BY <1>3, <2>2, <2>6
<1>10. CASE CloseDetails(c)
  <2>1. c.op = "close" /\ Moved(c, "unflag") /\ RowIs(c.row, "closed", c.known, db[c.row].was_open)
          /\ procs' = procs
    BY <1>4, <1>10, CallEffects
  <2>2. Inserted' BY <1>2, <1>4, <1>5, <2>1 DEF Inserted, Fresh, Moved, RowIs, Creates, Marked, Closing, User
  <2>3. Fresh' BY <1>2, <1>4, <1>5, <2>1 DEF Inserted, Fresh, Moved, RowIs, Creates, Marked, Closing, User
  <2>4. QED BY <1>3, <2>2, <2>3
<1>11. CASE Unflag(c)
  <2>1. c.op = "unflag" /\ calls' = calls \ {c} /\ RowIs(c.row, db[c.row].status, db[c.row].cli, FALSE)
          /\ procs' = procs
    BY <1>4, <1>11, CallEffects
  <2>2. Inserted' BY <1>2, <1>4, <1>5, <2>1 DEF Inserted, Fresh, RowIs, Creates, Marked, Closing, User
  <2>3. \A q \in Rows : Closing(q)' <=> Closing(q) BY <1>2 DEF Closing
  <2>4. Marked' = Marked BY <1>2 DEF Marked
  <2>5. \A d \in calls' : d \in calls /\ (Creates(d) => d.row # c.row) BY <1>4, <2>1 DEF Fresh
  <2>6. Fresh' BY <1>2, <1>4, <1>5, <2>1, <2>3, <2>4, <2>5 DEF Fresh, RowIs
  <2>7. QED BY <1>3, <2>2, <2>6
<1>12. QED BY <1>1, <1>6, <1>7, <1>8, <1>9, <1>10, <1>11

Created(b, resumes) == \E d \in Calls :
    /\ calls' = calls \cup {d}
    /\ d.op = "insert" /\ d.row = b /\ d.resumes = resumes

Other(who) == IF who = "user" THEN "start" ELSE "user"

\* What is under way for `who' becomes job, the other goes on.
JobIs(who, job) == jobs'[who] = job /\ jobs'[Other(who)] = jobs[Other(who)]

LEMMA Begins ==
  ASSUME TypeOK, NEW who \in {"user", "start"}, NEW job, Begin(who, job)
  PROVE  JobIs(who, job)
BY DEF TypeOK, Begin, JobIs, Other

LEMMA Creating ==
  ASSUME NEW b \in Rows, NEW resumes \in BOOLEAN, calls' = Create(b, resumes)
  PROVE  Created(b, resumes)
<1> DEFINE d == [op |-> "insert", row |-> b, resumes |-> resumes]
<1>1. d \in Calls /\ d.op = "insert" /\ d.row = b /\ d.resumes = resumes
  <2>1. d \in CreateCalls BY DEF CreateCalls
  <2>2. QED BY <2>1, CallsAre
<1>2. calls' = calls \cup {d} BY DEF Create
<1> HIDE DEF d
<1>3. QED BY <1>1, <1>2 DEF Created

LEMMA SavedEffects ==
  ASSUME TypeOK, NEW r \in Rows, db' = Saved(r, tabs[r].msgs)
  PROVE  /\ \A q \in Rows : db'[q].status = db[q].status /\ db'[q].cli = db[q].cli
                              /\ db'[q].was_open = db[q].was_open
         /\ db'[r].msgs = tabs[r].msgs
         /\ \A q \in Rows \ {r} : db'[q].msgs = db[q].msgs \ tabs[r].msgs
<1>1. \A q \in Rows : db[q] \in RowType BY DEF TypeOK, RowType
<1>2. \A q \in Rows : db'[q] = IF q = r THEN [db[q] EXCEPT !.msgs = tabs[r].msgs]
                                        ELSE [db[q] EXCEPT !.msgs = @ \ tabs[r].msgs]
  BY DEF Saved
<1>3. ASSUME NEW q \in Rows, q # r
      PROVE  /\ db'[q].status = db[q].status /\ db'[q].cli = db[q].cli
             /\ db'[q].was_open = db[q].was_open /\ db'[q].msgs = db[q].msgs \ tabs[r].msgs
  <2>1. db[q] \in RowType /\ db'[q] = [db[q] EXCEPT !.msgs = @ \ tabs[r].msgs] BY <1>1, <1>2, <1>3
  <2>2. QED BY <2>1 DEF RowType
<1>4. /\ db'[r].status = db[r].status /\ db'[r].cli = db[r].cli
      /\ db'[r].was_open = db[r].was_open /\ db'[r].msgs = tabs[r].msgs
  <2>1. db[r] \in RowType /\ db'[r] = [db[r] EXCEPT !.msgs = tabs[r].msgs] BY <1>1, <1>2
  <2>2. QED BY <2>1 DEF RowType
<1>5. QED BY <1>3, <1>4

LEMMA ResumeEffects ==
  ASSUME TypeOK, NEW who \in {"user", "start"}, NEW r \in Rows, Resume(who, r)
  PROVE  /\ tabs[r].kind = "paused"
         /\ tabs'[r] \in {tabs[r], NoTab} /\ \A q \in Rows \ {r} : tabs'[q] = tabs[q]
         /\ \/ calls' = calls /\ jobs' = jobs
            \/ \E b \in Unused : /\ Created(b, TRUE)
                                 /\ JobIs(who, [kind |-> "resume", from |-> r, to |-> b,
                                                msgs |-> tabs[r].msgs])
<1>1. tabs'[r] \in {tabs[r], NoTab} /\ \A q \in Rows \ {r} : tabs'[q] = tabs[q]
  BY DEF TypeOK, Resume, Removed
<1>2. ASSUME NEW b \in Unused, calls' = Create(b, TRUE),
             Begin(who, [kind |-> "resume", from |-> r, to |-> b, msgs |-> tabs[r].msgs])
      PROVE  /\ Created(b, TRUE)
             /\ JobIs(who, [kind |-> "resume", from |-> r, to |-> b, msgs |-> tabs[r].msgs])
  <2>1. b \in Rows BY DEF Unused
  <2>2. QED BY <1>2, <2>1, Creating, Begins
<1>3. QED BY <1>1, <1>2 DEF Resume

LEMMA ReturnsEffects ==
  ASSUME TypeOK, NEW who \in {"user", "start"}, Returns(who)
  PROVE  LET job == jobs[who]
         IN /\ job.kind \in {"new", "resume", "listed"} /\ ~Running(job.to)
            /\ job.to \in Rows
            /\ \/ job.to \notin procs /\ tabs' = tabs /\ JobIs(who, Idle)
               \/ /\ job.to \in procs
                  /\ tabs'[job.to] = [kind |-> "live", msgs |-> Loaded(job)]
                  /\ \A q \in Rows \ {job.to} : tabs'[q] = tabs[q]
                  /\ JobIs(who, Idle) \/ JobIs(who, [kind |-> "swap", from |-> job.from])
<1> DEFINE job == jobs[who]
<1>1. job \in Jobs /\ job.kind \in {"new", "resume", "listed"} /\ ~Running(job.to)
  BY DEF TypeOK, Returns
<1>2. job.to \in Rows BY <1>1 DEF Jobs
<1>3. CASE job.to \notin procs
  <2>1. tabs' = tabs /\ Begin(who, Idle) BY <1>3 DEF Returns
  <2>2. QED BY <1>1, <1>2, <1>3, <2>1, Begins
<1>4. CASE job.to \in procs
  <2>1. tabs' = Opened(job.to, "live", Loaded(job)) BY <1>4 DEF Returns
  <2>2. tabs'[job.to] = [kind |-> "live", msgs |-> Loaded(job)] /\ \A q \in Rows \ {job.to} : tabs'[q] = tabs[q]
    BY <1>2, <2>1 DEF TypeOK, Opened
  <2>3. Begin(who, Idle) \/ Begin(who, [kind |-> "swap", from |-> job.from])
    BY <1>4 DEF Returns
  <2>4. QED BY <1>1, <1>2, <1>4, <2>2, <2>3, Begins
<1>5. QED BY <1>3, <1>4

LEMMA AckEffects ==
  ASSUME TypeOK, NEW r \in Rows, Acknowledge(r)
  PROVE  /\ r \in acks
         /\ \/ RowIs(r, "closed", db[r].cli, db[r].was_open) /\ db[r].status = "open" /\ acks' = acks
            \/ RowIs(r, db[r].status, db[r].cli, FALSE) /\ db[r].status # "open" /\ acks' = acks \ {r}
<1>1. db[r] \in RowType BY DEF TypeOK, RowType
<1>2. CASE db[r].status = "open"
  <2>1. db' = [db EXCEPT ![r] = [db[r] EXCEPT !.status = "closed"]] /\ acks' = acks /\ r \in acks
    BY <1>2 DEF Acknowledge, Promoted
  <2>2. QED BY <1>1, <1>2, <2>1 DEF TypeOK, RowIs, RowType
<1>3. CASE db[r].status # "open"
  <2>1. db' = [db EXCEPT ![r].was_open = FALSE] /\ acks' = acks \ {r} /\ r \in acks
    BY <1>3 DEF Acknowledge
  <2>2. QED BY <1>1, <1>3, <2>1 DEF TypeOK, RowIs, RowType
<1>4. QED BY <1>2, <1>3

LEMMA ReportEffects ==
  ASSUME TypeOK, NEW r \in Rows, CliReports(r)
  PROVE  /\ r \in procs /\ ids' = ids \cup {r}
         /\ RowIs(r, db[r].status, TRUE, db[r].was_open)
<1>1. db[r] \in RowType BY DEF TypeOK, RowType
<1>2. QED BY <1>1 DEF TypeOK, CliReports, RowIs, RowType

\* What a statement on all rows leaves alone.
Resaved(r) == db'[r].cli = db[r].cli /\ db'[r].msgs = db[r].msgs

LEMMA ListEffects ==
  ASSUME TypeOK, List
  PROVE  /\ \A r \in Rows : Resaved(r) /\ db'[r].status = db[r].status
                              /\ db'[r].was_open \in {db[r].was_open, FALSE}
                              /\ (db[r].msgs # {} => db'[r].was_open = db[r].was_open)
         /\ boot'.stage # "list" /\ boot'.live \subseteq procs
         /\ boot'.todo \subseteq Crashed \cup boot'.live /\ boot'.crashed \subseteq Crashed
<1>1. \A r \in Rows : db[r] \in RowType BY DEF TypeOK, RowType
<1>2. PICK fails \in BOOLEAN :
        db' = [r \in Rows |-> IF r \in Empty /\ ~fails
                              THEN [db[r] EXCEPT !.was_open = FALSE] ELSE db[r]]
  BY DEF List
<1>3. ASSUME NEW r \in Rows
      PROVE  /\ Resaved(r) /\ db'[r].status = db[r].status
             /\ db'[r].was_open \in {db[r].was_open, FALSE}
             /\ db[r].msgs # {} => db'[r].was_open = db[r].was_open
  <2>1. CASE r \in Empty /\ ~fails
    <3>1. db[r] \in RowType /\ db'[r] = [db[r] EXCEPT !.was_open = FALSE] /\ db[r].msgs = {}
      BY <1>1, <1>2, <2>1 DEF Empty
    <3>2. QED BY <3>1 DEF RowType, Resaved
  <2>2. CASE ~(r \in Empty /\ ~fails) BY <1>2, <2>2 DEF Resaved
  <2>3. QED BY <2>1, <2>2
<1>4. /\ boot'.stage # "list" /\ boot'.live \subseteq procs
      /\ boot'.todo \subseteq Crashed \cup boot'.live /\ boot'.crashed \subseteq Crashed
  BY DEF List, Done, Start
<1>5. QED BY <1>3, <1>4

LEMMA PromoteEffects ==
  ASSUME TypeOK, PromoteAll
  PROVE  \A r \in Rows : /\ Resaved(r) /\ db'[r].was_open = db[r].was_open
                         /\ db'[r].status = IF db[r].was_open /\ db[r].status = "open"
                                            THEN "closed" ELSE db[r].status
<1> TAKE r \in Rows
<1>1. db[r] \in RowType BY DEF TypeOK, RowType
<1>2. db'[r] = IF db[r].was_open /\ db[r].status = "open" THEN [db[r] EXCEPT !.status = "closed"] ELSE db[r]
  BY DEF PromoteAll, Promoted
<1>3. QED BY <1>1, <1>2 DEF RowType, Resaved

LEMMA ClearEffects ==
  ASSUME TypeOK, ClearAll
  PROVE  \A r \in Rows : Resaved(r) /\ ~db'[r].was_open /\ db'[r].status = db[r].status
<1> TAKE r \in Rows
<1>1. db[r] \in RowType BY DEF TypeOK, RowType
<1>2. db'[r] = [db[r] EXCEPT !.was_open = FALSE] BY DEF ClearAll
<1>3. QED BY <1>1, <1>2 DEF RowType, Resaved

LEMMA WindowEffects ==
  ASSUME WindowIsNew
  PROVE  /\ \A r \in Rows : tabs'[r] = NoTab
         /\ jobs' = NoJobs /\ jobs'["user"] = Idle /\ jobs'["start"] = Idle
         /\ boot'.stage = "list" /\ boot'.todo = {} /\ boot'.live = {} /\ boot'.crashed = {}
BY DEF WindowIsNew, NoJobs, Start

LEMMA InitSteady == Init => Steady
<1>1. SUFFICES ASSUME Init PROVE Steady OBVIOUS
<1>2. TypeOK BY <1>1, InitTypes
<1>3. Blank BY <1>1 DEF Init, Blank, Start, NoTab, NoJobs, Idle
<1>4. Inserted BY <1>1 DEF Init, Inserted, Start, NoTab, NoJobs, Idle, Marked, Closing
<1>5. Fresh BY <1>1 DEF Init, Fresh
<1>6. QED BY <1>2, <1>3, <1>4, <1>5 DEF Steady

LEMMA Callers == ASSUME TypeOK PROVE \A c \in calls : c.row \in Rows
BY CallIs DEF TypeOK

\* Rows that were inserted stay so, and nothing is marked that was not.
LEMMA BareSteady ==
  ASSUME TypeOK, Inserted, Fresh, UNCHANGED <<app, procs, calls, tabs, jobs>>,
         \A q \in Rows : /\ (db'[q].status = "none") <=> (db[q].status = "none")
                        /\ db'[q].cli = db[q].cli /\ db'[q].msgs = db[q].msgs
                        /\ db'[q].was_open \in {db[q].was_open, FALSE},
         Marked' \subseteq Marked
  PROVE  Inserted' /\ Fresh'
<1>1. \A q \in Rows : Closing(q)' <=> Closing(q) BY DEF Closing
<1>2. QED BY <1>1, Callers DEF Inserted, Fresh

LEMMA JobsSteady ==
  ASSUME Steady, GoesOn PROVE Inserted' /\ Fresh' /\ Blank'
<1>1. TypeOK /\ Inserted /\ Fresh /\ Blank BY DEF Steady
<1>2. PICK who \in {"user", "start"} : Returns(who) \/ Swap(who) BY DEF GoesOn
<1>3. app = "up" /\ UNCHANGED <<db, app, procs, ids, calls, acks, wake, boot, sent>> BY DEF GoesOn
<1>4. boot.stage # "list"
  BY <1>1, <1>2, <1>3 DEF Blank, Returns, Swap, NoJobs, Idle
<1>5. \A d \in calls : d.row \in Rows BY <1>1, CallIs DEF TypeOK
<1>6. CASE Returns(who)
  <2>1. /\ jobs[who].to \in Rows /\ \A c \in calls : c.row # jobs[who].to
        /\ \A q \in Rows : tabs'[q].kind = tabs[q].kind \/ (q = jobs[who].to /\ q \in procs)
        /\ jobs'[who].kind \notin {"saving", "closing"} /\ jobs'[Other(who)] = jobs[Other(who)]
    <3>1. /\ jobs[who].to \in Rows /\ ~Running(jobs[who].to)
          /\ \/ tabs' = tabs /\ JobIs(who, Idle)
             \/ /\ jobs[who].to \in procs
                /\ \A q \in Rows \ {jobs[who].to} : tabs'[q] = tabs[q]
                /\ JobIs(who, Idle) \/ JobIs(who, [kind |-> "swap", from |-> jobs[who].from])
      BY <1>1, <1>6, ReturnsEffects
    <3>2. QED BY <3>1 DEF JobIs, Idle, Running
  <2>2. \A q \in Rows : Closing(q)' => Closing(q) BY <1>2, <2>1 DEF Closing, Other
  <2>3. QED BY <1>1, <1>3, <1>4, <1>5, <2>1, <2>2 DEF Inserted, Fresh, Blank, Marked
<1>7. CASE Swap(who)
  <2>1. jobs[who].from \in Rows BY <1>1, <1>7 DEF TypeOK, Swap, Jobs
  <2>2. /\ \A q \in Rows : tabs'[q].kind \in {tabs[q].kind, "none"}
        /\ JobIs(who, Idle)
    BY <1>1, <1>7, <2>1, Begins DEF TypeOK, Swap, Removed, NoTab
  <2>3. \A q \in Rows : Closing(q)' => Closing(q) BY <1>2, <2>2 DEF Closing, Other, JobIs, Idle
  <2>4. QED BY <1>1, <1>3, <1>4, <1>5, <2>2, <2>3 DEF Inserted, Fresh, Blank, Marked
<1>8. QED BY <1>2, <1>6, <1>7

\* A step of the user or of the start that begins a creation, or none.
LEMMA BeginSteady ==
  ASSUME Steady, app = "up", boot.stage # "list", boot'.stage # "list",
         UNCHANGED <<db, app, procs, acks>>, NEW b \in Unused, NEW resumes \in BOOLEAN,
         calls' = calls \/ Created(b, resumes),
         \A q \in Rows : tabs'[q].kind \in {tabs[q].kind, "none"},
         \A q \in Rows : Closing(q)' => Closing(q),
         boot'.todo \subseteq boot.todo, boot'.crashed \subseteq boot.crashed
  PROVE  Inserted' /\ Fresh' /\ Blank'
<1>1. TypeOK /\ Inserted /\ Fresh /\ Blank BY DEF Steady
<1>2. \A d \in calls : d.row \in Rows /\ d.row # b BY <1>1, CallIs DEF TypeOK, Unused
<1>3. b \in Rows /\ db[b].status = "none" BY DEF Unused
<1>4. Inserted' BY <1>1, <1>2, <1>3 DEF Inserted, Created, Marked, Creates
<1>5. Fresh'
  <2>1. PICK d : \/ calls' = calls
                 \/ calls' = calls \cup {d} /\ d.op = "insert" /\ d.row = b
    BY DEF Created
  <2>2. b \notin procs /\ db[b].msgs = {} /\ ~db[b].cli /\ tabs[b].kind = "none" /\ b \notin Marked
          /\ ~Closing(b)
    BY <1>1, <1>3 DEF Inserted
  <2>3. Marked' \subseteq Marked BY DEF Marked
  <2>4. ASSUME NEW c \in calls', Creates(c)
        PROVE  /\ \A e \in calls' : e.row = c.row => e = c
               /\ c.row \in Rows /\ c.row \notin procs /\ db[c.row].msgs = {}
               /\ c.op # "spawn" => ~db[c.row].cli
               /\ tabs[c.row].kind = "none" /\ c.row \notin Marked /\ ~Closing(c.row)
    BY <1>1, <1>2, <1>3, <2>1, <2>2, <2>4 DEF Fresh
  <2>5. \A q \in Rows : tabs[q].kind = "none" => tabs'[q].kind = "none" OBVIOUS
  <2>6. QED BY <2>3, <2>4, <2>5 DEF Fresh
<1>6. QED BY <1>4, <1>5 DEF Blank

LEMMA UserSteady ==
  ASSUME Steady, New \/ CloseAsks \/ CloseReturns PROVE Inserted' /\ Fresh' /\ Blank'
<1>1. TypeOK /\ Inserted /\ Fresh /\ Blank BY DEF Steady
<1>2. \A d \in calls : d.row \in Rows BY <1>1, CallIs DEF TypeOK
<1>3. CASE New
  <2>1. PICK b \in Unused : Begin("user", [kind |-> "new", to |-> b]) /\ calls' = Create(b, FALSE)
    BY <1>3 DEF New
  <2>2. b \in Rows BY DEF Unused
  <2>3. Created(b, FALSE) BY <2>1, <2>2, Creating
  <2>4. \A q \in Rows : ~Closing(q)' BY <1>1, <2>1, Begins DEF Closing, JobIs
  <2>5. QED BY <1>3, <2>3, <2>4, BeginSteady DEF New, AtLeisure
<1>4. CASE CloseAsks
  <2> DEFINE r == jobs["user"].from
             d == [op |-> "close", row |-> r, known |-> r \in ids]
  <2>1. r \in Rows /\ jobs["user"].kind = "saving" BY <1>1, <1>4 DEF TypeOK, CloseAsks, Jobs
  <2>2. JobIs("user", [kind |-> "closing", from |-> r]) BY <1>1, <1>4, Begins DEF CloseAsks
  <2>3. calls' = calls \cup {d} /\ d.row = r /\ d.op = "close" BY <1>4 DEF CloseAsks
  <2>4. app = "up" /\ procs' \subseteq procs /\ UNCHANGED <<db, app, ids, acks, wake, tabs, boot, sent>>
    BY <1>4 DEF CloseAsks
  <2>5. \A q \in Rows : (Closing(q)' <=> q = r) /\ (Closing(q) <=> q = r)
    BY <2>1, <2>2 DEF Closing, JobIs
  <2>6. boot.stage # "list" BY <1>1, <2>1, <2>4 DEF Blank, NoJobs, Idle
  <2> HIDE DEF r, d
  <2>7. Inserted' BY <1>1, <1>2, <2>1, <2>3, <2>4, <2>5 DEF Inserted, Marked
  <2>8. Fresh' BY <1>1, <1>2, <2>1, <2>3, <2>4, <2>5 DEF Fresh, Inserted, Creates, Marked
  <2>9. QED BY <2>4, <2>6, <2>7, <2>8 DEF Blank
<1>5. CASE CloseReturns
  <2>1. jobs["user"].from \in Rows /\ jobs["user"].kind = "closing"
    BY <1>1, <1>5 DEF TypeOK, CloseReturns, Jobs
  <2>2. \A q \in Rows : tabs'[q].kind \in {tabs[q].kind, "none"} /\ ~Closing(q)'
    BY <1>1, <1>5, <2>1, Begins DEF TypeOK, CloseReturns, Removed, NoTab, Closing, JobIs, Idle
  <2>3. boot.stage # "list" BY <1>1, <1>5, <2>1 DEF Blank, NoJobs, Idle, CloseReturns
  <2>4. QED BY <1>1, <1>2, <1>5, <2>2, <2>3 DEF CloseReturns, Inserted, Fresh, Blank, Marked
<1>6. QED BY <1>3, <1>4, <1>5

LEMMA ResumeSteady ==
  ASSUME Steady, app = "up", boot.stage # "list", boot'.stage # "list",
         UNCHANGED <<db, app, procs, acks>>, NEW who \in {"user", "start"}, NEW r \in Rows,
         Resume(who, r), boot'.todo \subseteq boot.todo, boot'.crashed \subseteq boot.crashed
  PROVE  Inserted' /\ Fresh' /\ Blank'
<1>1. TypeOK /\ Inserted /\ Fresh /\ Blank BY DEF Steady
<1>2. \A q \in Rows : tabs'[q].kind \in {tabs[q].kind, "none"}
  <2>1. tabs'[r] \in {tabs[r], NoTab} /\ \A q \in Rows \ {r} : tabs'[q] = tabs[q]
    BY <1>1, ResumeEffects
  <2>2. QED BY <2>1 DEF NoTab
<1>3. CASE calls' = calls /\ jobs' = jobs
  <2>1. /\ \A q \in Rows : Closing(q)' <=> Closing(q)
        /\ Marked' \subseteq Marked
    BY <1>3 DEF Closing, Marked
  <2>2. QED BY <1>1, <1>2, <1>3, <2>1, Callers DEF Inserted, Fresh, Blank
<1>4. CASE \E b \in Unused : /\ Created(b, TRUE)
                             /\ JobIs(who, [kind |-> "resume", from |-> r, to |-> b,
                                            msgs |-> tabs[r].msgs])
  <2>1. PICK b \in Unused : /\ Created(b, TRUE)
                            /\ JobIs(who, [kind |-> "resume", from |-> r, to |-> b,
                                           msgs |-> tabs[r].msgs])
    BY <1>4
  <2>2. \A q \in Rows : Closing(q)' => Closing(q) BY <2>1 DEF Closing, JobIs, Other
  <2>3. QED BY <1>2, <2>1, <2>2, BeginSteady
<1>5. QED BY <1>1, <1>3, <1>4, ResumeEffects

LEMMA RowSteady ==
  ASSUME Steady, NEW r \in Rows,
         \/ Acknowledge(r) \/ CliReports(r)
         \/ ResumeTab(r) \/ ResumeListed(r) \/ Close(r)
         \/ Write(r) \/ Flush(r) \/ Restore(r)
  PROVE  Inserted' /\ Fresh' /\ Blank'
<1>1. TypeOK /\ Inserted /\ Fresh /\ Blank BY DEF Steady
<1>2. \A d \in calls : d.row \in Rows BY <1>1, CallIs DEF TypeOK
<1>3. CASE Acknowledge(r)
  <2>1. UNCHANGED <<app, procs, ids, calls, wake, tabs, boot, jobs, sent>> BY <1>3 DEF Acknowledge
  <2>2. \A q \in Rows : /\ (db'[q].status = "none") <=> (db[q].status = "none")
                        /\ db'[q].cli = db[q].cli /\ db'[q].msgs = db[q].msgs
                        /\ db'[q].was_open \in {db[q].was_open, FALSE}
    BY <1>1, <1>3, AckEffects DEF RowIs
  <2>3. Marked' \subseteq Marked BY <1>1, <1>3, <2>1, AckEffects DEF Marked
  <2>4. Inserted' /\ Fresh' BY <1>1, <1>2, <2>1, <2>2, <2>3, BareSteady
  <2>5. QED BY <1>1, <2>1, <2>4 DEF Blank, NoJobs
<1>4. CASE CliReports(r)
  <2>1. UNCHANGED <<app, procs, calls, acks, wake, tabs, boot, jobs, sent>> BY <1>4 DEF CliReports
  <2>2. \A q \in Rows : /\ db'[q].status = db[q].status /\ db'[q].msgs = db[q].msgs
                        /\ db'[q].was_open = db[q].was_open
                        /\ db'[q].cli = db[q].cli \/ q \in procs
    BY <1>1, <1>4, ReportEffects DEF RowIs
  <2>3. Inserted' BY <1>1, <1>2, <2>1, <2>2 DEF Inserted, Marked, Closing
  <2>4. Fresh' BY <1>1, <1>2, <2>1, <2>2 DEF Fresh, Creates, Marked, Closing
  <2>5. QED BY <1>1, <2>1, <2>3, <2>4 DEF Blank, NoJobs
<1>5. CASE ResumeTab(r)
  BY <1>5, ResumeSteady DEF ResumeTab, AtLeisure
<1>6. CASE ResumeListed(r)
  <2>1. PICK b \in Unused : /\ Begin("user", [kind |-> "listed", from |-> r, to |-> b])
                            /\ calls' = Create(b, TRUE)
    BY <1>6 DEF ResumeListed
  <2>2. b \in Rows BY DEF Unused
  <2>3. Created(b, TRUE) BY <2>1, <2>2, Creating
  <2>4. \A q \in Rows : ~Closing(q)' BY <1>1, <2>1, Begins DEF Closing, JobIs
  <2>5. QED BY <1>6, <2>3, <2>4, BeginSteady DEF ResumeListed, AtLeisure
<1>7. CASE Close(r)
  <2>1. /\ app = "up" /\ boot.stage # "list" /\ tabs[r].kind # "none"
        /\ UNCHANGED <<app, procs, ids, calls, acks, wake, tabs, boot, sent>>
    BY <1>7 DEF Close, AtLeisure, MayClose
  <2>2. \A q \in Rows : Closing(q)' <=> q = r BY <1>1, <1>7, Begins DEF Close, Closing, JobIs
  <2>3. \A q \in Rows : /\ db'[q].status = db[q].status /\ db'[q].cli = db[q].cli
                        /\ db'[q].was_open = db[q].was_open
                        /\ q # r => db'[q].msgs \subseteq db[q].msgs
    BY <1>1, <1>7, SavedEffects DEF Close
  <2>4. Inserted' BY <1>1, <1>2, <2>1, <2>2, <2>3 DEF Inserted, Marked
  <2>5. Fresh' BY <1>1, <1>2, <2>1, <2>2, <2>3 DEF Inserted, Fresh, Creates, Marked
  <2>6. QED BY <2>1, <2>4, <2>5 DEF Blank
<1>8. CASE Write(r)
  <2>1. /\ UNCHANGED <<db, app, procs, ids, calls, acks, wake, boot, jobs>>
        /\ \A q \in Rows : tabs'[q].kind = tabs[q].kind
    BY <1>1, <1>8 DEF Write, TypeOK
  <2>2. QED BY <1>1, <1>2, <2>1 DEF Inserted, Fresh, Blank, Marked, Closing, NoJobs
<1>9. CASE Flush(r)
  <2>1. /\ app = "up" /\ tabs[r].kind # "none"
        /\ UNCHANGED <<app, procs, ids, calls, acks, wake, tabs, boot, jobs, sent>>
    BY <1>9 DEF Flush
  <2>2. \A q \in Rows : /\ db'[q].status = db[q].status /\ db'[q].cli = db[q].cli
                        /\ db'[q].was_open = db[q].was_open
                        /\ q # r => db'[q].msgs \subseteq db[q].msgs
    BY <1>1, <1>9, SavedEffects DEF Flush
  <2>3. Inserted' BY <1>1, <1>2, <2>1, <2>2 DEF Inserted, Marked, Closing
  <2>4. \A d \in calls : Creates(d) => d.row # r BY <1>1, <2>1 DEF Fresh
  <2>5. Fresh' BY <1>1, <1>2, <2>1, <2>2, <2>4 DEF Fresh, Marked, Closing
  <2>6. QED BY <1>1, <2>1, <2>3, <2>5 DEF Blank
<1>10. CASE Restore(r)
  <2>1. /\ r \in boot.todo /\ boot'.todo \subseteq boot.todo /\ boot'.crashed = boot.crashed
        /\ app = "up" /\ boot'.stage = "restore"
        /\ UNCHANGED <<db, app, procs, ids, calls, acks, wake, jobs, sent>>
        /\ \A q \in Rows : tabs'[q].kind = tabs[q].kind \/ q = r
    BY <1>1, <1>10 DEF Restore, TypeOK, Opened
  <2>2. Inserted' BY <1>1, <1>2, <2>1 DEF Inserted, Marked, Closing
  <2>3. Fresh' BY <1>1, <1>2, <2>1 DEF Fresh, Marked, Closing
  <2>4. QED BY <2>1, <2>2, <2>3 DEF Blank
<1>11. QED BY <1>3, <1>4, <1>5, <1>6, <1>7, <1>8, <1>9, <1>10

LEMMA StartSteady ==
  ASSUME Steady, List \/ AckAsks \/ AckReturns \/ AutoResume PROVE Inserted' /\ Fresh' /\ Blank'
<1>1. TypeOK /\ Inserted /\ Fresh /\ Blank BY DEF Steady
<1>2. \A d \in calls : d.row \in Rows BY <1>1, CallIs DEF TypeOK
<1>3. CASE List
  <2>1. UNCHANGED <<app, procs, ids, calls, acks, tabs, jobs, sent>> BY <1>3 DEF List
  <2>2. \A q \in Crashed : db[q].was_open /\ db[q].msgs # {} BY DEF Crashed
  <2>3. \A q \in Rows : q \in Marked' => q \in Marked \/ q \in procs \/ q \in Crashed
    <3>1. boot'.live \subseteq procs /\ boot'.todo \subseteq Crashed \cup boot'.live
            /\ boot'.crashed \subseteq Crashed
      BY <1>1, <1>3, ListEffects
    <3>2. QED BY <2>1, <3>1 DEF Marked
  <2>4. \A q \in Rows : q \in Marked' => db[q].status # "none" /\ (q \in Marked \/ q \in procs \/ db[q].msgs # {})
    <3>1. app = "up" BY <1>3 DEF List
    <3>2. QED BY <1>1, <2>2, <2>3, <3>1 DEF Inserted
  <2>5. \A q \in Rows : /\ db'[q].status = db[q].status
                        /\ db'[q].cli = db[q].cli /\ db'[q].msgs = db[q].msgs
                        /\ db'[q].was_open \in {db[q].was_open, FALSE}
    BY <1>1, <1>3, ListEffects DEF Resaved
  <2>6. Inserted' BY <1>1, <1>2, <2>1, <2>4, <2>5 DEF Inserted, Closing
  <2>7. Fresh' BY <1>1, <1>2, <2>1, <2>4, <2>5 DEF Fresh, Closing
  <2>8. QED BY <1>1, <1>3, <2>6, <2>7, ListEffects DEF Blank
<1>4. CASE AckAsks
  <2>1. /\ app = "up" /\ UNCHANGED <<db, app, procs, ids, calls, wake, tabs, jobs, sent>>
        /\ boot'.stage = "ack" /\ boot'.todo = boot.todo /\ boot'.crashed = boot.crashed
        /\ acks' \subseteq acks \cup boot.crashed
    BY <1>1, <1>4 DEF AckAsks, TypeOK
  <2>2. QED BY <1>1, <1>2, <2>1 DEF Inserted, Fresh, Blank, Marked, Closing
<1>5. CASE AckReturns
  <2>1. /\ app = "up" /\ UNCHANGED <<db, app, procs, ids, calls, acks, wake, tabs, jobs, sent>>
        /\ boot'.stage # "list" /\ boot'.todo \subseteq boot.todo
        /\ boot'.crashed \subseteq boot.crashed
    BY <1>1, <1>5 DEF AckReturns, TypeOK, Done, Start
  <2>2. QED BY <1>1, <1>2, <2>1 DEF Inserted, Fresh, Blank, Marked, Closing
<1>6. CASE AutoResume
  <2>1. PICK r \in boot.crashed : IF tabs[r].kind = "paused"
                                  THEN Resume("start", r) ELSE UNCHANGED <<calls, tabs, jobs>>
    BY <1>6 DEF AutoResume
  <2>2. /\ app = "up" /\ boot.stage = "resume" /\ UNCHANGED <<db, app, procs, ids, acks, wake, sent>>
        /\ boot'.stage = "done" /\ boot'.todo = {} /\ boot'.crashed = {} /\ r \in Rows
    BY <1>1, <1>6 DEF AutoResume, Done, Start, TypeOK
  <2>3. CASE Resume("start", r) BY <2>2, <2>3, ResumeSteady
  <2>4. CASE UNCHANGED <<calls, tabs, jobs>>
    BY <1>1, <1>2, <2>2, <2>4 DEF Inserted, Fresh, Blank, Marked, Closing
  <2>5. QED BY <2>1, <2>3, <2>4
<1>7. QED BY <1>3, <1>4, <1>5, <1>6

LEMMA EndSteady ==
  ASSUME Steady, Quit \/ PromoteAll \/ ClearAll \/ Restart \/ Reload
  PROVE  Inserted' /\ Fresh' /\ Blank'
<1>1. TypeOK /\ Inserted /\ Fresh /\ Blank BY DEF Steady
<1>2. \A d \in calls : d.row \in Rows BY <1>1, CallIs DEF TypeOK
<1>3. CASE Quit
  <2>1. WindowIsNew /\ app' = "draining" /\ procs' = {} /\ UNCHANGED <<db, calls, acks>>
    BY <1>3 DEF Quit
  <2>2. QED BY <1>1, <1>2, <2>1 DEF Inserted, Fresh, Blank
<1>4. CASE PromoteAll
  <2>1. app' # "up" /\ UNCHANGED <<procs, calls>> BY <1>4 DEF PromoteAll
  <2>2. QED BY <1>1, <1>2, <1>4, <2>1, PromoteEffects DEF Inserted, Fresh, Blank, Resaved
<1>5. CASE ClearAll
  <2>1. app' # "up" /\ UNCHANGED <<procs, calls>> BY <1>5 DEF ClearAll
  <2>2. QED BY <1>1, <1>2, <1>5, <2>1, ClearEffects DEF Inserted, Fresh, Blank, Resaved
<1>6. CASE Restart
  <2>1. WindowIsNew /\ procs' = {} /\ calls' = {} /\ acks' = {} /\ db' = db BY <1>6 DEF Restart
  <2>2. QED
    BY <1>1, <2>1, WindowEffects DEF Inserted, Fresh, Blank, Marked, Closing, NoTab, Idle
<1>7. CASE Reload
  <2>1. app = "up" /\ WindowIsNew /\ UNCHANGED <<db, app, procs, calls, acks>> BY <1>7 DEF Reload
  <2>2. Blank' BY <2>1, WindowEffects DEF Blank, NoTab
  <2>3. \A q \in Rows : tabs'[q].kind = "none" /\ ~Closing(q)' /\ Marked' \subseteq Marked
    BY <2>1, WindowEffects DEF NoTab, Closing, Idle, Marked
  <2>4. QED BY <1>1, <1>2, <2>1, <2>2, <2>3 DEF Inserted, Fresh
<1>8. QED BY <1>3, <1>4, <1>5, <1>6, <1>7

LEMMA NextSteady == Steady /\ [Next]_vars => Steady'
<1>1. ASSUME Steady, UNCHANGED vars PROVE Steady'
  BY <1>1 DEF vars, Steady, TypeOK, Inserted, Fresh, Blank, Marked, Closing
<1>2. ASSUME Steady, Next PROVE Steady'
  <2>1. TypeOK' BY <1>2, NextTypes DEF Steady
  <2>2. Inserted' /\ Fresh' /\ Blank'
    BY <1>2, CallSteady, JobsSteady, UserSteady, RowSteady, StartSteady, EndSteady DEF Next
  <2>3. QED BY <2>1, <2>2 DEF Steady
<1>3. QED BY <1>1, <1>2

-----------------------------------------------------------------------------
(* What was saved is kept *)

Kept(r) == db[r].was_open \/ db[r].status = "closed"

SavedIsKept == \A r \in Rows : db[r].msgs # {} =>
    /\ Kept(r)
    /\ app \in {"promoted", "cleared"} => db[r].status = "closed"

UnflagsClosed == \A c \in calls : c.op = "unflag" => db[c.row].status = "closed"

UsedIsKept == app = "up" =>
    /\ \A r \in Rows : r \in procs \/ tabs[r].kind # "none" \/ r \in boot.todo => Kept(r)
    /\ \A c \in calls : c.op \in {"token", "spawn"} => Kept(c.row)

\* Of every session that survived a reload something is saved.
Survivors == app = "up" /\ boot.stage = "list" =>
    /\ \A c \in calls : c.op \in {"close", "unflag"}
    /\ \A r \in procs : db[r].msgs # {}

Keeping == SavedIsKept /\ UnflagsClosed /\ UsedIsKept /\ Survivors

LEMMA InitKeeps == Init => Keeping
BY DEF Init, Keeping, SavedIsKept, UnflagsClosed, UsedIsKept, Survivors, NoTab, Start

LEMMA CallKeeps ==
  ASSUME Steady, Keeping, CallStep PROVE Keeping'
<1>1. PICK c \in calls : \/ Insert(c) \/ Flag(c) \/ Token(c) \/ Spawn(c)
                         \/ CloseDetails(c) \/ Unflag(c)
  BY DEF CallStep
<1>2. UNCHANGED <<app, acks, wake, tabs, boot, jobs, sent>> BY DEF CallStep
<1>3. TypeOK /\ Inserted /\ Fresh BY DEF Steady
<1>4. SavedIsKept /\ UnflagsClosed /\ UsedIsKept /\ Survivors BY DEF Keeping
<1>5. procs \subseteq Rows /\ \A d \in calls : d.row \in Rows BY <1>3, Callers DEF TypeOK
<1>6. CASE Insert(c)
  <2>1. /\ c.op = "insert" /\ Moved(c, "flag")
        /\ RowIs(c.row, "open", db[c.row].cli, db[c.row].was_open)
        /\ procs' = procs
    BY <1>3, <1>6, CallEffects
  <2>2. SavedIsKept' BY <1>2, <1>3, <1>4, <1>5, <2>1 DEF SavedIsKept, Inserted, Fresh, UnflagsClosed, Kept, RowIs, Creates
  <2>3. UnflagsClosed' BY <1>3, <1>4, <1>5, <2>1 DEF UnflagsClosed, Inserted, Moved, RowIs
  <2>4. UsedIsKept' BY <1>2, <1>3, <1>4, <1>5, <2>1 DEF UsedIsKept, Inserted, Fresh, UnflagsClosed, Kept, RowIs, Moved, Creates
  <2>5. Survivors' BY <1>2, <1>4, <1>5, <2>1 DEF Survivors, RowIs, Moved
  <2>6. QED BY <2>2, <2>3, <2>4, <2>5 DEF Keeping
<1>7. CASE Flag(c)
  <2>1. /\ c.op = "flag" /\ Moved(c, "token")
        /\ RowIs(c.row, db[c.row].status, db[c.row].cli, TRUE)
        /\ procs' = procs
    BY <1>3, <1>7, CallEffects
  <2>2. SavedIsKept' BY <1>2, <1>3, <1>4, <1>5, <2>1 DEF SavedIsKept, Inserted, Fresh, UnflagsClosed, Kept, RowIs, Creates
  <2>3. UnflagsClosed' BY <1>3, <1>4, <1>5, <2>1 DEF UnflagsClosed, Inserted, Moved, RowIs
  <2>4. UsedIsKept' BY <1>2, <1>3, <1>4, <1>5, <2>1 DEF UsedIsKept, Inserted, Fresh, UnflagsClosed, Kept, RowIs, Moved, Creates
  <2>5. Survivors' BY <1>2, <1>4, <1>5, <2>1 DEF Survivors, RowIs, Moved
  <2>6. QED BY <2>2, <2>3, <2>4, <2>5 DEF Keeping
<1>8. CASE Token(c)
  <2>1. /\ c.op = "token" /\ Moved(c, "spawn")
        /\ RowIs(c.row, db[c.row].status, c.resumes, db[c.row].was_open)
        /\ procs' = procs
    BY <1>3, <1>8, CallEffects
  <2>2. SavedIsKept' BY <1>2, <1>3, <1>4, <1>5, <2>1 DEF SavedIsKept, Inserted, Fresh, UnflagsClosed, Kept, RowIs, Creates
  <2>3. UnflagsClosed' BY <1>3, <1>4, <1>5, <2>1 DEF UnflagsClosed, Inserted, Moved, RowIs
  <2>4. UsedIsKept' BY <1>2, <1>3, <1>4, <1>5, <2>1 DEF UsedIsKept, Inserted, Fresh, UnflagsClosed, Kept, RowIs, Moved, Creates
  <2>5. Survivors' BY <1>2, <1>4, <1>5, <2>1 DEF Survivors, RowIs, Moved
  <2>6. QED BY <2>2, <2>3, <2>4, <2>5 DEF Keeping
<1>9. CASE Spawn(c)
  <2>1. /\ c.op = "spawn" /\ calls' = calls \ {c}
        /\ RowIs(c.row, db[c.row].status, db[c.row].cli, db[c.row].was_open)
        /\ procs \subseteq procs' /\ procs' \subseteq procs \cup {c.row}
    BY <1>3, <1>9, CallEffects
  <2>2. SavedIsKept' BY <1>2, <1>3, <1>4, <1>5, <2>1 DEF SavedIsKept, Inserted, Fresh, UnflagsClosed, Kept, RowIs, Creates
  <2>3. UnflagsClosed' BY <1>3, <1>4, <1>5, <2>1 DEF UnflagsClosed, Inserted, Moved, RowIs
  <2>4. UsedIsKept' BY <1>2, <1>3, <1>4, <1>5, <2>1 DEF UsedIsKept, Inserted, Fresh, UnflagsClosed, Kept, RowIs, Moved, Creates
  <2>5. Survivors' BY <1>2, <1>4, <1>5, <2>1 DEF Survivors, RowIs, Moved
  <2>6. QED BY <2>2, <2>3, <2>4, <2>5 DEF Keeping
<1>10. CASE CloseDetails(c)
  <2>1. /\ c.op = "close" /\ Moved(c, "unflag")
        /\ RowIs(c.row, "closed", c.known, db[c.row].was_open)
        /\ procs' = procs
    BY <1>3, <1>10, CallEffects
  <2>2. SavedIsKept' BY <1>2, <1>3, <1>4, <1>5, <2>1 DEF SavedIsKept, Inserted, Fresh, UnflagsClosed, Kept, RowIs, Creates
  <2>3. UnflagsClosed' BY <1>3, <1>4, <1>5, <2>1 DEF UnflagsClosed, Inserted, Moved, RowIs
  <2>4. UsedIsKept' BY <1>2, <1>3, <1>4, <1>5, <2>1 DEF UsedIsKept, Inserted, Fresh, UnflagsClosed, Kept, RowIs, Moved, Creates
  <2>5. Survivors' BY <1>2, <1>4, <1>5, <2>1 DEF Survivors, RowIs, Moved
  <2>6. QED BY <2>2, <2>3, <2>4, <2>5 DEF Keeping
<1>11. CASE Unflag(c)
  <2>1. /\ c.op = "unflag" /\ calls' = calls \ {c}
        /\ RowIs(c.row, db[c.row].status, db[c.row].cli, FALSE)
        /\ procs' = procs
    BY <1>3, <1>11, CallEffects
  <2>2. SavedIsKept' BY <1>2, <1>3, <1>4, <1>5, <2>1 DEF SavedIsKept, Inserted, Fresh, UnflagsClosed, Kept, RowIs, Creates
  <2>3. UnflagsClosed' BY <1>3, <1>4, <1>5, <2>1 DEF UnflagsClosed, Inserted, Moved, RowIs
  <2>4. UsedIsKept' BY <1>2, <1>3, <1>4, <1>5, <2>1 DEF UsedIsKept, Inserted, Fresh, UnflagsClosed, Kept, RowIs, Moved, Creates
  <2>5. Survivors' BY <1>2, <1>4, <1>5, <2>1 DEF Survivors, RowIs, Moved
  <2>6. QED BY <2>2, <2>3, <2>4, <2>5 DEF Keeping
<1>12. QED BY <1>1, <1>6, <1>7, <1>8, <1>9, <1>10, <1>11

LEMMA JobsKeep ==
  ASSUME Steady, Keeping, GoesOn PROVE Keeping'
<1>1. TypeOK /\ Keeping BY DEF Steady
<1>2. PICK who \in {"user", "start"} : Returns(who) \/ Swap(who) BY DEF GoesOn
<1>3. app = "up" /\ UNCHANGED <<db, app, procs, ids, calls, acks, wake, boot, sent>> BY DEF GoesOn
<1>4. \A q \in Rows : tabs'[q].kind \in {tabs[q].kind, "none"} \/ q \in procs
  <2>1. CASE Returns(who) BY <1>1, <2>1, ReturnsEffects
  <2>2. CASE Swap(who)
    <3>1. jobs[who].from \in Rows BY <1>1, <2>2 DEF TypeOK, Swap, Jobs
    <3>2. QED BY <1>1, <2>2, <3>1 DEF TypeOK, Swap, Removed, NoTab
  <2>3. QED BY <1>2, <2>1, <2>2
<1>5. QED
  BY <1>1, <1>3, <1>4 DEF Keeping, SavedIsKept, UnflagsClosed, UsedIsKept, Survivors, Kept

\* A step of the user or of the start that begins a creation, or none.
LEMMA BeginKeeps ==
  ASSUME Steady, Keeping, app = "up", boot.stage # "list", boot'.stage # "list",
         UNCHANGED <<db, app, procs>>, NEW b \in Unused, NEW resumes \in BOOLEAN,
         calls' = calls \/ Created(b, resumes),
         \A q \in Rows : tabs'[q].kind \in {tabs[q].kind, "none"},
         boot'.todo \subseteq boot.todo
  PROVE  Keeping'
<1>1. PICK d : calls' = calls \/ (calls' = calls \cup {d} /\ d.op = "insert")
  BY DEF Created
<1>2. QED BY <1>1 DEF Keeping, SavedIsKept, UnflagsClosed, UsedIsKept, Survivors, Kept

LEMMA UserKeeps ==
  ASSUME Steady, Keeping, New \/ CloseAsks \/ CloseReturns PROVE Keeping'
<1>1. TypeOK /\ Inserted /\ Blank BY DEF Steady
<1>2. CASE New
  <2>1. PICK b \in Unused : calls' = Create(b, FALSE) BY <1>2 DEF New
  <2>2. b \in Rows BY DEF Unused
  <2>3. Created(b, FALSE) BY <2>1, <2>2, Creating
  <2>4. QED BY <1>2, <2>3, BeginKeeps DEF New, AtLeisure
<1>3. CASE CloseAsks
  <2>1. /\ app = "up" /\ UNCHANGED <<db, app, tabs, boot>> /\ procs' \subseteq procs
        /\ \A c \in calls' : c \in calls \/ c.op = "close"
    BY <1>3 DEF CloseAsks
  <2>2. QED BY <2>1 DEF Keeping, SavedIsKept, UnflagsClosed, UsedIsKept, Survivors, Kept
<1>4. CASE CloseReturns
  <2>1. jobs["user"].from \in Rows BY <1>1, <1>4 DEF TypeOK, CloseReturns, Jobs
  <2>2. /\ app = "up" /\ UNCHANGED <<db, app, procs, calls, boot>>
        /\ \A q \in Rows : tabs'[q].kind \in {tabs[q].kind, "none"}
    BY <1>1, <1>4, <2>1 DEF TypeOK, CloseReturns, Removed, NoTab
  <2>3. QED BY <2>2 DEF Keeping, SavedIsKept, UnflagsClosed, UsedIsKept, Survivors, Kept
<1>5. QED BY <1>2, <1>3, <1>4

LEMMA ResumeKeeps ==
  ASSUME Steady, Keeping, app = "up", boot.stage # "list", boot'.stage # "list",
         UNCHANGED <<db, app, procs>>, NEW who \in {"user", "start"}, NEW r \in Rows,
         Resume(who, r), boot'.todo \subseteq boot.todo
  PROVE  Keeping'
<1>1. TypeOK BY DEF Steady
<1>2. \A q \in Rows : tabs'[q].kind \in {tabs[q].kind, "none"}
  <2>1. tabs'[r] \in {tabs[r], NoTab} /\ \A q \in Rows \ {r} : tabs'[q] = tabs[q]
    BY <1>1, ResumeEffects
  <2>2. QED BY <2>1 DEF NoTab
<1>3. calls' = calls \/ \E b \in Unused : Created(b, TRUE) BY <1>1, ResumeEffects
<1>4. CASE calls' = calls
  BY <1>2, <1>4 DEF Keeping, SavedIsKept, UnflagsClosed, UsedIsKept, Survivors, Kept
<1>5. CASE \E b \in Unused : Created(b, TRUE) BY <1>2, <1>5, BeginKeeps
<1>6. QED BY <1>3, <1>4, <1>5

\* Saving what a tab shows.
LEMMA SavingKeeps ==
  ASSUME Steady, Keeping, app = "up", NEW r \in Rows, tabs[r].kind # "none", boot.stage # "list",
         UNCHANGED <<app, procs, calls, tabs, boot>>, db' = Saved(r, tabs[r].msgs)
  PROVE  Keeping'
<1>1. TypeOK BY DEF Steady
<1>2. \A q \in Rows : /\ db'[q].status = db[q].status /\ db'[q].was_open = db[q].was_open
                      /\ q # r => db'[q].msgs \subseteq db[q].msgs
  BY <1>1, SavedEffects
<1>3. \A d \in calls : d.row \in Rows BY <1>1, Callers
<1>4. QED BY <1>2, <1>3 DEF Keeping, SavedIsKept, UnflagsClosed, UsedIsKept, Survivors, Kept

LEMMA RowKeeps ==
  ASSUME Steady, Keeping, NEW r \in Rows,
         \/ Acknowledge(r) \/ CliReports(r)
         \/ ResumeTab(r) \/ ResumeListed(r) \/ Close(r)
         \/ Write(r) \/ Flush(r) \/ Restore(r)
  PROVE  Keeping'
<1>1. TypeOK /\ Inserted /\ Blank BY DEF Steady
<1>2. procs \subseteq Rows /\ \A d \in calls : d.row \in Rows BY <1>1, Callers DEF TypeOK
<1>3. CASE Acknowledge(r)
  <2>1. UNCHANGED <<app, procs, calls, tabs, boot>> BY <1>3 DEF Acknowledge
  <2>2. \A q \in Rows : /\ Kept(q) => db'[q].was_open \/ db'[q].status = "closed"
                        /\ db'[q].msgs = db[q].msgs
                        /\ db[q].status = "closed" => db'[q].status = "closed"
    <3>1. db[r].status \in {"none", "open", "closed"} BY <1>1 DEF TypeOK
    <3>2. QED BY <1>1, <1>3, <3>1, AckEffects DEF RowIs, Kept, Inserted
  <2>3. SavedIsKept' /\ UsedIsKept' BY <1>2, <2>1, <2>2 DEF Keeping, SavedIsKept, UsedIsKept, Kept
  <2>4. QED BY <1>2, <2>1, <2>2, <2>3 DEF Keeping, UnflagsClosed, Survivors
<1>4. CASE CliReports(r)
  <2>1. UNCHANGED <<app, procs, calls, tabs, boot>> BY <1>4 DEF CliReports
  <2>2. \A q \in Rows : /\ db'[q].status = db[q].status /\ db'[q].msgs = db[q].msgs
                        /\ db'[q].was_open = db[q].was_open
    BY <1>1, <1>4, ReportEffects DEF RowIs
  <2>3. QED BY <1>2, <2>1, <2>2 DEF Keeping, SavedIsKept, UnflagsClosed, UsedIsKept, Survivors, Kept
<1>5. CASE ResumeTab(r)
  BY <1>5, ResumeKeeps DEF ResumeTab, AtLeisure
<1>6. CASE ResumeListed(r)
  <2>1. PICK b \in Unused : calls' = Create(b, TRUE) BY <1>6 DEF ResumeListed
  <2>2. b \in Rows BY DEF Unused
  <2>3. Created(b, TRUE) BY <2>1, <2>2, Creating
  <2>4. QED BY <1>6, <2>3, BeginKeeps DEF ResumeListed, AtLeisure
<1>7. CASE Close(r)
  <2>1. /\ app = "up" /\ boot.stage # "list" /\ tabs[r].kind # "none"
        /\ UNCHANGED <<app, procs, calls, tabs, boot>>
    BY <1>7 DEF Close, AtLeisure, MayClose
  <2>2. CASE db' = Saved(r, tabs[r].msgs) BY <2>1, <2>2, SavingKeeps
  <2>3. CASE db' = db
    BY <2>1, <2>3 DEF Keeping, SavedIsKept, UnflagsClosed, UsedIsKept, Survivors, Kept
  <2>4. QED BY <1>7, <2>2, <2>3 DEF Close
<1>8. CASE Write(r)
  <2>1. /\ UNCHANGED <<db, app, procs, calls, boot>>
        /\ \A q \in Rows : tabs'[q].kind = tabs[q].kind
    BY <1>1, <1>8 DEF Write, TypeOK
  <2>2. QED BY <2>1 DEF Keeping, SavedIsKept, UnflagsClosed, UsedIsKept, Survivors, Kept
<1>9. CASE Flush(r)
  <2>1. /\ app = "up" /\ tabs[r].kind # "none" /\ boot.stage # "list"
        /\ UNCHANGED <<app, procs, calls, tabs, boot>> /\ db' = Saved(r, tabs[r].msgs)
    BY <1>1, <1>9 DEF Flush, Blank
  <2>2. QED BY <2>1, SavingKeeps
<1>10. CASE Restore(r)
  <2>1. /\ r \in boot.todo /\ boot'.todo \subseteq boot.todo
        /\ app = "up" /\ boot'.stage = "restore"
        /\ UNCHANGED <<db, app, procs, calls>>
        /\ \A q \in Rows : tabs'[q].kind = tabs[q].kind \/ q = r
    BY <1>1, <1>10 DEF Restore, TypeOK, Opened
  <2>2. QED BY <2>1 DEF Keeping, SavedIsKept, UnflagsClosed, UsedIsKept, Survivors, Kept
<1>11. QED BY <1>3, <1>4, <1>5, <1>6, <1>7, <1>8, <1>9, <1>10

LEMMA StartKeeps ==
  ASSUME Steady, Keeping, List \/ AckAsks \/ AckReturns \/ AutoResume PROVE Keeping'
<1>1. TypeOK /\ Blank BY DEF Steady
<1>2. \A d \in calls : d.row \in Rows BY <1>1, Callers
<1>3. CASE List
  <2>1. app = "up" /\ boot.stage = "list" /\ UNCHANGED <<app, procs, calls, tabs>> BY <1>3 DEF List
  <2>2. \A q \in Crashed : db[q].was_open /\ db[q].msgs # {} BY DEF Crashed
  <2>3. \A q \in Rows : /\ db'[q].status = db[q].status /\ db'[q].msgs = db[q].msgs
                        /\ db[q].msgs # {} => db'[q].was_open = db[q].was_open
    BY <1>1, <1>3, ListEffects DEF Resaved
  <2>4. \A q \in Rows : q \in boot'.todo => q \in procs \/ q \in Crashed
    BY <1>1, <1>3, ListEffects
  <2>5. \A q \in Rows : q \in procs => db[q].msgs # {} BY <2>1 DEF Keeping, Survivors
  <2>6. \A q \in Rows : tabs[q].kind = "none" BY <1>1, <2>1 DEF Blank
  <2>7. SavedIsKept' BY <2>1, <2>3 DEF Keeping, SavedIsKept, Kept
  <2>8. UnflagsClosed' BY <1>2, <2>1, <2>3 DEF Keeping, UnflagsClosed
  <2>9. UsedIsKept'
    BY <2>1, <2>2, <2>3, <2>4, <2>5, <2>6 DEF Keeping, SavedIsKept, UsedIsKept, Survivors, Kept
  <2>10. Survivors' BY <1>1, <1>3, ListEffects DEF Survivors
  <2>11. QED BY <2>7, <2>8, <2>9, <2>10 DEF Keeping
<1>4. CASE AckAsks
  <2>1. /\ app = "up" /\ UNCHANGED <<db, app, procs, calls, tabs>>
        /\ boot'.stage = "ack" /\ boot'.todo = boot.todo
    BY <1>1, <1>4 DEF AckAsks, TypeOK
  <2>2. QED BY <2>1 DEF Keeping, SavedIsKept, UnflagsClosed, UsedIsKept, Survivors, Kept
<1>5. CASE AckReturns
  <2>1. /\ app = "up" /\ UNCHANGED <<db, app, procs, calls, tabs>>
        /\ boot'.stage # "list" /\ boot'.todo \subseteq boot.todo
    BY <1>1, <1>5 DEF AckReturns, TypeOK, Done, Start
  <2>2. QED BY <2>1 DEF Keeping, SavedIsKept, UnflagsClosed, UsedIsKept, Survivors, Kept
<1>6. CASE AutoResume
  <2>1. PICK r \in boot.crashed : IF tabs[r].kind = "paused"
                                  THEN Resume("start", r) ELSE UNCHANGED <<calls, tabs, jobs>>
    BY <1>6 DEF AutoResume
  <2>2. /\ app = "up" /\ boot.stage = "resume" /\ UNCHANGED <<db, app, procs>>
        /\ boot'.stage = "done" /\ boot'.todo = {} /\ r \in Rows
    BY <1>1, <1>6 DEF AutoResume, Done, Start, TypeOK
  <2>3. CASE Resume("start", r) BY <2>2, <2>3, ResumeKeeps
  <2>4. CASE UNCHANGED <<calls, tabs, jobs>>
    BY <2>2, <2>4 DEF Keeping, SavedIsKept, UnflagsClosed, UsedIsKept, Survivors, Kept
  <2>5. QED BY <2>1, <2>3, <2>4
<1>7. QED BY <1>3, <1>4, <1>5, <1>6

LEMMA EndKeeps ==
  ASSUME "idle" \notin Acts, Steady, Keeping, Quit \/ PromoteAll \/ ClearAll \/ Restart \/ Reload
  PROVE  Keeping'
<1>1. TypeOK /\ Inserted BY DEF Steady
<1>2. \A d \in calls : d.row \in Rows BY <1>1, Callers
<1>3. CASE Quit
  <2>1. app' = "draining" /\ procs' = {} /\ UNCHANGED <<db, calls>> BY <1>3 DEF Quit
  <2>2. QED BY <2>1 DEF Keeping, SavedIsKept, UnflagsClosed, UsedIsKept, Survivors, Kept
<1>4. CASE PromoteAll
  <2>1. app' = "promoted" /\ UNCHANGED <<procs, calls>> BY <1>4 DEF PromoteAll
  <2>2. SavedIsKept' BY <1>1, <1>4, <2>1, PromoteEffects DEF Keeping, SavedIsKept, Kept, Inserted, Resaved, TypeOK
  <2>3. QED BY <1>1, <1>2, <1>4, <2>1, <2>2, PromoteEffects
            DEF Keeping, UnflagsClosed, UsedIsKept, Survivors
<1>5. CASE ClearAll
  <2>1. app = "promoted" /\ app' = "cleared" /\ UNCHANGED <<procs, calls>> BY <1>5 DEF ClearAll
  <2>2. SavedIsKept' BY <1>1, <1>5, <2>1, ClearEffects DEF Keeping, SavedIsKept, Kept, Resaved
  <2>3. QED BY <1>1, <1>2, <1>5, <2>1, <2>2, ClearEffects
            DEF Keeping, UnflagsClosed, UsedIsKept, Survivors
<1>6. CASE Restart
  <2>1. WindowIsNew /\ app' = "up" /\ procs' = {} /\ calls' = {} /\ db' = db BY <1>6 DEF Restart
  <2>2. QED
    BY <2>1, WindowEffects DEF Keeping, SavedIsKept, UnflagsClosed, UsedIsKept, Survivors, Kept, NoTab
<1>7. CASE Reload
  <2>1. /\ app = "up" /\ WindowIsNew /\ UNCHANGED <<db, app, procs, calls>>
        /\ \A r \in procs : db[r].msgs # {}
        /\ \A c \in calls : c.op \in {"close", "unflag"}
    BY <1>7 DEF Reload
  <2>2. QED
    BY <2>1, WindowEffects DEF Keeping, SavedIsKept, UnflagsClosed, UsedIsKept, Survivors, Kept, NoTab
<1>8. QED BY <1>3, <1>4, <1>5, <1>6, <1>7

LEMMA NextKeeps ==
  ASSUME "idle" \notin Acts
  PROVE  Steady /\ Keeping /\ [Next]_vars => Keeping'
<1>1. ASSUME Keeping, UNCHANGED vars PROVE Keeping'
  BY <1>1 DEF vars, Keeping, SavedIsKept, UnflagsClosed, UsedIsKept, Survivors, Kept
<1>2. ASSUME Steady, Keeping, Next PROVE Keeping'
  BY <1>2, CallKeeps, JobsKeep, UserKeeps, RowKeeps, StartKeeps, EndKeeps DEF Next
<1>3. QED BY <1>1, <1>2

\* What is saved of a session is saved in a row that the next start looks at, for
\* any number of sessions (create_session, close_session, list_crashed_sessions,
\* acknowledge_crashed_sessions and the exit), as long as no window is reloaded
\* with a session nothing was saved of.
THEOREM SavedStaysFindable ==
  ASSUME "idle" \notin Acts
  PROVE  Spec => []SavedIsFindable
<1>1. Keeping => SavedIsFindable BY DEF Keeping, SavedIsKept, SavedIsFindable, Kept
<1>2. QED BY <1>1, InitSteady, InitKeeps, NextSteady, NextKeeps, PTL DEF Spec

-----------------------------------------------------------------------------
(* Live sessions stay flagged *)

Opens(w) == jobs[w].kind \in {"new", "resume", "listed"}

\* A session that a job waits for: nobody else touches it.
Reserved(r) ==
    /\ tabs[r].kind = "none" /\ r \notin Marked /\ ~Closing(r)
    /\ r \in procs => db[r].was_open
    /\ db[r].status = "none" => \E c \in calls : c.row = r
    /\ \A c \in calls : c.row = r => Creates(c) /\ (c.op \in {"token", "spawn"} => db[r].was_open)

\* A session in a live tab: only the user's closing touches it.
Free(r) ==
    /\ r \notin Marked
    /\ ~Closing(r) => db[r].was_open
    /\ \A c \in calls : c.row = r => User.kind = "closing" /\ User.from = r

Awaited == \A w \in {"user", "start"} : Opens(w) => Reserved(jobs[w].to)
Distinct == Opens("user") /\ Opens("start") => jobs["user"].to # jobs["start"].to
LiveIsFree == \A r \in Rows : tabs[r].kind = "live" => Free(r)

Flagging == app = "up" => Awaited /\ Distinct /\ LiveIsFree

LEMMA ToIsRow == ASSUME TypeOK, NEW w \in {"user", "start"}, Opens(w) PROVE jobs[w].to \in Rows
<1>1. jobs[w] \in Jobs BY DEF TypeOK
<1>2. QED BY <1>1 DEF Jobs, Opens

LEMMA NothingFlags ==
  ASSUME \A w \in {"user", "start"} : ~Opens(w), \A r \in Rows : tabs[r].kind # "live"
  PROVE  Flagging
BY DEF Flagging, Awaited, Distinct, LiveIsFree

LEMMA InitFlags == Init => Flagging
BY NothingFlags DEF Init, Opens, NoJobs, Idle, NoTab

\* The jobs and the tabs are left alone, and what they rely on holds.
LEMMA SameFlags ==
  ASSUME TypeOK, Flagging, UNCHANGED <<app, jobs>>, app = "up",
         \A r \in Rows : Reserved(r) => Reserved(r)',
         \A r \in Rows : tabs'[r].kind = "live" => tabs[r].kind = "live",
         \A r \in Rows : tabs[r].kind = "live" /\ Free(r) => Free(r)'
  PROVE  Flagging'
<1>1. Awaited' BY ToIsRow DEF Flagging, Awaited, Opens
<1>2. QED BY <1>1 DEF Flagging, Distinct, LiveIsFree, Opens

LEMMA CallFlags ==
  ASSUME Steady, Flagging, CallStep PROVE Flagging'
<1>1. PICK c \in calls : \/ Insert(c) \/ Flag(c) \/ Token(c) \/ Spawn(c)
                         \/ CloseDetails(c) \/ Unflag(c)
  BY DEF CallStep
<1>2. UNCHANGED <<app, acks, wake, tabs, boot, jobs, sent>> BY DEF CallStep
<1>3. TypeOK /\ Inserted /\ Fresh BY DEF Steady
<1>4. SUFFICES ASSUME app = "up" PROVE Flagging' BY <1>2 DEF Flagging
<1>5. procs \subseteq Rows /\ \A d \in calls : d.row \in Rows BY <1>3, Callers DEF TypeOK
<1>6. CASE Insert(c)
  <2>1. /\ c.op = "insert" /\ Moved(c, "flag")
        /\ RowIs(c.row, "open", db[c.row].cli, db[c.row].was_open)
        /\ procs' = procs
    BY <1>3, <1>6, CallEffects
  <2>2. ASSUME NEW r \in Rows, Reserved(r) PROVE Reserved(r)'
    BY <1>2, <1>3, <1>5, <2>1, <2>2 DEF Reserved, Inserted, Fresh, RowIs, Creates, Marked, Closing, Moved
  <2>3. ASSUME NEW r \in Rows, tabs[r].kind = "live", Free(r) PROVE Free(r)'
    BY <1>2, <1>3, <1>4, <1>5, <2>1, <2>3 DEF Free, Fresh, RowIs, Creates, Marked, Closing, User, Moved
  <2>4. QED BY <1>2, <1>3, <1>4, <2>2, <2>3, SameFlags
<1>7. CASE Flag(c)
  <2>1. /\ c.op = "flag" /\ Moved(c, "token")
        /\ RowIs(c.row, db[c.row].status, db[c.row].cli, TRUE)
        /\ procs' = procs
    BY <1>3, <1>7, CallEffects
  <2>2. ASSUME NEW r \in Rows, Reserved(r) PROVE Reserved(r)'
    BY <1>2, <1>3, <1>5, <2>1, <2>2 DEF Reserved, Inserted, Fresh, RowIs, Creates, Marked, Closing, Moved
  <2>3. ASSUME NEW r \in Rows, tabs[r].kind = "live", Free(r) PROVE Free(r)'
    BY <1>2, <1>3, <1>4, <1>5, <2>1, <2>3 DEF Free, Fresh, RowIs, Creates, Marked, Closing, User, Moved
  <2>4. QED BY <1>2, <1>3, <1>4, <2>2, <2>3, SameFlags
<1>8. CASE Token(c)
  <2>1. /\ c.op = "token" /\ Moved(c, "spawn")
        /\ RowIs(c.row, db[c.row].status, c.resumes, db[c.row].was_open)
        /\ procs' = procs
    BY <1>3, <1>8, CallEffects
  <2>2. ASSUME NEW r \in Rows, Reserved(r) PROVE Reserved(r)'
    BY <1>2, <1>3, <1>5, <2>1, <2>2 DEF Reserved, Inserted, Fresh, RowIs, Creates, Marked, Closing, Moved
  <2>3. ASSUME NEW r \in Rows, tabs[r].kind = "live", Free(r) PROVE Free(r)'
    BY <1>2, <1>3, <1>4, <1>5, <2>1, <2>3 DEF Free, Fresh, RowIs, Creates, Marked, Closing, User, Moved
  <2>4. QED BY <1>2, <1>3, <1>4, <2>2, <2>3, SameFlags
<1>9. CASE Spawn(c)
  <2>1. /\ c.op = "spawn" /\ calls' = calls \ {c}
        /\ RowIs(c.row, db[c.row].status, db[c.row].cli, db[c.row].was_open)
        /\ procs \subseteq procs' /\ procs' \subseteq procs \cup {c.row}
    BY <1>3, <1>9, CallEffects
  <2>2. ASSUME NEW r \in Rows, Reserved(r) PROVE Reserved(r)'
    BY <1>2, <1>3, <1>5, <2>1, <2>2 DEF Reserved, Inserted, Fresh, RowIs, Creates, Marked, Closing
  <2>3. ASSUME NEW r \in Rows, tabs[r].kind = "live", Free(r) PROVE Free(r)'
    BY <1>2, <1>3, <1>4, <1>5, <2>1, <2>3 DEF Free, Fresh, RowIs, Creates, Marked, Closing, User
  <2>4. QED BY <1>2, <1>3, <1>4, <2>2, <2>3, SameFlags
<1>10. CASE CloseDetails(c)
  <2>1. /\ c.op = "close" /\ Moved(c, "unflag")
        /\ RowIs(c.row, "closed", c.known, db[c.row].was_open)
        /\ procs' = procs
    BY <1>3, <1>10, CallEffects
  <2>2. ASSUME NEW r \in Rows, Reserved(r) PROVE Reserved(r)'
    BY <1>2, <1>3, <1>5, <2>1, <2>2 DEF Reserved, Inserted, Fresh, RowIs, Creates, Marked, Closing, Moved
  <2>3. ASSUME NEW r \in Rows, tabs[r].kind = "live", Free(r) PROVE Free(r)'
    BY <1>2, <1>3, <1>4, <1>5, <2>1, <2>3 DEF Free, Fresh, RowIs, Creates, Marked, Closing, User, Moved
  <2>4. QED BY <1>2, <1>3, <1>4, <2>2, <2>3, SameFlags
<1>11. CASE Unflag(c)
  <2>1. /\ c.op = "unflag" /\ calls' = calls \ {c}
        /\ RowIs(c.row, db[c.row].status, db[c.row].cli, FALSE)
        /\ procs' = procs
    BY <1>3, <1>11, CallEffects
  <2>2. ASSUME NEW r \in Rows, Reserved(r) PROVE Reserved(r)'
    BY <1>2, <1>3, <1>5, <2>1, <2>2 DEF Reserved, Inserted, Fresh, RowIs, Creates, Marked, Closing
  <2>3. ASSUME NEW r \in Rows, tabs[r].kind = "live", Free(r) PROVE Free(r)'
    BY <1>2, <1>3, <1>4, <1>5, <2>1, <2>3 DEF Free, Fresh, RowIs, Creates, Marked, Closing, User
  <2>4. QED BY <1>2, <1>3, <1>4, <2>2, <2>3, SameFlags
<1>12. QED BY <1>1, <1>6, <1>7, <1>8, <1>9, <1>10, <1>11

LEMMA ReturnsFlag ==
  ASSUME Steady, Flagging, app = "up", NEW who \in {"user", "start"}, Returns(who),
         UNCHANGED <<db, app, procs, calls, acks, boot>>
  PROVE  Flagging'
<1> DEFINE r == jobs[who].to
<1>1. TypeOK BY DEF Steady
<1>2. /\ r \in Rows /\ Opens(who) /\ \A c \in calls : c.row # r
      /\ \A q \in Rows \ {r} : tabs'[q] = tabs[q]
      /\ tabs'[r].kind = "live" => r \in procs
      /\ ~Opens(who)' /\ jobs'[who].kind \notin {"saving", "closing"}
      /\ jobs'[Other(who)] = jobs[Other(who)]
  <2>1. /\ r \in Rows /\ ~Running(r) /\ jobs[who].kind \in {"new", "resume", "listed"}
        /\ \/ tabs' = tabs /\ JobIs(who, Idle)
           \/ /\ r \in procs
              /\ \A q \in Rows \ {r} : tabs'[q] = tabs[q]
              /\ JobIs(who, Idle) \/ JobIs(who, [kind |-> "swap", from |-> jobs[who].from])
    BY <1>1, ReturnsEffects
  <2>2. tabs'[r].kind = "live" => r \in procs
    <3>1. tabs[r].kind = "none" BY <2>1 DEF Flagging, Awaited, Reserved, Opens
    <3>2. QED BY <2>1, <3>1
  <2>3. QED BY <2>1, <2>2 DEF JobIs, Idle, Running, Opens
<1>3. Reserved(r) BY <1>2 DEF Flagging, Awaited
<1>4. \A q \in Rows : Closing(q)' <=> Closing(q) BY <1>2 DEF Closing, Other, Opens
<1>5. Marked' = Marked BY DEF Marked
<1>6. \A w \in {"user", "start"} : Opens(w)' => w # who /\ Opens(w) /\ jobs'[w] = jobs[w]
  BY <1>2 DEF Opens, Other
<1> HIDE DEF r
<1>7. ASSUME NEW w \in {"user", "start"}, Opens(w)' PROVE Reserved(jobs[w].to)'
  <2>1. w # who /\ Opens(w) /\ jobs'[w] = jobs[w] BY <1>6, <1>7
  <2>2. jobs[w].to # r BY <1>2, <2>1 DEF Flagging, Distinct, r
  <2>3. jobs[w].to \in Rows BY <1>1, <2>1, ToIsRow
  <2>4. Reserved(jobs[w].to) BY <2>1 DEF Flagging, Awaited
  <2>5. QED BY <1>2, <1>4, <1>5, <2>1, <2>2, <2>3, <2>4 DEF Reserved
<1>8. Awaited' BY <1>6, <1>7 DEF Awaited
<1>9. Distinct' BY <1>6 DEF Distinct
<1>10. ASSUME NEW q \in Rows, tabs'[q].kind = "live" PROVE Free(q)'
  <2>1. CASE q = r BY <1>2, <1>3, <1>4, <1>5, <1>10, <2>1 DEF Reserved, Free
  <2>2. CASE q # r
    <3>1. Free(q) BY <1>2, <1>10, <2>2 DEF Flagging, LiveIsFree
    <3>2. (User.kind = "closing" /\ User.from = q) => (User.kind = "closing" /\ User.from = q)'
      BY <1>2 DEF User, Other, Opens
    <3>3. QED BY <1>4, <1>5, <3>1, <3>2 DEF Free
  <2>3. QED BY <2>1, <2>2
<1>11. QED BY <1>8, <1>9, <1>10 DEF Flagging, LiveIsFree

LEMMA SwapFlags ==
  ASSUME Steady, Flagging, app = "up", NEW who \in {"user", "start"}, Swap(who),
         UNCHANGED <<db, app, procs, calls, acks, boot>>
  PROVE  Flagging'
<1>1. TypeOK BY DEF Steady
<1>2. jobs[who].from \in Rows /\ jobs[who].kind = "swap" BY <1>1 DEF TypeOK, Swap, Jobs
<1>3. /\ \A q \in Rows : tabs'[q].kind \in {tabs[q].kind, "none"}
      /\ JobIs(who, Idle)
  BY <1>1, <1>2, Begins DEF TypeOK, Swap, Removed, NoTab
<1>4. \A q \in Rows : Closing(q)' <=> Closing(q) BY <1>2, <1>3 DEF Closing, Other, JobIs, Idle
<1>5. Marked' = Marked BY DEF Marked
<1>6. \A w \in {"user", "start"} : Opens(w)' => Opens(w) /\ jobs'[w] = jobs[w]
  BY <1>3 DEF Opens, Other, JobIs, Idle
<1>7. ASSUME NEW w \in {"user", "start"}, Opens(w)' PROVE Reserved(jobs[w].to)'
  <2>1. Opens(w) /\ jobs'[w] = jobs[w] /\ jobs[w].to \in Rows BY <1>1, <1>6, <1>7, ToIsRow
  <2>2. Reserved(jobs[w].to) BY <2>1 DEF Flagging, Awaited
  <2>3. QED BY <1>3, <1>4, <1>5, <2>1, <2>2 DEF Reserved
<1>8. Awaited' /\ Distinct' BY <1>6, <1>7 DEF Awaited, Flagging, Distinct
<1>9. ASSUME NEW q \in Rows, tabs'[q].kind = "live" PROVE Free(q)'
  <2>1. Free(q) BY <1>3, <1>9 DEF Flagging, LiveIsFree
  <2>2. (User.kind = "closing" /\ User.from = q) => (User.kind = "closing" /\ User.from = q)'
    BY <1>2, <1>3 DEF User, Other, JobIs
  <2>3. QED BY <1>4, <1>5, <2>1, <2>2 DEF Free
<1>10. QED BY <1>8, <1>9 DEF Flagging, LiveIsFree

\* A job begins that waits for a new session.
LEMMA BeginFlags ==
  ASSUME Steady, Flagging, app = "up", UNCHANGED <<db, app, procs, acks>>,
         NEW b \in Unused, NEW resumes \in BOOLEAN, Created(b, resumes),
         NEW who \in {"user", "start"}, NEW job, JobIs(who, job), job.to = b,
         job.kind \in {"new", "resume", "listed"},
         who = "user" => jobs[who].kind \notin {"saving", "closing"},
         \A q \in Rows : tabs'[q].kind \in {tabs[q].kind, "none"},
         boot'.todo \subseteq boot.todo, boot'.crashed \subseteq boot.crashed
  PROVE  Flagging'
<1>1. TypeOK /\ Inserted BY DEF Steady
<1>2. b \in Rows /\ db[b].status = "none" /\ \A c \in calls : c.row # b BY DEF Unused
<1>3. tabs[b].kind = "none" /\ b \notin Marked /\ ~Closing(b) /\ b \notin procs
  BY <1>1, <1>2 DEF Inserted
<1>4. Marked' \subseteq Marked BY DEF Marked
<1>5. PICK d : calls' = calls \cup {d} /\ d.op = "insert" /\ d.row = b BY DEF Created
<1>6. \A q \in Rows : Closing(q)' <=> Closing(q) BY DEF Closing, Other, JobIs
<1>7. \A w \in {"user", "start"} : w # who => jobs'[w] = jobs[w] BY DEF JobIs, Other
<1>8. jobs'[who].to = b BY DEF JobIs
<1>9. Reserved(b)' BY <1>1, <1>2, <1>3, <1>4, <1>5, <1>6 DEF Reserved, Creates
<1>10. ASSUME NEW w \in {"user", "start"}, Opens(w)', w # who
       PROVE  Reserved(jobs[w].to)' /\ jobs[w].to # b
  <2>1. Opens(w) BY <1>7, <1>10 DEF Opens
  <2>2. jobs[w].to \in Rows /\ Reserved(jobs[w].to) BY <1>1, <2>1, ToIsRow DEF Flagging, Awaited
  <2>3. jobs[w].to # b BY <1>2, <2>2 DEF Reserved
  <2>4. QED BY <1>4, <1>5, <1>6, <1>7, <1>10, <2>2, <2>3 DEF Reserved
<1>11. Awaited' BY <1>7, <1>8, <1>9, <1>10 DEF Awaited
<1>12. Distinct' BY <1>7, <1>8, <1>10 DEF Distinct
<1>13. ASSUME NEW q \in Rows, tabs'[q].kind = "live" PROVE Free(q)'
  <2>1. Free(q) /\ q # b BY <1>3, <1>13 DEF Flagging, LiveIsFree
  <2>2. (User.kind = "closing" /\ User.from = q) => (User.kind = "closing" /\ User.from = q)'
    BY <1>7 DEF User
  <2>3. QED BY <1>4, <1>5, <1>6, <2>1, <2>2 DEF Free
<1>14. QED BY <1>11, <1>12, <1>13 DEF Flagging, LiveIsFree

LEMMA ResumeFlags ==
  ASSUME Steady, Flagging, app = "up", UNCHANGED <<db, app, procs, acks>>,
         NEW who \in {"user", "start"}, NEW r \in Rows,
         Resume(who, r), who = "user" => jobs[who].kind \notin {"saving", "closing"},
         boot'.todo \subseteq boot.todo, boot'.crashed \subseteq boot.crashed
  PROVE  Flagging'
<1>1. TypeOK BY DEF Steady
<1>2. \A q \in Rows : tabs'[q].kind \in {tabs[q].kind, "none"}
  <2>1. tabs'[r] \in {tabs[r], NoTab} /\ \A q \in Rows \ {r} : tabs'[q] = tabs[q]
    BY <1>1, ResumeEffects
  <2>2. QED BY <2>1 DEF NoTab
<1>3. CASE calls' = calls /\ jobs' = jobs
  <2>1. Marked' \subseteq Marked BY DEF Marked
  <2>2. \A q \in Rows : Reserved(q) => Reserved(q)' BY <1>2, <1>3, <2>1 DEF Reserved, Closing
  <2>3. \A q \in Rows : Free(q) => Free(q)' BY <1>3, <2>1 DEF Free, Closing, User
  <2>4. QED BY <1>1, <1>2, <1>3, <2>2, <2>3, SameFlags
<1>4. CASE \E b \in Unused : /\ Created(b, TRUE)
                             /\ JobIs(who, [kind |-> "resume", from |-> r, to |-> b,
                                            msgs |-> tabs[r].msgs])
  <2>1. PICK b \in Unused : /\ Created(b, TRUE)
                            /\ JobIs(who, [kind |-> "resume", from |-> r, to |-> b,
                                           msgs |-> tabs[r].msgs])
    BY <1>4
  <2> DEFINE job == [kind |-> "resume", from |-> r, to |-> b, msgs |-> tabs[r].msgs]
  <2>2. job.to = b /\ job.kind = "resume" OBVIOUS
  <2>3. JobIs(who, job) BY <2>1
  <2> HIDE DEF job
  <2>4. QED BY <1>2, <2>1, <2>2, <2>3, BeginFlags
<1>5. QED BY <1>1, <1>3, <1>4, ResumeEffects

LEMMA UserFlags ==
  ASSUME Steady, Flagging, New \/ CloseAsks \/ CloseReturns PROVE Flagging'
<1>1. TypeOK /\ Inserted BY DEF Steady
<1>2. CASE New
  <2>1. PICK b \in Unused : Begin("user", [kind |-> "new", to |-> b]) /\ calls' = Create(b, FALSE)
    BY <1>2 DEF New
  <2>2. b \in Rows BY DEF Unused
  <2>3. Created(b, FALSE) /\ JobIs("user", [kind |-> "new", to |-> b])
    BY <1>1, <2>1, <2>2, Creating, Begins
  <2>4. /\ app = "up" /\ UNCHANGED <<db, app, procs, acks, tabs, boot>>
        /\ jobs["user"].kind = "idle"
    BY <1>2 DEF New, AtLeisure, Idle
  <2> DEFINE job == [kind |-> "new", to |-> b]
  <2>5. job.to = b /\ job.kind = "new" /\ JobIs("user", job) BY <2>3
  <2> HIDE DEF job
  <2>6. QED BY <2>3, <2>4, <2>5, BeginFlags
<1>3. CASE CloseAsks
  <2> DEFINE r == jobs["user"].from
             d == [op |-> "close", row |-> r, known |-> r \in ids]
  <2>1. r \in Rows /\ jobs["user"].kind = "saving" BY <1>1, <1>3 DEF TypeOK, CloseAsks, Jobs
  <2>2. JobIs("user", [kind |-> "closing", from |-> r]) BY <1>1, <1>3, Begins DEF CloseAsks
  <2>3. calls' = calls \cup {d} /\ d.row = r /\ d.op = "close" BY <1>3 DEF CloseAsks
  <2>4. app = "up" /\ procs' \subseteq procs /\ UNCHANGED <<db, app, ids, acks, wake, tabs, boot, sent>>
    BY <1>3 DEF CloseAsks
  <2>5. \A q \in Rows : (Closing(q)' <=> q = r) /\ (Closing(q) <=> q = r)
    BY <2>1, <2>2 DEF Closing, JobIs
  <2>6. Marked' = Marked /\ User'.kind = "closing" /\ User'.from = r
    BY <2>2, <2>4 DEF Marked, User, JobIs
  <2>7. jobs'["start"] = jobs["start"] /\ ~Opens("user")' BY <2>2 DEF JobIs, Other, Opens
  <2>8. User.kind = "saving" BY <2>1 DEF User
  <2> HIDE DEF r, d
  <2>9. Awaited'
    <3>1. SUFFICES ASSUME Opens("start")' PROVE Reserved(jobs["start"].to)'
      BY <2>7 DEF Awaited
    <3>2. Opens("start") /\ jobs["start"].to \in Rows BY <1>1, <2>7, <3>1, ToIsRow DEF Opens
    <3>3. Reserved(jobs["start"].to) BY <2>4, <3>2 DEF Flagging, Awaited
    <3>4. QED BY <2>3, <2>4, <2>5, <2>6, <2>7, <3>2, <3>3 DEF Reserved
  <2>10. Distinct' BY <2>7 DEF Distinct
  <2>11. ASSUME NEW q \in Rows, tabs'[q].kind = "live" PROVE Free(q)'
    <3>1. Free(q) BY <2>4, <2>11 DEF Flagging, LiveIsFree
    <3>2. QED BY <2>3, <2>4, <2>5, <2>6, <2>8, <3>1 DEF Free
  <2>12. QED BY <2>9, <2>10, <2>11 DEF Flagging, LiveIsFree
<1>4. CASE CloseReturns
  <2> DEFINE r == jobs["user"].from
  <2>1. r \in Rows /\ jobs["user"].kind = "closing" BY <1>1, <1>4 DEF TypeOK, CloseReturns, Jobs
  <2>2. app = "up" /\ UNCHANGED <<db, app, procs, ids, calls, acks, wake, boot, sent>>
    BY <1>4 DEF CloseReturns
  <2>3. tabs'[r].kind = "none" /\ \A q \in Rows \ {r} : tabs'[q] = tabs[q]
    BY <1>1, <1>4, <2>1 DEF TypeOK, CloseReturns, Removed, NoTab
  <2>4. JobIs("user", Idle) BY <1>1, <1>4, Begins DEF CloseReturns
  <2>5. \A q \in Rows : ~Closing(q)' /\ (Closing(q) <=> q = r)
    BY <2>1, <2>4 DEF Closing, JobIs, Idle
  <2>6. Marked' = Marked /\ User.from = r BY <2>2 DEF Marked, User
  <2>7. jobs'["start"] = jobs["start"] /\ ~Opens("user")' BY <2>4 DEF JobIs, Other, Opens, Idle
  <2> HIDE DEF r
  <2>8. Awaited'
    <3>1. SUFFICES ASSUME Opens("start")' PROVE Reserved(jobs["start"].to)'
      BY <2>7 DEF Awaited
    <3>2. Opens("start") /\ jobs["start"].to \in Rows BY <1>1, <2>7, <3>1, ToIsRow DEF Opens
    <3>3. Reserved(jobs["start"].to) BY <2>2, <3>2 DEF Flagging, Awaited
    <3>4. QED BY <2>2, <2>3, <2>5, <2>6, <2>7, <3>2, <3>3 DEF Reserved
  <2>9. Distinct' BY <2>7 DEF Distinct
  <2>10. ASSUME NEW q \in Rows, tabs'[q].kind = "live" PROVE Free(q)'
    <3>1. q # r /\ Free(q) BY <2>2, <2>3, <2>10 DEF Flagging, LiveIsFree
    <3>2. QED BY <2>2, <2>5, <2>6, <3>1 DEF Free
  <2>11. QED BY <2>8, <2>9, <2>10 DEF Flagging, LiveIsFree
<1>5. QED BY <1>2, <1>3, <1>4

LEMMA RowFlags ==
  ASSUME Steady, Flagging, NEW r \in Rows,
         \/ Acknowledge(r) \/ CliReports(r)
         \/ ResumeTab(r) \/ ResumeListed(r) \/ Close(r)
         \/ Write(r) \/ Flush(r) \/ Restore(r)
  PROVE  Flagging'
<1>1. TypeOK /\ Inserted BY DEF Steady
<1>2. procs \subseteq Rows /\ \A d \in calls : d.row \in Rows BY <1>1, Callers DEF TypeOK
<1>3. CASE Acknowledge(r)
  <2>1. UNCHANGED <<app, procs, ids, calls, wake, tabs, boot, jobs, sent>> BY <1>3 DEF Acknowledge
  <2>2. SUFFICES ASSUME app = "up" PROVE Flagging' BY <2>1 DEF Flagging
  <2>3. /\ r \in acks /\ acks' \subseteq acks
        /\ \A q \in Rows \ {r} : db'[q] = db[q]
    BY <1>1, <1>3, AckEffects DEF RowIs
  <2>4. r \in Marked /\ Marked' \subseteq Marked BY <2>1, <2>3 DEF Marked
  <2>5. \A q \in Rows : Closing(q)' <=> Closing(q) BY <2>1 DEF Closing
  <2>6. ASSUME NEW q \in Rows, Reserved(q) PROVE Reserved(q)'
    BY <1>2, <2>1, <2>3, <2>4, <2>5, <2>6 DEF Reserved
  <2>7. ASSUME NEW q \in Rows, Free(q) PROVE Free(q)'
    BY <1>2, <2>1, <2>3, <2>4, <2>5, <2>7 DEF Free, User
  <2>8. QED BY <1>1, <2>1, <2>2, <2>6, <2>7, SameFlags
<1>4. CASE CliReports(r)
  <2>1. app = "up" => UNCHANGED <<app, procs, calls, acks, wake, tabs, boot, jobs, sent>>
    BY <1>4 DEF CliReports
  <2>2. SUFFICES ASSUME app = "up" PROVE Flagging' BY <1>4 DEF Flagging, CliReports
  <2>3. \A q \in Rows : db'[q].status = db[q].status /\ db'[q].was_open = db[q].was_open
    BY <1>1, <1>4, ReportEffects DEF RowIs
  <2>4. \A q \in Rows : Closing(q)' <=> Closing(q) BY <2>1, <2>2 DEF Closing
  <2>5. Marked' = Marked BY <2>1, <2>2 DEF Marked
  <2>6. ASSUME NEW q \in Rows, Reserved(q) PROVE Reserved(q)'
    BY <1>2, <2>1, <2>2, <2>3, <2>4, <2>5, <2>6 DEF Reserved
  <2>7. ASSUME NEW q \in Rows, Free(q) PROVE Free(q)'
    BY <1>2, <2>1, <2>2, <2>3, <2>4, <2>5, <2>7 DEF Free, User
  <2>8. QED BY <1>1, <2>1, <2>2, <2>6, <2>7, SameFlags
<1>5. CASE ResumeTab(r)
  BY <1>5, ResumeFlags DEF ResumeTab, AtLeisure, Idle
<1>6. CASE ResumeListed(r)
  <2>1. PICK b \in Unused : /\ Begin("user", [kind |-> "listed", from |-> r, to |-> b])
                            /\ calls' = Create(b, TRUE)
    BY <1>6 DEF ResumeListed
  <2>2. b \in Rows BY DEF Unused
  <2> DEFINE job == [kind |-> "listed", from |-> r, to |-> b]
  <2>3. Created(b, TRUE) /\ JobIs("user", job) BY <1>1, <2>1, <2>2, Creating, Begins
  <2>4. job.to = b /\ job.kind = "listed" OBVIOUS
  <2>5. /\ app = "up" /\ UNCHANGED <<db, app, procs, acks, tabs, boot>>
        /\ jobs["user"].kind = "idle"
    BY <1>6 DEF ResumeListed, AtLeisure, Idle
  <2> HIDE DEF job
  <2>6. QED BY <2>3, <2>4, <2>5, BeginFlags
<1>7. CASE Close(r)
  <2>1. /\ app = "up" /\ tabs[r].kind # "none" /\ jobs["user"].kind = "idle"
        /\ UNCHANGED <<app, procs, ids, calls, acks, wake, tabs, boot, sent>>
    BY <1>7 DEF Close, AtLeisure, MayClose, Idle
  <2>2. JobIs("user", [kind |-> "saving", from |-> r]) BY <1>1, <1>7, Begins DEF Close
  <2>3. \A q \in Rows : (Closing(q)' <=> q = r) /\ ~Closing(q) BY <2>1, <2>2 DEF Closing, JobIs
  <2>4. \A q \in Rows : db'[q].status = db[q].status /\ db'[q].was_open = db[q].was_open
    BY <1>1, <1>7, SavedEffects DEF Close
  <2>5. jobs'["start"] = jobs["start"] /\ ~Opens("user")' BY <2>2 DEF JobIs, Other, Opens
  <2>6. Marked' = Marked /\ User.kind = "idle" BY <2>1 DEF Marked, User
  <2>7. Awaited'
    <3>1. SUFFICES ASSUME Opens("start")' PROVE Reserved(jobs["start"].to)'
      BY <2>5 DEF Awaited
    <3>2. Opens("start") /\ jobs["start"].to \in Rows BY <1>1, <2>5, <3>1, ToIsRow DEF Opens
    <3>3. Reserved(jobs["start"].to) BY <2>1, <3>2 DEF Flagging, Awaited
    <3>4. QED BY <2>1, <2>3, <2>4, <2>5, <2>6, <3>2, <3>3 DEF Reserved
  <2>8. Distinct' BY <2>5 DEF Distinct
  <2>9. ASSUME NEW q \in Rows, tabs'[q].kind = "live" PROVE Free(q)'
    <3>1. Free(q) BY <2>1, <2>9 DEF Flagging, LiveIsFree
    <3>2. QED BY <2>1, <2>3, <2>4, <2>6, <3>1 DEF Free
  <2>10. QED BY <2>7, <2>8, <2>9 DEF Flagging, LiveIsFree
<1>8. CASE Write(r)
  <2>1. /\ app = "up" /\ UNCHANGED <<db, app, procs, ids, calls, acks, wake, boot, jobs>>
        /\ \A q \in Rows : tabs'[q].kind = tabs[q].kind
    BY <1>1, <1>8 DEF Write, TypeOK
  <2>2. \A q \in Rows : Closing(q)' <=> Closing(q) BY <2>1 DEF Closing
  <2>3. Marked' = Marked BY <2>1 DEF Marked
  <2>4. \A q \in Rows : Reserved(q) => Reserved(q)' BY <2>1, <2>2, <2>3 DEF Reserved
  <2>5. \A q \in Rows : Free(q) => Free(q)' BY <2>1, <2>2, <2>3 DEF Free, User
  <2>6. QED BY <1>1, <2>1, <2>4, <2>5, SameFlags
<1>9. CASE Flush(r)
  <2>1. app = "up" /\ UNCHANGED <<app, procs, ids, calls, acks, wake, tabs, boot, jobs, sent>>
    BY <1>9 DEF Flush
  <2>2. \A q \in Rows : db'[q].status = db[q].status /\ db'[q].was_open = db[q].was_open
    BY <1>1, <1>9, SavedEffects DEF Flush
  <2>3. \A q \in Rows : Closing(q)' <=> Closing(q) BY <2>1 DEF Closing
  <2>4. Marked' = Marked BY <2>1 DEF Marked
  <2>5. \A q \in Rows : Reserved(q) => Reserved(q)' BY <1>2, <2>1, <2>2, <2>3, <2>4 DEF Reserved
  <2>6. \A q \in Rows : Free(q) => Free(q)' BY <2>1, <2>2, <2>3, <2>4 DEF Free, User
  <2>7. QED BY <1>1, <2>1, <2>5, <2>6, SameFlags
<1>10. CASE Restore(r)
  <2>1. /\ r \in boot.todo /\ boot'.todo \subseteq boot.todo /\ boot'.crashed = boot.crashed
        /\ app = "up" /\ UNCHANGED <<db, app, procs, ids, calls, acks, wake, jobs, sent>>
        /\ \A q \in Rows : tabs'[q].kind = tabs[q].kind \/ (q = r /\ tabs'[q].kind \in {"reattached", "paused"})
    BY <1>1, <1>10 DEF Restore, TypeOK, Opened
  <2>2. \A q \in Rows : Closing(q)' <=> Closing(q) BY <2>1 DEF Closing
  <2>3. Marked' \subseteq Marked /\ r \in Marked BY <2>1 DEF Marked
  <2>4. \A q \in Rows : Reserved(q) => Reserved(q)' BY <2>1, <2>2, <2>3 DEF Reserved
  <2>5. \A q \in Rows : Free(q) => Free(q)' BY <2>1, <2>2, <2>3 DEF Free, User
  <2>6. QED BY <1>1, <2>1, <2>4, <2>5, SameFlags
<1>11. QED BY <1>3, <1>4, <1>5, <1>6, <1>7, <1>8, <1>9, <1>10

LEMMA StartFlags ==
  ASSUME Steady, Flagging, List \/ AckAsks \/ AckReturns \/ AutoResume PROVE Flagging'
<1>1. TypeOK /\ Blank BY DEF Steady
<1>2. CASE List
  <2>1. app = "up" /\ boot.stage = "list" /\ UNCHANGED <<jobs, tabs>> BY <1>2 DEF List
  <2>2. jobs = NoJobs /\ \A q \in Rows : tabs[q].kind = "none" BY <1>1, <2>1 DEF Blank
  <2>3. \A w \in {"user", "start"} : ~Opens(w)' BY <2>1, <2>2 DEF Opens, NoJobs, Idle
  <2>4. QED BY <2>1, <2>2, <2>3 DEF Flagging, Awaited, Distinct, LiveIsFree
<1>3. CASE AckAsks \/ AckReturns
  <2>1. /\ app = "up" /\ UNCHANGED <<db, app, procs, ids, calls, wake, tabs, jobs, sent>>
        /\ Marked' \subseteq Marked
    BY <1>1, <1>3 DEF AckAsks, AckReturns, TypeOK, Marked, Done, Start
  <2>2. \A q \in Rows : Closing(q)' <=> Closing(q) BY <2>1 DEF Closing
  <2>3. \A q \in Rows : Reserved(q) => Reserved(q)' BY <2>1, <2>2 DEF Reserved
  <2>4. \A q \in Rows : Free(q) => Free(q)' BY <2>1, <2>2 DEF Free, User
  <2>5. QED BY <1>1, <2>1, <2>3, <2>4, SameFlags
<1>4. CASE AutoResume
  <2>1. PICK r \in boot.crashed : IF tabs[r].kind = "paused"
                                  THEN Resume("start", r) ELSE UNCHANGED <<calls, tabs, jobs>>
    BY <1>4 DEF AutoResume
  <2>2. /\ app = "up" /\ boot.stage = "resume" /\ UNCHANGED <<db, app, procs, ids, acks, wake, sent>>
        /\ boot'.stage = "done" /\ boot'.todo = {} /\ boot'.crashed = {} /\ r \in Rows
    BY <1>1, <1>4 DEF AutoResume, Done, Start, TypeOK
  <2>3. boot'.todo \subseteq boot.todo /\ boot'.crashed \subseteq boot.crashed BY <2>2
  <2>4. CASE Resume("start", r) BY <2>2, <2>3, <2>4, ResumeFlags
  <2>5. CASE UNCHANGED <<calls, tabs, jobs>>
    <3>1. Marked' \subseteq Marked BY <2>2 DEF Marked
    <3>2. \A q \in Rows : Closing(q)' <=> Closing(q) BY <2>5 DEF Closing
    <3>3. \A q \in Rows : Reserved(q) => Reserved(q)' BY <2>2, <2>5, <3>1, <3>2 DEF Reserved
    <3>4. \A q \in Rows : Free(q) => Free(q)' BY <2>2, <2>5, <3>1, <3>2 DEF Free, User
    <3>5. QED BY <1>1, <2>2, <2>5, <3>3, <3>4, SameFlags
  <2>6. QED BY <2>1, <2>4, <2>5
<1>5. QED BY <1>2, <1>3, <1>4

LEMMA EndFlags ==
  ASSUME Steady, Flagging, Quit \/ PromoteAll \/ ClearAll \/ Restart \/ Reload PROVE Flagging'
<1>1. CASE Quit \/ PromoteAll \/ ClearAll
  BY <1>1 DEF Quit, PromoteAll, ClearAll, Flagging
<1>2. CASE Restart \/ Reload
  <2>1. WindowIsNew BY <1>2 DEF Restart, Reload
  <2>2. /\ \A w \in {"user", "start"} : ~Opens(w)'
        /\ \A r \in Rows : tabs'[r].kind = "none"
    BY <2>1, WindowEffects DEF Opens, Idle, NoTab
  <2>3. QED BY <2>2 DEF Flagging, Awaited, Distinct, LiveIsFree
<1>3. QED BY <1>1, <1>2

LEMMA NextFlags == Steady /\ Flagging /\ [Next]_vars => Flagging'
<1>1. ASSUME Steady, Flagging, UNCHANGED vars PROVE Flagging'
  BY <1>1 DEF vars, Flagging, Awaited, Distinct, LiveIsFree, Opens, Reserved, Free, Marked, Closing, User
<1>2. ASSUME Steady, Flagging, Next PROVE Flagging'
  <2>1. CASE GoesOn
    <3>1. PICK who \in {"user", "start"} : Returns(who) \/ Swap(who) BY <2>1 DEF GoesOn
    <3>2. QED BY <1>2, <2>1, <3>1, ReturnsFlag, SwapFlags DEF GoesOn
  <2>2. QED BY <1>2, <2>1, CallFlags, UserFlags, RowFlags, StartFlags, EndFlags DEF Next
<1>3. QED BY <1>1, <1>2

\* A session in a live tab that the user is not closing is flagged, whatever the
\* start unflags meanwhile (list_crashed_sessions, acknowledge_crashed_sessions),
\* for any number of sessions and whatever fails.
THEOREM LiveStaysFlagged == Spec => []LiveIsFlagged
<1>1. Flagging => LiveIsFlagged BY DEF Flagging, LiveIsFree, Free, LiveIsFlagged
<1>2. QED BY <1>1, InitSteady, InitFlags, NextSteady, NextFlags, PTL DEF Spec

-----------------------------------------------------------------------------
(* What was saved stays findable *)

InUse(r) == tabs[r].kind \in {"live", "reattached"}
Saving(r) == User.kind = "saving" /\ User.from = r
Asked(r) == User.kind = "closing" /\ User.from = r

OneCall == \A c, d \in calls : c.row = d.row => c = d

\* What close_session finds: a session without a CLI, whose id is known unless
\* its row has none.
Ends == \A c \in calls : ~Creates(c) =>
    /\ c.row \notin procs
    /\ c.op = "close" /\ ~c.known => ~db[c.row].cli
    /\ app = "up" => /\ ~(c.row \in boot.todo /\ c.row \in boot.live)
                     /\ InUse(c.row) => Asked(c.row)
                     /\ ~Saving(c.row)

\* The memory knows the id of what is about to be closed, the row that of what is
\* restored.
Knows == app = "up" => \A r \in Rows :
    /\ Saving(r) /\ db[r].cli => r \in ids
    /\ tabs[r].kind # "none" \/ Closing(r) => r \notin boot.todo
    /\ tabs[r].kind = "paused" \/ (r \in boot.todo /\ r \notin boot.live) => db[r].cli

\* A session that is resumed into a new one: both have an id.
Bound == app = "up" => \A w \in {"user", "start"} : Opens(w) =>
    /\ db[jobs[w].to].msgs = {}
    /\ jobs[w].kind # "new" =>
         /\ db[jobs[w].from].cli
         /\ jobs[w].to \in procs => db[jobs[w].to].cli
         /\ \A c \in calls : c.row = jobs[w].to => c.resumes /\ (c.op = "spawn" => db[c.row].cli)

Held(r) == db[r].msgs \cup tabs[r].msgs
Carried(w) == IF jobs[w].kind = "resume" THEN jobs[w].msgs ELSE {}

Written ==
    /\ \A r \in Rows : Held(r) \subseteq sent
    /\ \A w \in {"user", "start"} : Carried(w) \subseteq sent

\* The messages of a session without an id are its own.
Own == \A r \in Rows : ~db[r].cli => \A m \in Held(r) :
    /\ \A q \in Rows \ {r} : m \notin Held(q)
    /\ \A w \in {"user", "start"} : m \notin Carried(w)

\* Saving what a tab shows erases nothing.
Covers == \A r \in Rows : InUse(r) => db[r].msgs \subseteq tabs[r].msgs

Orderly == OneCall /\ Ends /\ Knows
Contents == Written /\ Own /\ Covers
Holding == Orderly /\ Bound /\ Contents

LEMMA InitHolds == Init => Holding
<1>1. SUFFICES ASSUME Init PROVE Holding OBVIOUS
<1>2. Orderly BY <1>1 DEF Init, Orderly, OneCall, Ends, Knows, User, Closing, Saving, NoTab, NoJobs, Idle, Start
<1>3. Bound BY <1>1 DEF Init, Bound, Opens, NoJobs, Idle
<1>4. Contents BY <1>1 DEF Init, Contents, Written, Own, Covers, Held, Carried, InUse, NoTab, NoJobs, Idle
<1>5. QED BY <1>2, <1>3, <1>4 DEF Holding

\* A step that begins nothing and closes nothing.
LEMMA OrderlySame ==
  ASSUME TypeOK, Orderly, calls' \subseteq calls, procs' \subseteq procs, ids \subseteq ids',
         \A q \in Rows : db'[q].cli = db[q].cli,
         app' = "up" =>
            /\ app = "up" /\ boot'.todo \subseteq boot.todo
            /\ boot'.live = boot.live \/ boot'.todo = {}
            /\ \A q \in Rows : /\ tabs'[q].kind \in {tabs[q].kind, "none"}
                               /\ Closing(q)' => Closing(q)
                               /\ Saving(q)' => Saving(q)
                               /\ Asked(q) => Asked(q)'
  PROVE  Orderly'
<1>1. \A c \in calls : c.row \in Rows BY Callers
<1>2. OneCall' BY DEF Orderly, OneCall
<1>3. Ends' BY <1>1 DEF Orderly, Ends, InUse, Creates
<1>4. Knows' BY DEF Orderly, Knows
<1>5. QED BY <1>2, <1>3, <1>4 DEF Orderly

\* The jobs go on, or end; the calls of the sessions they wait for stay.
LEMMA BoundSame ==
  ASSUME Steady, Flagging, Bound, app' = "up" => app = "up",
         \A w \in {"user", "start"} : Opens(w)' => Opens(w) /\ jobs'[w] = jobs[w],
         \A q \in procs' : q \in procs \/ \E c \in calls : c.row = q /\ c.op = "spawn",
         \A q \in Rows : db[q].cli => db'[q].cli,
         \A q \in Rows : tabs[q].kind = "none" => db'[q].msgs \subseteq db[q].msgs,
         \A c \in calls' : c.row \in Rows,
         \A d \in calls' :
            \/ d \in calls \/ ~Reserved(d.row)
            \/ \E c \in calls : /\ c.row = d.row /\ d.resumes = c.resumes
                                /\ (d.op = "spawn" /\ c.resumes) => db'[d.row].cli
  PROVE  Bound'
<1>1. TypeOK BY DEF Steady
<1>2. SUFFICES ASSUME app' = "up", NEW w \in {"user", "start"}, Opens(w)'
               PROVE  /\ db'[jobs'[w].to].msgs = {}
                      /\ jobs'[w].kind # "new" =>
                           /\ db'[jobs'[w].from].cli
                           /\ jobs'[w].to \in procs' => db'[jobs'[w].to].cli
                           /\ \A c \in calls' : c.row = jobs'[w].to =>
                                c.resumes /\ (c.op = "spawn" => db'[c.row].cli)
  BY DEF Bound
<1>3. Opens(w) /\ jobs'[w] = jobs[w] /\ app = "up" BY <1>2
<1>4. jobs[w].to \in Rows BY <1>1, <1>3, ToIsRow
<1>5. Reserved(jobs[w].to) BY <1>3 DEF Flagging, Awaited
<1>6. db'[jobs[w].to].msgs = {} BY <1>3, <1>4, <1>5 DEF Bound, Reserved
<1>7. jobs[w].kind # "new" => jobs[w].from \in Rows
  <2>1. jobs[w] \in Jobs BY <1>1 DEF TypeOK
  <2>2. QED BY <1>3, <2>1 DEF Jobs, Opens
<1>8. ASSUME jobs[w].kind # "new", jobs[w].to \in procs' PROVE db'[jobs[w].to].cli
  BY <1>3, <1>4, <1>8 DEF Bound
<1>9. ASSUME jobs[w].kind # "new", NEW d \in calls', d.row = jobs[w].to
      PROVE  d.resumes /\ (d.op = "spawn" => db'[d.row].cli)
  <2>1. \A c \in calls : c.row = d.row => c.resumes /\ (c.op = "spawn" => db[c.row].cli)
    BY <1>3, <1>9 DEF Bound
  <2>2. CASE d \in calls BY <1>4, <1>9, <2>1, <2>2
  <2>3. CASE d \notin calls
    <3>1. Reserved(d.row) BY <1>5, <1>9
    <3>2. PICK c \in calls : /\ c.row = d.row /\ d.resumes = c.resumes
                             /\ (d.op = "spawn" /\ c.resumes) => db'[d.row].cli
      BY <1>9, <2>3, <3>1
    <3>3. QED BY <2>1, <3>2
  <2>4. QED BY <2>2, <2>3
<1>10. jobs[w].kind # "new" => db'[jobs[w].from].cli BY <1>3, <1>7 DEF Bound
<1>11. QED BY <1>3, <1>6, <1>8, <1>9, <1>10

\* No session gets messages it has not.
LEMMA ContentsSame ==
  ASSUME Contents, sent \subseteq sent',
         \A q \in Rows : db[q].cli => db'[q].cli,
         \A q \in Rows : Held(q)' \subseteq Held(q),
         \A w \in {"user", "start"} : Carried(w)' \subseteq Carried(w),
         \A q \in Rows : InUse(q)' => db'[q].msgs \subseteq tabs'[q].msgs
  PROVE  Contents'
<1>1. Written' BY DEF Contents, Written
<1>2. Own' BY DEF Contents, Own
<1>3. Covers' BY DEF Covers
<1>4. QED BY <1>1, <1>2, <1>3 DEF Contents

\* ... as the tabs stay and no statement is run.
LEMMA ContentsStay ==
  ASSUME Contents, UNCHANGED <<db, sent>>,
         \A q \in Rows : tabs'[q] \in {tabs[q], NoTab},
         \A w \in {"user", "start"} : Carried(w)' \subseteq Carried(w)
  PROVE  Contents'
<1>1. \A q \in Rows : Held(q)' \subseteq Held(q) BY DEF Held, NoTab
<1>2. \A q \in Rows : InUse(q)' => tabs'[q] = tabs[q] BY DEF InUse, NoTab
<1>3. \A q \in Rows : InUse(q)' => db'[q].msgs \subseteq tabs'[q].msgs
  BY <1>2 DEF Contents, Covers, InUse
<1>4. QED BY <1>1, <1>3, ContentsSame

LEMMA CallHolds ==
  ASSUME Steady, Flagging, Holding, CallStep
  PROVE  Holding' /\ \A q \in Rows : db'[q].msgs = db[q].msgs /\ (db[q].cli => db'[q].cli)
<1>1. PICK c \in calls : \/ Insert(c) \/ Flag(c) \/ Token(c) \/ Spawn(c)
                         \/ CloseDetails(c) \/ Unflag(c)
  BY DEF CallStep
<1>2. UNCHANGED <<app, acks, wake, tabs, boot, jobs, sent>> BY DEF CallStep
<1>3. TypeOK /\ Inserted /\ Fresh BY DEF Steady
<1>4. OneCall /\ Ends /\ Knows /\ Bound /\ Contents BY DEF Holding, Orderly
<1>5. procs \subseteq Rows /\ c.row \in Rows /\ \A d \in calls : d.row \in Rows
  BY <1>3, Callers DEF TypeOK
<1>6. \A q \in Rows : /\ (Closing(q)' <=> Closing(q)) /\ (Saving(q)' <=> Saving(q))
                      /\ (Asked(q)' <=> Asked(q)) /\ (InUse(q)' <=> InUse(q))
  BY <1>2 DEF Closing, Saving, Asked, User, InUse
<1>7. \A w \in {"user", "start"} : Opens(w)' => Opens(w) /\ jobs'[w] = jobs[w] BY <1>2 DEF Opens
<1>8. ASSUME \A q \in Rows : db'[q].msgs = db[q].msgs /\ (db[q].cli => db'[q].cli) PROVE Contents'
  <2>1. \A q \in Rows : Held(q)' \subseteq Held(q) BY <1>2, <1>8 DEF Held
  <2>2. \A w \in {"user", "start"} : Carried(w)' \subseteq Carried(w) BY <1>2 DEF Carried
  <2>3. \A q \in Rows : InUse(q)' => db'[q].msgs \subseteq tabs'[q].msgs
    BY <1>2, <1>4, <1>6, <1>8 DEF Contents, Covers
  <2>4. QED BY <1>2, <1>4, <1>8, <2>1, <2>2, <2>3, ContentsSame
<1>9. CASE Insert(c)
  <2>1. /\ c.op = "insert" /\ Moved(c, "flag")
        /\ RowIs(c.row, "open", db[c.row].cli, db[c.row].was_open)
        /\ procs' = procs
        /\ ids' = ids
    BY <1>3, <1>9, CallEffects
  <2>2. PICK d \in Calls : /\ calls' = (calls \ {c}) \cup {d}
                           /\ d.op = "flag" /\ d.row = c.row
                           /\ Creates(c) => d.resumes = c.resumes
    BY <2>1 DEF Moved
  <2>3. db'[c.row].cli = db[c.row].cli BY <2>1 DEF RowIs
  <2>4. \A q \in Rows : /\ db'[q].msgs = db[q].msgs /\ (db[q].cli => db'[q].cli)
                        /\ q # c.row => db'[q] = db[q]
    BY <2>1, <2>3 DEF RowIs
  <2>5. Contents' BY <1>8, <2>4
  <2>6. \A e \in calls' : e.row \in Rows BY <1>5, <2>2
  <2>7. OneCall' BY <1>4, <2>2 DEF OneCall
  <2>8. Ends'
    <3>1. \A e \in calls' : ~Creates(e) => e \in calls /\ e.row # c.row
      BY <1>4, <2>2 DEF OneCall, Creates
    <3>2. procs' = procs BY <2>1
    <3>3. QED BY <1>2, <1>4, <1>5, <1>6, <2>4, <2>6, <3>1, <3>2 DEF Ends, Creates
  <2>9. Knows' BY <1>2, <1>3, <1>4, <1>6, <2>1, <2>3, <2>4 DEF Knows, Ends, Fresh, Creates, Closing, Saving
  <2>10. Bound'
    <3>1. \A e \in calls' : e \in calls \/ \E f \in calls : /\ f.row = e.row /\ e.resumes = f.resumes
                                                            /\ (e.op = "spawn" /\ f.resumes) => db'[e.row].cli
      BY <2>1, <2>2 DEF Creates, RowIs
    <3>2. QED BY <1>2, <1>4, <1>7, <2>1, <2>4, <2>6, <3>1, BoundSame
  <2>11. QED BY <2>4, <2>5, <2>7, <2>8, <2>9, <2>10 DEF Holding, Orderly
<1>10. CASE Flag(c)
  <2>1. /\ c.op = "flag" /\ Moved(c, "token")
        /\ RowIs(c.row, db[c.row].status, db[c.row].cli, TRUE)
        /\ procs' = procs
        /\ ids' = ids
    BY <1>3, <1>10, CallEffects
  <2>2. PICK d \in Calls : /\ calls' = (calls \ {c}) \cup {d}
                           /\ d.op = "token" /\ d.row = c.row
                           /\ Creates(c) => d.resumes = c.resumes
    BY <2>1 DEF Moved
  <2>3. db'[c.row].cli = db[c.row].cli BY <2>1 DEF RowIs
  <2>4. \A q \in Rows : /\ db'[q].msgs = db[q].msgs /\ (db[q].cli => db'[q].cli)
                        /\ q # c.row => db'[q] = db[q]
    BY <2>1, <2>3 DEF RowIs
  <2>5. Contents' BY <1>8, <2>4
  <2>6. \A e \in calls' : e.row \in Rows BY <1>5, <2>2
  <2>7. OneCall' BY <1>4, <2>2 DEF OneCall
  <2>8. Ends'
    <3>1. \A e \in calls' : ~Creates(e) => e \in calls /\ e.row # c.row
      BY <1>4, <2>2 DEF OneCall, Creates
    <3>2. procs' = procs BY <2>1
    <3>3. QED BY <1>2, <1>4, <1>5, <1>6, <2>4, <2>6, <3>1, <3>2 DEF Ends, Creates
  <2>9. Knows' BY <1>2, <1>3, <1>4, <1>6, <2>1, <2>3, <2>4 DEF Knows, Ends, Fresh, Creates, Closing, Saving
  <2>10. Bound'
    <3>1. \A e \in calls' : e \in calls \/ \E f \in calls : /\ f.row = e.row /\ e.resumes = f.resumes
                                                            /\ (e.op = "spawn" /\ f.resumes) => db'[e.row].cli
      BY <2>1, <2>2 DEF Creates, RowIs
    <3>2. QED BY <1>2, <1>4, <1>7, <2>1, <2>4, <2>6, <3>1, BoundSame
  <2>11. QED BY <2>4, <2>5, <2>7, <2>8, <2>9, <2>10 DEF Holding, Orderly
<1>11. CASE Token(c)
  <2>1. /\ c.op = "token" /\ Moved(c, "spawn")
        /\ RowIs(c.row, db[c.row].status, c.resumes, db[c.row].was_open)
        /\ procs' = procs
        /\ ids' = ids
    BY <1>3, <1>11, CallEffects
  <2>2. PICK d \in Calls : /\ calls' = (calls \ {c}) \cup {d}
                           /\ d.op = "spawn" /\ d.row = c.row
                           /\ Creates(c) => d.resumes = c.resumes
    BY <2>1 DEF Moved
  <2>3. ~db[c.row].cli BY <1>3, <2>1 DEF Fresh, Creates
  <2>4. \A q \in Rows : /\ db'[q].msgs = db[q].msgs /\ (db[q].cli => db'[q].cli)
                        /\ q # c.row => db'[q] = db[q]
    BY <2>1, <2>3 DEF RowIs
  <2>5. Contents' BY <1>8, <2>4
  <2>6. \A e \in calls' : e.row \in Rows BY <1>5, <2>2
  <2>7. OneCall' BY <1>4, <2>2 DEF OneCall
  <2>8. Ends'
    <3>1. \A e \in calls' : ~Creates(e) => e \in calls /\ e.row # c.row
      BY <1>4, <2>2 DEF OneCall, Creates
    <3>2. procs' = procs BY <2>1
    <3>3. QED BY <1>2, <1>4, <1>5, <1>6, <2>4, <2>6, <3>1, <3>2 DEF Ends, Creates
  <2>9. Knows'
    <3>1. app = "up" => ~Closing(c.row) BY <1>3, <2>1 DEF Fresh, Creates
    <3>2. app = "up" => ~Saving(c.row) BY <3>1 DEF Closing, Saving, User
    <3>3. QED BY <1>2, <1>4, <1>5, <1>6, <2>1, <2>4, <3>2 DEF Knows
  <2>10. Bound'
    <3>1. \A e \in calls' : e \in calls \/ \E f \in calls : /\ f.row = e.row /\ e.resumes = f.resumes
                                                            /\ (e.op = "spawn" /\ f.resumes) => db'[e.row].cli
      BY <2>1, <2>2 DEF Creates, RowIs
    <3>2. QED BY <1>2, <1>4, <1>7, <2>1, <2>4, <2>6, <3>1, BoundSame
  <2>11. QED BY <2>4, <2>5, <2>7, <2>8, <2>9, <2>10 DEF Holding, Orderly
<1>12. CASE Spawn(c)
  <2>1. /\ c.op = "spawn" /\ calls' = calls \ {c}
        /\ RowIs(c.row, db[c.row].status, db[c.row].cli, db[c.row].was_open)
        /\ procs \subseteq procs' /\ procs' \subseteq procs \cup {c.row}
        /\ ids' = ids
    BY <1>3, <1>12, CallEffects
  <2>2. calls' \subseteq calls BY <2>1
  <2>3. db'[c.row].cli = db[c.row].cli BY <2>1 DEF RowIs
  <2>4. \A q \in Rows : /\ db'[q].msgs = db[q].msgs /\ (db[q].cli => db'[q].cli)
                        /\ q # c.row => db'[q] = db[q]
    BY <2>1, <2>3 DEF RowIs
  <2>5. Contents' BY <1>8, <2>4
  <2>6. \A e \in calls' : e.row \in Rows BY <1>5, <2>2
  <2>7. OneCall' BY <1>4, <2>2 DEF OneCall
  <2>8. Ends'
    <3>1. \A e \in calls' : e \in calls /\ e.row # c.row BY <1>4, <2>1 DEF OneCall
    <3>2. \A e \in calls' : e.row \in procs' => e.row \in procs BY <2>1, <3>1
    <3>3. QED BY <1>2, <1>4, <1>5, <1>6, <2>4, <2>6, <3>1, <3>2 DEF Ends, Creates
  <2>9. Knows' BY <1>2, <1>3, <1>4, <1>6, <2>1, <2>3, <2>4 DEF Knows, Ends, Fresh, Creates, Closing, Saving
  <2>10. Bound'
    <3>1. \A q \in procs' : q \in procs \/ \E e \in calls : e.row = q /\ e.op = "spawn" BY <2>1
    <3>2. QED BY <1>2, <1>4, <1>7, <2>2, <2>4, <2>6, <3>1, BoundSame
  <2>11. QED BY <2>4, <2>5, <2>7, <2>8, <2>9, <2>10 DEF Holding, Orderly
<1>13. CASE CloseDetails(c)
  <2>1. /\ c.op = "close" /\ Moved(c, "unflag")
        /\ RowIs(c.row, "closed", c.known, db[c.row].was_open)
        /\ procs' = procs
        /\ ids' = ids
    BY <1>3, <1>13, CallEffects
  <2>2. PICK d \in Calls : /\ calls' = (calls \ {c}) \cup {d}
                           /\ d.op = "unflag" /\ d.row = c.row
                           /\ Creates(c) => d.resumes = c.resumes
    BY <2>1 DEF Moved
  <2>3. db[c.row].cli => c.known BY <1>4, <2>1 DEF Ends, Creates
  <2>4. \A q \in Rows : /\ db'[q].msgs = db[q].msgs /\ (db[q].cli => db'[q].cli)
                        /\ q # c.row => db'[q] = db[q]
    BY <2>1, <2>3 DEF RowIs
  <2>5. Contents' BY <1>8, <2>4
  <2>6. \A e \in calls' : e.row \in Rows BY <1>5, <2>2
  <2>7. OneCall' BY <1>4, <2>2 DEF OneCall
  <2>8. Ends'
    <3>1. \A e \in calls' : e = d \/ (e \in calls /\ e.row # c.row) BY <1>4, <2>2 DEF OneCall
    <3>2. procs' = procs /\ ~Creates(c) /\ d.op = "unflag" BY <2>1, <2>2 DEF Creates
    <3>3. QED BY <1>2, <1>4, <1>5, <1>6, <2>2, <2>4, <2>6, <3>1, <3>2 DEF Ends, Creates
  <2>9. Knows' BY <1>2, <1>3, <1>4, <1>6, <2>1, <2>3, <2>4 DEF Knows, Ends, Fresh, Creates, Closing, Saving
  <2>10. Bound'
    <3>1. ~Reserved(c.row) BY <2>1 DEF Reserved, Creates
    <3>2. QED BY <1>2, <1>4, <1>7, <2>1, <2>2, <2>4, <2>6, <3>1, BoundSame
  <2>11. QED BY <2>4, <2>5, <2>7, <2>8, <2>9, <2>10 DEF Holding, Orderly
<1>14. CASE Unflag(c)
  <2>1. /\ c.op = "unflag" /\ calls' = calls \ {c}
        /\ RowIs(c.row, db[c.row].status, db[c.row].cli, FALSE)
        /\ procs' = procs
        /\ ids' = ids \ {c.row}
    BY <1>3, <1>14, CallEffects
  <2>2. calls' \subseteq calls BY <2>1
  <2>3. db'[c.row].cli = db[c.row].cli BY <2>1 DEF RowIs
  <2>4. \A q \in Rows : /\ db'[q].msgs = db[q].msgs /\ (db[q].cli => db'[q].cli)
                        /\ q # c.row => db'[q] = db[q]
    BY <2>1, <2>3 DEF RowIs
  <2>5. Contents' BY <1>8, <2>4
  <2>6. \A e \in calls' : e.row \in Rows BY <1>5, <2>2
  <2>7. OneCall' BY <1>4, <2>2 DEF OneCall
  <2>8. Ends'
    <3>1. \A e \in calls' : e \in calls /\ e.row # c.row BY <1>4, <2>1 DEF OneCall
    <3>2. procs' = procs BY <2>1
    <3>3. QED BY <1>2, <1>4, <1>5, <1>6, <2>4, <2>6, <3>1, <3>2 DEF Ends, Creates
  <2>9. Knows' BY <1>2, <1>3, <1>4, <1>6, <2>1, <2>3, <2>4 DEF Knows, Ends, Fresh, Creates, Closing, Saving
  <2>10. Bound'
    BY <1>2, <1>4, <1>7, <2>1, <2>2, <2>4, <2>6, BoundSame
  <2>11. QED BY <2>4, <2>5, <2>7, <2>8, <2>9, <2>10 DEF Holding, Orderly
<1>15. QED BY <1>1, <1>9, <1>10, <1>11, <1>12, <1>13, <1>14

\* A job begins that waits for a new session.
LEMMA BeginHolds ==
  ASSUME Steady, Flagging, Holding, app = "up", UNCHANGED <<db, app, procs, ids, sent>>,
         NEW b \in Unused, NEW resumes \in BOOLEAN, Created(b, resumes),
         NEW who \in {"user", "start"}, NEW job, JobIs(who, job), job.to = b,
         job.kind \in {"new", "resume", "listed"},
         job.kind # "new" => resumes /\ job.from \in Rows /\ db[job.from].cli,
         job.kind = "resume" => job.msgs = tabs[job.from].msgs,
         who = "user" => jobs[who].kind \notin {"saving", "closing"},
         \A q \in Rows : tabs'[q] \in {tabs[q], NoTab},
         boot'.todo \subseteq boot.todo, boot'.live = boot.live \/ boot'.todo = {}
  PROVE  Holding'
<1>1. TypeOK /\ Inserted BY DEF Steady
<1>2. OneCall /\ Ends /\ Knows /\ Bound /\ Contents BY DEF Holding, Orderly
<1>3. b \in Rows /\ db[b].status = "none" /\ \A c \in calls : c.row # b BY DEF Unused
<1>4. b \notin procs /\ db[b].msgs = {} BY <1>1, <1>3 DEF Inserted
<1>5. PICK d : calls' = calls \cup {d} /\ d.op = "insert" /\ d.row = b /\ d.resumes = resumes
  BY DEF Created
<1>6. jobs'[who] = job /\ \A w \in {"user", "start"} : w # who => jobs'[w] = jobs[w]
  BY DEF JobIs, Other
<1>7. \A q \in Rows : /\ (Closing(q)' <=> Closing(q)) /\ (Saving(q)' <=> Saving(q))
                      /\ (Asked(q)' <=> Asked(q))
  BY <1>6 DEF Closing, Saving, Asked, User
<1>8. \A q \in Rows : tabs'[q].kind \in {tabs[q].kind, "none"} BY DEF NoTab
<1>9. \A c \in calls : c.row \in Rows BY <1>1, Callers
<1>10. OneCall' BY <1>2, <1>3, <1>5 DEF OneCall
<1>11. Ends'
  <2>1. \A c \in calls' : ~Creates(c) => c \in calls BY <1>5 DEF Creates
  <2>2. QED BY <1>2, <1>7, <1>8, <1>9, <2>1 DEF Ends, InUse, Creates
<1>12. Knows' BY <1>2, <1>7, <1>8 DEF Knows
<1>13. Bound'
  <2>1. SUFFICES ASSUME NEW w \in {"user", "start"}, Opens(w)'
                 PROVE  /\ db[jobs'[w].to].msgs = {}
                        /\ jobs'[w].kind # "new" =>
                             /\ db[jobs'[w].from].cli
                             /\ jobs'[w].to \in procs => db[jobs'[w].to].cli
                             /\ \A c \in calls' : c.row = jobs'[w].to =>
                                  c.resumes /\ (c.op = "spawn" => db[c.row].cli)
    BY DEF Bound
  <2>2. CASE w = who BY <1>3, <1>4, <1>5, <1>6, <2>2
  <2>3. CASE w # who
    <3>1. Opens(w) /\ jobs'[w] = jobs[w] BY <1>6, <2>1, <2>3 DEF Opens
    <3>2. jobs[w].to \in Rows /\ Reserved(jobs[w].to) BY <1>1, <3>1, ToIsRow DEF Flagging, Awaited
    <3>3. jobs[w].to # b BY <1>3, <3>2 DEF Reserved
    <3>4. QED BY <1>2, <1>5, <3>1, <3>3 DEF Bound
  <2>4. QED BY <2>2, <2>3
<1>14. Contents'
  <2>1. Written /\ Own /\ Covers BY <1>2 DEF Contents
  <2>2. \A q \in Rows : Held(q)' \subseteq Held(q) BY DEF Held, NoTab
  <2>3. \A w \in {"user", "start"} : Carried(w)' \subseteq Carried(w) \cup
          (IF job.kind = "resume" THEN Held(job.from) ELSE {})
    BY <1>6 DEF Carried, Held
  <2>4. Written' BY <2>1, <2>2, <2>3 DEF Written
  <2>5. Own'
    <3>1. SUFFICES ASSUME NEW q \in Rows, ~db[q].cli, NEW m \in Held(q)'
                   PROVE  /\ \A p \in Rows \ {q} : m \notin Held(p)'
                          /\ \A w \in {"user", "start"} : m \notin Carried(w)'
      BY DEF Own
    <3>2. m \in Held(q) BY <2>2
    <3>3. /\ \A p \in Rows \ {q} : m \notin Held(p)
          /\ \A w \in {"user", "start"} : m \notin Carried(w)
      BY <2>1, <3>1, <3>2 DEF Own
    <3>4. job.kind = "resume" => m \notin Held(job.from) BY <3>1, <3>3
    <3>5. QED BY <2>2, <2>3, <3>3, <3>4
  <2>6. Covers'
    <3>1. \A q \in Rows : InUse(q)' => tabs'[q] = tabs[q] BY DEF InUse, NoTab
    <3>2. QED BY <2>1, <3>1 DEF Covers, InUse
  <2>7. QED BY <2>4, <2>5, <2>6 DEF Contents
<1>15. QED BY <1>10, <1>11, <1>12, <1>13, <1>14 DEF Holding, Orderly

\* The jobs of the user and of the start end, go on or stay.
LEMMA JobsSame ==
  ASSUME \A w \in {"user", "start"} :
            jobs'[w] = jobs[w] \/ jobs'[w].kind \in {"idle", "swap", "saving", "closing"}
  PROVE  /\ \A w \in {"user", "start"} : Opens(w)' => Opens(w) /\ jobs'[w] = jobs[w]
         /\ \A w \in {"user", "start"} : Carried(w)' \subseteq Carried(w)
BY DEF Opens, Carried

\* Nothing is written, tabs may go.
LEMMA StillHolds ==
  ASSUME Steady, Flagging, Holding, app' = "up" => app = "up", UNCHANGED <<db, ids, sent>>,
         calls' \subseteq calls, procs' \subseteq procs,
         \A q \in Rows : tabs'[q] \in {tabs[q], NoTab},
         \A w \in {"user", "start"} :
            jobs'[w] = jobs[w] \/ jobs'[w].kind \in {"idle", "swap", "saving", "closing"},
         app' = "up" =>
            /\ boot'.todo \subseteq boot.todo
            /\ boot'.live = boot.live \/ boot'.todo = {}
            /\ \A q \in Rows : /\ Closing(q)' => Closing(q)
                               /\ Saving(q)' => Saving(q)
                               /\ Asked(q) => Asked(q)'
  PROVE  Holding'
<1>1. TypeOK BY DEF Steady
<1>2. \A q \in Rows : tabs'[q].kind \in {tabs[q].kind, "none"} BY DEF NoTab
<1>3. Orderly' BY <1>1, <1>2, OrderlySame DEF Holding
<1>4. \A c \in calls' : c.row \in Rows BY <1>1, Callers
<1>5. Bound' BY <1>4, JobsSame, BoundSame DEF Holding
<1>6. Contents' BY JobsSame, ContentsStay DEF Holding
<1>7. QED BY <1>3, <1>5, <1>6 DEF Holding

LEMMA SwapHolds ==
  ASSUME Steady, Flagging, Holding, app = "up", NEW who \in {"user", "start"}, Swap(who),
         UNCHANGED <<db, app, procs, ids, calls, boot, sent>>
  PROVE  Holding'
<1>1. TypeOK BY DEF Steady
<1>2. jobs[who].from \in Rows /\ jobs[who].kind = "swap" BY <1>1 DEF TypeOK, Swap, Jobs
<1>3. \A q \in Rows : tabs'[q] \in {tabs[q], NoTab} BY <1>1, <1>2 DEF TypeOK, Swap, Removed
<1>4. JobIs(who, Idle) BY <1>1, Begins DEF Swap
<1>5. \A w \in {"user", "start"} :
        jobs'[w] = jobs[w] \/ jobs'[w].kind \in {"idle", "swap", "saving", "closing"}
  BY <1>4 DEF JobIs, Other, Idle
<1>6. \A q \in Rows : /\ Closing(q)' => Closing(q)
                      /\ Saving(q)' => Saving(q)
                      /\ Asked(q) => Asked(q)'
  BY <1>2, <1>4 DEF JobIs, Other, Idle, Closing, Saving, Asked, User
<1>7. QED BY <1>3, <1>5, <1>6, StillHolds

LEMMA ReturnsHold ==
  ASSUME Steady, Flagging, Holding, app = "up", NEW who \in {"user", "start"}, Returns(who),
         UNCHANGED <<db, app, procs, ids, calls, boot, sent>>
  PROVE  Holding'
<1> DEFINE job == jobs[who]
           r == job.to
<1>1. TypeOK BY DEF Steady
<1>2. OneCall /\ Ends /\ Knows /\ Bound /\ Contents BY DEF Holding, Orderly
<1>3. /\ job.kind \in {"new", "resume", "listed"} /\ ~Running(r) /\ r \in Rows
      /\ \/ r \notin procs /\ tabs' = tabs /\ JobIs(who, Idle)
         \/ /\ r \in procs /\ tabs'[r] = [kind |-> "live", msgs |-> Loaded(job)]
            /\ \A q \in Rows \ {r} : tabs'[q] = tabs[q]
            /\ JobIs(who, Idle) \/ JobIs(who, [kind |-> "swap", from |-> job.from])
  BY <1>1, ReturnsEffects
<1>4. \A w \in {"user", "start"} :
        jobs'[w] = jobs[w] \/ jobs'[w].kind \in {"idle", "swap", "saving", "closing"}
  BY <1>3 DEF JobIs, Other, Idle
<1>5. \A q \in Rows : /\ Closing(q)' => Closing(q)
                      /\ Saving(q)' => Saving(q)
                      /\ Asked(q) => Asked(q)'
  BY <1>3 DEF JobIs, Other, Idle, Closing, Saving, Asked, User
<1>6. CASE r \notin procs
  <2>1. \A q \in Rows : tabs'[q] \in {tabs[q], NoTab} BY <1>3, <1>6
  <2>2. QED BY <1>4, <1>5, <2>1, StillHolds
<1>7. CASE r \in procs
  <2>1. /\ tabs'[r].kind = "live" /\ tabs'[r].msgs = Loaded(job)
        /\ \A q \in Rows \ {r} : tabs'[q] = tabs[q]
    BY <1>3, <1>7
  <2>2. Opens(who) BY <1>3 DEF Opens
  <2>3. /\ db[r].msgs = {}
        /\ job.kind # "new" => db[r].cli /\ db[job.from].cli
    BY <1>2, <1>7, <2>2 DEF Bound
  <2>4. Reserved(r) BY <2>2 DEF Flagging, Awaited
  <2>5. job.kind # "new" => job.from \in Rows
    <3>1. job \in Jobs BY <1>1 DEF TypeOK
    <3>2. QED BY <1>3, <3>1 DEF Jobs
  <2>6. Loaded(job) \subseteq Carried(who) \cup (IF job.kind = "new" THEN {} ELSE Held(job.from))
    BY DEF Loaded, Carried, Held
  <2>7. job.kind = "new" => Loaded(job) = {} BY DEF Loaded
  <2>8. \A c \in calls : c.row \in Rows /\ c.row # r BY <1>1, <1>3, Callers DEF Running
  <2>9. Bound' BY <1>1, <1>4, <2>8, JobsSame, BoundSame DEF Holding
  <2> HIDE DEF r
  <2>10. Ends' BY <1>2, <1>5, <2>1, <2>8 DEF Ends, InUse, Creates
  <2>11. Knows' BY <1>2, <1>5, <2>1, <2>4 DEF Knows, Reserved, Marked
  <2> HIDE DEF job
  <2>12. Written /\ Own /\ Covers BY <1>2 DEF Contents
  <2>13. \A q \in Rows : q = r => Held(q)' = Loaded(job) BY <2>1, <2>3 DEF Held
  <2>14. \A q \in Rows \ {r} : Held(q)' = Held(q) BY <2>1 DEF Held
  <2>15. \A w \in {"user", "start"} : Carried(w)' \subseteq Carried(w) BY <1>4, JobsSame
  <2>16. Written' BY <1>3, <2>5, <2>6, <2>12, <2>13, <2>14, <2>15 DEF Written
  <2>17. Own'
    <3>1. SUFFICES ASSUME NEW q \in Rows, ~db[q].cli, NEW m \in Held(q)'
                   PROVE  /\ \A p \in Rows \ {q} : m \notin Held(p)'
                          /\ \A w \in {"user", "start"} : m \notin Carried(w)'
      BY DEF Own
    <3>2. q # r
      <4>1. SUFFICES ASSUME q = r PROVE FALSE OBVIOUS
      <4>2. m \in Loaded(job) BY <2>13, <3>1, <4>1
      <4>3. QED BY <2>3, <2>7, <3>1, <4>1, <4>2
    <3>3. /\ \A p \in Rows \ {q} : m \notin Held(p)
          /\ \A w \in {"user", "start"} : m \notin Carried(w)
      BY <2>12, <2>14, <3>1, <3>2 DEF Own
    <3>4. m \notin Loaded(job) BY <2>3, <2>5, <2>6, <3>1, <3>3
    <3>5. QED BY <2>13, <2>14, <2>15, <3>3, <3>4
  <2>18. Covers' BY <2>1, <2>3, <2>12 DEF Covers, InUse
  <2>19. QED BY <1>2, <2>9, <2>10, <2>11, <2>16, <2>17, <2>18
             DEF Holding, Orderly, Contents, OneCall
<1>8. QED BY <1>6, <1>7

LEMMA CloseHolds ==
  ASSUME Steady, Flagging, Holding, CloseAsks \/ CloseReturns PROVE Holding'
<1>1. TypeOK /\ Fresh BY DEF Steady
<1>2. OneCall /\ Ends /\ Knows /\ Bound /\ Contents BY DEF Holding, Orderly
<1> DEFINE r == jobs["user"].from
<1>3. r \in Rows /\ r = User.from /\ Closing(r) /\ app = "up"
  BY <1>1 DEF TypeOK, CloseAsks, CloseReturns, Jobs, User, Closing
<1>4. CASE CloseAsks
  <2> DEFINE d == [op |-> "close", row |-> r, known |-> r \in ids]
  <2>1. jobs["user"].kind = "saving" BY <1>4 DEF CloseAsks
  <2>2. JobIs("user", [kind |-> "closing", from |-> r]) BY <1>1, <1>4, Begins DEF CloseAsks
  <2>3. calls' = calls \cup {d} /\ d.row = r /\ d.op = "close" /\ (d.known <=> r \in ids)
    BY <1>4 DEF CloseAsks
  <2>4. procs' = procs \ {r} /\ UNCHANGED <<db, app, ids, tabs, boot, sent>> BY <1>4 DEF CloseAsks
  <2>5. Saving(r) /\ \A q \in Rows : (Saving(q) <=> q = r) /\ ~Saving(q)' /\ ~Asked(q)
    BY <1>3, <2>1, <2>2 DEF Saving, Asked, User, JobIs
  <2>6. \A q \in Rows : (Asked(q)' <=> q = r) /\ (Closing(q)' => Closing(q))
    BY <1>3, <2>1, <2>2 DEF Closing, Asked, User, JobIs
  <2>7. \A w \in {"user", "start"} :
          jobs'[w] = jobs[w] \/ jobs'[w].kind \in {"idle", "swap", "saving", "closing"}
    BY <2>2 DEF JobIs, Other
  <2>8. \A c \in calls : c.row \in Rows BY <1>1, Callers
  <2> HIDE DEF r, d
  <2>9. \A c \in calls : c.row # r
    <3>1. SUFFICES ASSUME NEW c \in calls, c.row = r PROVE FALSE OBVIOUS
    <3>2. CASE Creates(c) BY <1>1, <1>3, <3>1, <3>2 DEF Fresh
    <3>3. CASE ~Creates(c) BY <1>2, <1>3, <2>5, <3>1, <3>3 DEF Ends
    <3>4. QED BY <3>2, <3>3
  <2>10. OneCall' BY <1>2, <2>3, <2>9 DEF OneCall
  <2>11. Ends'
    <3>1. SUFFICES ASSUME NEW c \in calls', ~Creates(c)
                   PROVE  /\ c.row \notin procs'
                          /\ c.op = "close" /\ ~c.known => ~db[c.row].cli
                          /\ /\ ~(c.row \in boot.todo /\ c.row \in boot.live)
                             /\ InUse(c.row)' => Asked(c.row)'
                             /\ ~Saving(c.row)'
      BY <2>4 DEF Ends, Creates
    <3>2. CASE c \in calls BY <1>2, <1>3, <2>4, <2>5, <2>8, <3>1, <3>2 DEF Ends, InUse
    <3>3. CASE c = d BY <1>2, <1>3, <2>3, <2>4, <2>5, <2>6, <3>3 DEF Knows
    <3>4. QED BY <2>3, <3>2, <3>3
  <2>12. Knows' BY <1>2, <1>3, <2>4, <2>5, <2>6 DEF Knows
  <2>13. Bound'
    <3>1. ~Reserved(r) BY <1>3 DEF Reserved
    <3>2. \A c \in calls' : c.row \in Rows /\ (c \in calls \/ ~Reserved(c.row))
      BY <1>3, <2>3, <2>8, <3>1
    <3>3. QED BY <2>4, <2>7, <3>2, JobsSame, BoundSame DEF Holding
  <2>14. Contents' BY <2>4, <2>7, JobsSame, ContentsStay DEF Holding
  <2>15. QED BY <2>10, <2>11, <2>12, <2>13, <2>14 DEF Holding, Orderly
<1>5. CASE CloseReturns
  <2>1. UNCHANGED <<db, app, procs, ids, calls, boot, sent>> /\ ~Running(r) BY <1>5 DEF CloseReturns
  <2>2. JobIs("user", Idle) BY <1>1, <1>5, Begins DEF CloseReturns
  <2>3. tabs'[r] = NoTab /\ \A q \in Rows \ {r} : tabs'[q] = tabs[q]
    BY <1>1, <1>3, <1>5 DEF TypeOK, CloseReturns, Removed
  <2>4. \A q \in Rows : /\ ~Closing(q)' /\ ~Saving(q)'
                        /\ Asked(q) => q = r
    BY <1>3, <2>2 DEF Closing, Saving, Asked, User, JobIs, Idle
  <2>5. \A w \in {"user", "start"} :
          jobs'[w] = jobs[w] \/ jobs'[w].kind \in {"idle", "swap", "saving", "closing"}
    BY <2>2 DEF JobIs, Other, Idle
  <2>6. \A c \in calls : c.row \in Rows /\ c.row # r BY <1>1, <2>1, Callers DEF Running
  <2>7. \A q \in Rows : tabs'[q] \in {tabs[q], NoTab} /\ tabs'[q].kind \in {tabs[q].kind, "none"}
    BY <2>3 DEF NoTab
  <2> HIDE DEF r
  <2>8. Ends' BY <1>2, <1>3, <2>1, <2>4, <2>6, <2>7 DEF Ends, InUse, Creates
  <2>9. Knows' BY <1>2, <1>3, <2>1, <2>4, <2>7 DEF Knows
  <2>10. Bound' BY <2>1, <2>5, <2>6, JobsSame, BoundSame DEF Holding
  <2>11. Contents' BY <2>1, <2>5, <2>7, JobsSame, ContentsStay DEF Holding
  <2>12. QED BY <1>2, <2>1, <2>8, <2>9, <2>10, <2>11 DEF Holding, Orderly, OneCall
<1>6. QED BY <1>4, <1>5

\* A statement that leaves ids and messages alone.
LEMMA ResavedHolds ==
  ASSUME Steady, Flagging, Holding, app' = "up" => app = "up", \A q \in Rows : Resaved(q),
         UNCHANGED <<procs, ids, calls, tabs, jobs, sent>>,
         app' = "up" => boot' = boot
  PROVE  Holding'
<1>1. TypeOK BY DEF Steady
<1>2. \A q \in Rows : db'[q].cli = db[q].cli /\ db'[q].msgs = db[q].msgs BY DEF Resaved
<1>3. Orderly' BY <1>1, <1>2, OrderlySame DEF Holding, Closing, Saving, Asked, User
<1>4. \A c \in calls' : c.row \in Rows BY <1>1, Callers
<1>5. \A w \in {"user", "start"} : Carried(w)' \subseteq Carried(w) BY DEF Carried
<1>6. Bound' BY <1>2, <1>4, BoundSame DEF Holding, Opens
<1>7. \A q \in Rows : Held(q)' \subseteq Held(q) BY <1>2 DEF Held
<1>8. \A q \in Rows : InUse(q)' => db'[q].msgs \subseteq tabs'[q].msgs
  BY <1>2 DEF Holding, Contents, Covers, InUse
<1>9. Contents' BY <1>2, <1>5, <1>7, <1>8, ContentsSame DEF Holding
<1>10. QED BY <1>3, <1>6, <1>9 DEF Holding

LEMMA ResumeHolds ==
  ASSUME Steady, Flagging, Holding, app = "up", UNCHANGED <<db, app, procs, ids, sent>>,
         NEW who \in {"user", "start"}, NEW r \in Rows,
         Resume(who, r), who = "user" => jobs[who].kind \notin {"saving", "closing"},
         boot'.todo \subseteq boot.todo, boot'.live = boot.live \/ boot'.todo = {}
  PROVE  Holding'
<1>1. TypeOK BY DEF Steady
<1>2. /\ tabs[r].kind = "paused"
      /\ tabs'[r] \in {tabs[r], NoTab} /\ \A q \in Rows \ {r} : tabs'[q] = tabs[q]
  BY <1>1, ResumeEffects
<1>3. \A q \in Rows : tabs'[q] \in {tabs[q], NoTab} BY <1>2
<1>4. CASE calls' = calls /\ jobs' = jobs
  <2>1. \A q \in Rows : /\ Closing(q)' => Closing(q)
                        /\ Saving(q)' => Saving(q)
                        /\ Asked(q) => Asked(q)'
    BY <1>4 DEF Closing, Saving, Asked, User
  <2>2. QED BY <1>3, <1>4, <2>1, StillHolds
<1>5. CASE \E b \in Unused : /\ Created(b, TRUE)
                             /\ JobIs(who, [kind |-> "resume", from |-> r, to |-> b,
                                            msgs |-> tabs[r].msgs])
  <2>1. PICK b \in Unused : /\ Created(b, TRUE)
                            /\ JobIs(who, [kind |-> "resume", from |-> r, to |-> b,
                                           msgs |-> tabs[r].msgs])
    BY <1>5
  <2> DEFINE job == [kind |-> "resume", from |-> r, to |-> b, msgs |-> tabs[r].msgs]
  <2>2. /\ job.to = b /\ job.kind = "resume" /\ job.from = r /\ job.msgs = tabs[r].msgs
        /\ JobIs(who, job)
    BY <2>1
  <2>3. db[r].cli BY <1>2 DEF Holding, Orderly, Knows
  <2> HIDE DEF job
  <2>4. QED BY <1>3, <2>1, <2>2, <2>3, BeginHolds
<1>6. QED BY <1>1, <1>4, <1>5, ResumeEffects

LEMMA NewHolds ==
  ASSUME Steady, Flagging, Holding, New PROVE Holding'
<1>1. TypeOK BY DEF Steady
<1>2. PICK b \in Unused : Begin("user", [kind |-> "new", to |-> b]) /\ calls' = Create(b, FALSE)
  BY DEF New
<1>3. b \in Rows BY DEF Unused
<1> DEFINE job == [kind |-> "new", to |-> b]
<1>4. job.to = b /\ job.kind = "new" /\ JobIs("user", job) /\ Created(b, FALSE)
  BY <1>1, <1>2, <1>3, Creating, Begins
<1>5. /\ app = "up" /\ UNCHANGED <<db, app, procs, ids, tabs, boot, sent>>
      /\ jobs["user"].kind = "idle"
  BY DEF New, AtLeisure, Idle
<1> HIDE DEF job
<1>6. QED BY <1>4, <1>5, BeginHolds

\* Saving what a tab shows.
LEMMA SavingContents ==
  ASSUME TypeOK, Contents, NEW r \in Rows, db' = Saved(r, tabs[r].msgs), UNCHANGED <<tabs, sent>>,
         \A w \in {"user", "start"} : Carried(w)' \subseteq Carried(w)
  PROVE  Contents'
<1>1. /\ \A q \in Rows : db'[q].cli = db[q].cli
      /\ db'[r].msgs = tabs[r].msgs
      /\ \A q \in Rows \ {r} : db'[q].msgs \subseteq db[q].msgs
  BY SavedEffects
<1>2. \A q \in Rows : Held(q)' \subseteq Held(q) BY <1>1 DEF Held
<1>3. \A q \in Rows : InUse(q)' => db'[q].msgs \subseteq tabs'[q].msgs
  BY <1>1 DEF Contents, Covers, InUse
<1>4. QED BY <1>1, <1>2, <1>3, ContentsSame

LEMMA CloseBegins ==
  ASSUME "dismiss" \notin Acts, "early" \notin Acts,
         Steady, Flagging, Holding, NEW r \in Rows, Close(r)
  PROVE  Holding' /\ InUse(r)
<1>1. TypeOK BY DEF Steady
<1>2. OneCall /\ Ends /\ Knows /\ Bound /\ Contents BY DEF Holding, Orderly
<1>3. /\ app = "up" /\ jobs["user"] = Idle /\ Begin("user", [kind |-> "saving", from |-> r])
      /\ db' = (IF tabs[r].msgs # {} THEN Saved(r, tabs[r].msgs) ELSE db)
      /\ UNCHANGED <<app, procs, ids, calls, tabs, boot, sent>>
  BY DEF Close, AtLeisure
<1>4. InUse(r) /\ (db[r].cli => r \in ids)
  BY <1>1 DEF Close, MayClose, TypeOK, TabKinds, InUse
<1>5. JobIs("user", [kind |-> "saving", from |-> r]) BY <1>1, <1>3, Begins
<1>6. \A q \in Rows : /\ ~Asked(q) /\ ~Asked(q)'
                      /\ Saving(q)' => q = r
                      /\ Closing(q)' => q = r
  BY <1>3, <1>5 DEF Asked, Saving, Closing, User, JobIs, Idle
<1>7. \A w \in {"user", "start"} :
        jobs'[w] = jobs[w] \/ jobs'[w].kind \in {"idle", "swap", "saving", "closing"}
  BY <1>5 DEF JobIs, Other
<1>8. \A c \in calls : c.row \in Rows BY <1>1, Callers
<1>9. \A q \in Rows : db'[q].cli = db[q].cli /\ (q # r => db'[q].msgs \subseteq db[q].msgs)
  BY <1>1, <1>3, SavedEffects
<1>10. Ends'
  <2>1. \A c \in calls : ~Creates(c) => c.row # r BY <1>2, <1>3, <1>4, <1>6, <1>8 DEF Ends
  <2>2. QED BY <1>2, <1>3, <1>6, <1>8, <1>9, <2>1 DEF Ends, InUse, Creates
<1>11. Knows'
  <2>1. r \notin boot.todo BY <1>2, <1>3, <1>4 DEF Knows, InUse
  <2>2. QED BY <1>2, <1>3, <1>4, <1>6, <1>9, <2>1 DEF Knows
<1>12. Bound'
  <2>1. \A q \in Rows : tabs[q].kind = "none" => db'[q].msgs \subseteq db[q].msgs
    BY <1>4, <1>9 DEF InUse
  <2>2. QED BY <1>2, <1>3, <1>7, <1>8, <1>9, <2>1, JobsSame, BoundSame
<1>13. Contents'
  <2>1. CASE db' = db
    BY <1>2, <1>3, <1>7, <2>1, JobsSame, ContentsStay
  <2>2. CASE db' = Saved(r, tabs[r].msgs)
    BY <1>1, <1>2, <1>3, <1>7, <2>2, JobsSame, SavingContents
  <2>3. QED BY <1>3, <2>1, <2>2
<1>14. QED BY <1>2, <1>3, <1>4, <1>10, <1>11, <1>12, <1>13 DEF Holding, Orderly, OneCall

LEMMA WriteHolds ==
  ASSUME Steady, Flagging, Holding, NEW r \in Rows, Write(r) PROVE Holding'
<1>1. TypeOK BY DEF Steady
<1>2. Written /\ Own /\ Covers BY DEF Holding, Contents
<1>3. PICK m \in Messages \ sent : /\ sent' = sent \cup {m}
                                   /\ tabs' = [tabs EXCEPT ![r].msgs = @ \cup {m}]
  BY DEF Write
<1>4. UNCHANGED <<db, app, procs, ids, calls, boot, jobs>> BY DEF Write
<1>5. /\ \A q \in Rows : tabs'[q].kind = tabs[q].kind
      /\ tabs'[r].msgs = tabs[r].msgs \cup {m}
      /\ \A q \in Rows \ {r} : tabs'[q] = tabs[q]
  <2>1. tabs[r] \in TabType BY <1>1 DEF TypeOK, TabType
  <2>2. tabs'[r] = [tabs[r] EXCEPT !.msgs = @ \cup {m}] /\ \A q \in Rows \ {r} : tabs'[q] = tabs[q]
    BY <1>1, <1>3 DEF TypeOK
  <2>3. QED BY <2>1, <2>2 DEF TabType
<1>6. \A q \in Rows : Held(q)' \subseteq Held(q) \cup {m} /\ (q # r => Held(q)' = Held(q))
  BY <1>4, <1>5 DEF Held
<1>7. \A w \in {"user", "start"} : Carried(w)' = Carried(w) BY <1>4 DEF Carried
<1>8. \A q \in Rows : m \notin Held(q) BY <1>2, <1>3 DEF Written
<1>9. \A w \in {"user", "start"} : m \notin Carried(w) BY <1>2, <1>3 DEF Written
<1>10. Orderly'
  BY <1>1, <1>4, <1>5, OrderlySame DEF Holding, Closing, Saving, Asked, User
<1>11. \A c \in calls : c.row \in Rows BY <1>1, Callers
<1>12. Bound' BY <1>4, <1>11, BoundSame DEF Holding, Opens
<1>13. Written' BY <1>2, <1>3, <1>6, <1>7 DEF Written
<1>14. Own'
  <2>1. SUFFICES ASSUME NEW q \in Rows, ~db[q].cli, NEW k \in Held(q)'
                 PROVE  /\ \A p \in Rows \ {q} : k \notin Held(p)'
                        /\ \A w \in {"user", "start"} : k \notin Carried(w)'
    BY <1>4 DEF Own
  <2>2. CASE k = m
    <3>1. q = r BY <1>6, <1>8, <2>1, <2>2
    <3>2. QED BY <1>6, <1>7, <1>8, <1>9, <2>2, <3>1
  <2>3. CASE k # m
    <3>1. k \in Held(q) BY <1>6, <2>1, <2>3
    <3>2. QED BY <1>2, <1>6, <1>7, <2>1, <2>3, <3>1 DEF Own
  <2>4. QED BY <2>2, <2>3
<1>15. Covers' BY <1>2, <1>4, <1>5 DEF Covers, InUse
<1>16. QED BY <1>10, <1>12, <1>13, <1>14, <1>15 DEF Holding, Contents

LEMMA RestoreHolds ==
  ASSUME Steady, Flagging, Holding, NEW r \in Rows, Restore(r) PROVE Holding'
<1>1. TypeOK BY DEF Steady
<1>2. OneCall /\ Ends /\ Knows /\ Bound /\ Contents BY DEF Holding, Orderly
<1>3. /\ app = "up" /\ UNCHANGED <<db, app, procs, ids, calls, jobs, sent>>
      /\ r \in boot.todo /\ boot'.todo = boot.todo \ {r} /\ boot'.live = boot.live
      /\ \A q \in Rows \ {r} : tabs'[q] = tabs[q]
      /\ \/ tabs'[r] = tabs[r] /\ tabs[r].kind # "none"
         \/ /\ tabs'[r].kind = IF r \in boot.live THEN "reattached" ELSE "paused"
            /\ tabs'[r].msgs = db[r].msgs
  BY <1>1 DEF Restore, TypeOK, Opened, Open
<1>4. \A q \in Rows : /\ (Closing(q)' <=> Closing(q)) /\ (Saving(q)' <=> Saving(q))
                      /\ (Asked(q)' <=> Asked(q))
  BY <1>3 DEF Closing, Saving, Asked, User
<1>5. \A c \in calls : c.row \in Rows BY <1>1, Callers
<1>6. Ends'
  <2>1. \A c \in calls : ~Creates(c) => (InUse(c.row)' => InUse(c.row))
    BY <1>2, <1>3, <1>5 DEF Ends, InUse
  <2>2. QED BY <1>2, <1>3, <1>4, <1>5, <2>1 DEF Ends, Creates
<1>7. Knows' BY <1>2, <1>3, <1>4 DEF Knows
<1>8. Bound' BY <1>2, <1>3, <1>5, BoundSame DEF Opens
<1>9. Contents'
  <2>1. \A q \in Rows : Held(q)' \subseteq Held(q) BY <1>3 DEF Held
  <2>2. \A q \in Rows : InUse(q)' => db'[q].msgs \subseteq tabs'[q].msgs
    BY <1>2, <1>3 DEF Contents, Covers, InUse
  <2>3. QED BY <1>2, <1>3, <2>1, <2>2, ContentsSame DEF Carried
<1>10. QED BY <1>2, <1>3, <1>6, <1>7, <1>8, <1>9 DEF Holding, Orderly, OneCall

LEMMA RowHolds ==
  ASSUME "dismiss" \notin Acts, "early" \notin Acts, Steady, Flagging, Holding, NEW r \in Rows,
         \/ Acknowledge(r) \/ CliReports(r)
         \/ ResumeTab(r) \/ ResumeListed(r) \/ Close(r)
         \/ Write(r) \/ Flush(r) \/ Restore(r)
  PROVE  Holding'
<1>1. TypeOK BY DEF Steady
<1>2. OneCall /\ Ends /\ Knows /\ Bound /\ Contents BY DEF Holding, Orderly
<1>3. \A c \in calls : c.row \in Rows BY <1>1, Callers
<1>4. CASE Acknowledge(r)
  <2>1. UNCHANGED <<app, procs, ids, calls, tabs, boot, jobs, sent>> BY <1>4 DEF Acknowledge
  <2>2. \A q \in Rows : Resaved(q) BY <1>1, <1>4, AckEffects DEF RowIs, Resaved
  <2>3. QED BY <2>1, <2>2, ResavedHolds
<1>5. CASE CliReports(r)
  <2>1. UNCHANGED <<app, procs, calls, tabs, boot, jobs, sent>> BY <1>5 DEF CliReports
  <2>2. /\ r \in procs /\ ids' = ids \cup {r}
        /\ \A q \in Rows : /\ db'[q].msgs = db[q].msgs
                           /\ IF q = r THEN db'[q].cli ELSE db'[q].cli = db[q].cli
    BY <1>1, <1>5, ReportEffects DEF RowIs
  <2>3. \A q \in Rows : /\ (Closing(q)' <=> Closing(q)) /\ (Saving(q)' <=> Saving(q))
                        /\ (Asked(q)' <=> Asked(q)) /\ (InUse(q)' <=> InUse(q))
    BY <2>1 DEF Closing, Saving, Asked, User, InUse
  <2>4. Ends'
    <3>1. \A c \in calls : ~Creates(c) => c.row # r BY <1>2, <2>2 DEF Ends
    <3>2. QED BY <1>2, <1>3, <2>1, <2>2, <2>3, <3>1 DEF Ends, Creates
  <2>5. Knows' BY <1>2, <2>1, <2>2, <2>3 DEF Knows
  <2>6. Bound' BY <1>2, <1>3, <2>1, <2>2, BoundSame DEF Opens
  <2>7. Contents'
    <3>1. \A q \in Rows : Held(q)' \subseteq Held(q) BY <2>1, <2>2 DEF Held
    <3>2. \A q \in Rows : InUse(q)' => db'[q].msgs \subseteq tabs'[q].msgs
      BY <1>2, <2>1, <2>2, <2>3 DEF Contents, Covers
    <3>3. QED BY <1>2, <2>1, <2>2, <3>1, <3>2, ContentsSame DEF Carried
  <2>8. QED BY <1>2, <2>1, <2>4, <2>5, <2>6, <2>7 DEF Holding, Orderly, OneCall
<1>6. CASE ResumeTab(r)
  BY <1>6, ResumeHolds DEF ResumeTab, AtLeisure, Idle
<1>7. CASE ResumeListed(r)
  <2>1. PICK b \in Unused : /\ Begin("user", [kind |-> "listed", from |-> r, to |-> b])
                            /\ calls' = Create(b, TRUE)
    BY <1>7 DEF ResumeListed
  <2>2. b \in Rows BY DEF Unused
  <2> DEFINE job == [kind |-> "listed", from |-> r, to |-> b]
  <2>3. Created(b, TRUE) /\ JobIs("user", job) BY <1>1, <2>1, <2>2, Creating, Begins
  <2>4. job.to = b /\ job.kind = "listed" /\ job.from = r OBVIOUS
  <2>5. /\ app = "up" /\ UNCHANGED <<db, app, procs, ids, tabs, boot, sent>>
        /\ jobs["user"].kind = "idle" /\ db[r].cli
    BY <1>7 DEF ResumeListed, AtLeisure, Idle, Listed
  <2> HIDE DEF job
  <2>6. QED BY <2>3, <2>4, <2>5, BeginHolds
<1>8. CASE Close(r) BY <1>8, CloseBegins
<1>9. CASE Write(r) BY <1>9, WriteHolds
<1>10. CASE Flush(r)
  <2>1. /\ app = "up" /\ InUse(r) /\ db' = Saved(r, tabs[r].msgs)
        /\ UNCHANGED <<app, procs, ids, calls, tabs, boot, jobs, sent>>
    BY <1>10 DEF Flush, InUse
  <2>2. \A q \in Rows : db'[q].cli = db[q].cli /\ (q # r => db'[q].msgs \subseteq db[q].msgs)
    BY <1>1, <2>1, SavedEffects
  <2>3. Orderly'
    BY <1>1, <2>1, <2>2, OrderlySame DEF Holding, Closing, Saving, Asked, User
  <2>4. \A q \in Rows : tabs[q].kind = "none" => db'[q].msgs \subseteq db[q].msgs
    BY <2>1, <2>2 DEF InUse
  <2>5. Bound' BY <1>2, <1>3, <2>1, <2>2, <2>4, BoundSame DEF Opens
  <2>6. Contents' BY <1>1, <1>2, <2>1, SavingContents DEF Carried
  <2>7. QED BY <2>3, <2>5, <2>6 DEF Holding
<1>11. CASE Restore(r) BY <1>11, RestoreHolds
<1>12. QED BY <1>4, <1>5, <1>6, <1>7, <1>8, <1>9, <1>10, <1>11

LEMMA StartHolds ==
  ASSUME Steady, Flagging, Holding, List \/ AckAsks \/ AckReturns \/ AutoResume PROVE Holding'
<1>1. TypeOK /\ Blank BY DEF Steady
<1>2. OneCall /\ Ends /\ Knows /\ Bound /\ Contents BY DEF Holding, Orderly
<1>3. \A c \in calls : c.row \in Rows BY <1>1, Callers
<1>4. CASE List
  <2>1. app = "up" /\ boot.stage = "list" /\ UNCHANGED <<app, procs, ids, calls, tabs, jobs, sent>>
    BY <1>4 DEF List
  <2>2. \A q \in Rows : db'[q].cli = db[q].cli /\ db'[q].msgs = db[q].msgs
    BY <1>1, <1>4, ListEffects DEF Resaved
  <2>3. boot'.live \subseteq procs /\ boot'.todo \subseteq Crashed \cup boot'.live
    BY <1>1, <1>4, ListEffects
  <2>4. \A q \in Crashed : db[q].cli BY DEF Crashed
  <2>5. jobs = NoJobs /\ \A q \in Rows : tabs[q].kind = "none" BY <1>1, <2>1 DEF Blank
  <2>6. \A q \in Rows : /\ ~Closing(q) /\ ~Closing(q)' /\ ~Saving(q)' /\ ~InUse(q)'
    BY <2>1, <2>5 DEF Closing, Saving, InUse, User, NoJobs, Idle
  <2>7. Ends' BY <1>2, <1>3, <2>1, <2>2, <2>3, <2>6 DEF Ends, Creates
  <2>8. Knows' BY <2>1, <2>2, <2>3, <2>4, <2>5, <2>6 DEF Knows
  <2>9. Bound' BY <1>2, <1>3, <2>1, <2>2, BoundSame DEF Opens
  <2>10. Contents'
    <3>1. \A q \in Rows : Held(q)' \subseteq Held(q) BY <2>1, <2>2 DEF Held
    <3>2. QED BY <1>2, <2>1, <2>2, <2>6, <3>1, ContentsSame DEF Carried
  <2>11. QED BY <1>2, <2>1, <2>7, <2>8, <2>9, <2>10 DEF Holding, Orderly, OneCall
<1>5. CASE AckAsks \/ AckReturns
  <2>1. /\ app = "up" /\ UNCHANGED <<db, app, procs, ids, calls, tabs, jobs, sent>>
        /\ boot'.todo \subseteq boot.todo
        /\ boot'.live = boot.live \/ boot'.todo = {}
    BY <1>1, <1>5 DEF AckAsks, AckReturns, TypeOK, Done, Start
  <2>2. \A q \in Rows : /\ Closing(q)' => Closing(q)
                        /\ Saving(q)' => Saving(q)
                        /\ Asked(q) => Asked(q)'
    BY <2>1 DEF Closing, Saving, Asked, User
  <2>3. QED BY <2>1, <2>2, StillHolds
<1>6. CASE AutoResume
  <2>1. PICK r \in boot.crashed : IF tabs[r].kind = "paused"
                                  THEN Resume("start", r) ELSE UNCHANGED <<calls, tabs, jobs>>
    BY <1>6 DEF AutoResume
  <2>2. /\ app = "up" /\ UNCHANGED <<db, app, procs, ids, sent>>
        /\ boot'.todo = {} /\ r \in Rows
    BY <1>1, <1>6 DEF AutoResume, Done, Start, TypeOK
  <2>3. boot'.todo \subseteq boot.todo BY <2>2
  <2>4. CASE Resume("start", r) BY <2>2, <2>3, <2>4, ResumeHolds
  <2>5. CASE UNCHANGED <<calls, tabs, jobs>>
    <3>1. \A q \in Rows : /\ Closing(q)' => Closing(q)
                          /\ Saving(q)' => Saving(q)
                          /\ Asked(q) => Asked(q)'
      BY <2>5 DEF Closing, Saving, Asked, User
    <3>2. QED BY <2>2, <2>3, <2>5, <3>1, StillHolds
  <2>6. QED BY <2>1, <2>4, <2>5
<1>7. QED BY <1>4, <1>5, <1>6

LEMMA EndHolds ==
  ASSUME Steady, Flagging, Holding, Quit \/ PromoteAll \/ ClearAll \/ Restart \/ Reload
  PROVE  Holding'
<1>1. TypeOK BY DEF Steady
<1>2. OneCall /\ Ends /\ Knows /\ Bound /\ Contents BY DEF Holding, Orderly
<1>3. \A c \in calls : c.row \in Rows BY <1>1, Callers
<1>4. CASE PromoteAll \/ ClearAll
  <2>1. app' # "up" /\ UNCHANGED <<procs, ids, calls, tabs, boot, jobs, sent>>
    BY <1>4 DEF PromoteAll, ClearAll
  <2>2. \A q \in Rows : Resaved(q) BY <1>1, <1>4, PromoteEffects, ClearEffects
  <2>3. QED BY <2>1, <2>2, ResavedHolds
<1>5. CASE Quit \/ Restart \/ Reload
  <2>1. WindowIsNew /\ UNCHANGED <<db, sent>> BY <1>5 DEF Quit, Restart, Reload
  <2>2. /\ \A q \in Rows : tabs'[q] = NoTab
        /\ jobs'["user"] = Idle /\ jobs'["start"] = Idle
        /\ boot'.todo = {}
    BY <2>1, WindowEffects
  <2>3. procs' \subseteq procs /\ calls' \subseteq calls BY <1>5 DEF Quit, Restart, Reload
  <2>4. \A q \in Rows : ~InUse(q)' /\ ~Closing(q)' /\ ~Saving(q)' /\ tabs'[q].kind = "none"
    BY <2>2 DEF InUse, Closing, Saving, User, NoTab, Idle
  <2>5. \A w \in {"user", "start"} : ~Opens(w)' /\ Carried(w)' = {} BY <2>2 DEF Opens, Carried, Idle
  <2>6. OneCall' BY <1>2, <2>3 DEF OneCall
  <2>7. Ends' BY <1>2, <1>3, <2>1, <2>2, <2>3, <2>4 DEF Ends, Creates
  <2>8. Knows' BY <2>2, <2>4 DEF Knows
  <2>9. Bound' BY <2>5 DEF Bound
  <2>10. Contents' BY <1>2, <2>1, <2>2, <2>5, ContentsStay
  <2>11. QED BY <2>6, <2>7, <2>8, <2>9, <2>10 DEF Holding, Orderly
<1>6. QED BY <1>4, <1>5

LEMMA NextHolds ==
  ASSUME "dismiss" \notin Acts, "early" \notin Acts
  PROVE  Steady /\ Flagging /\ Holding /\ [Next]_vars => Holding'
<1>1. ASSUME Steady, Flagging, Holding, UNCHANGED vars PROVE Holding'
  <2>1. \A q \in Rows : Resaved(q) BY <1>1 DEF vars, Resaved
  <2>2. UNCHANGED <<app, procs, ids, calls, tabs, boot, jobs, sent>> BY <1>1 DEF vars
  <2>3. QED BY <1>1, <2>1, <2>2, ResavedHolds
<1>2. ASSUME Steady, Flagging, Holding, Next PROVE Holding'
  <2>1. CASE GoesOn
    <3>1. PICK who \in {"user", "start"} : Returns(who) \/ Swap(who) BY <2>1 DEF GoesOn
    <3>2. QED BY <1>2, <2>1, <3>1, ReturnsHold, SwapHolds DEF GoesOn
  <2>2. QED BY <1>2, <2>1, CallHolds, NewHolds, CloseHolds, RowHolds, StartHolds, EndHolds DEF Next
<1>3. QED BY <1>1, <1>2

\* A message that was saved under a session with an id is, after the step, saved
\* under one with an id.
LEMMA NextSaves ==
  ASSUME "dismiss" \notin Acts, "early" \notin Acts, Steady, Flagging, Holding, [Next]_vars,
         NEW r \in Rows, db[r].cli, NEW m \in db[r].msgs
  PROVE  \E q \in Rows : m \in db'[q].msgs /\ db'[q].cli
<1>1. TypeOK /\ Own /\ Covers BY DEF Steady, Holding, Contents
<1>2. ASSUME NEW q \in Rows, InUse(q), db' = Saved(q, tabs[q].msgs)
      PROVE  \E p \in Rows : m \in db'[p].msgs /\ db'[p].cli
  <2>1. /\ \A p \in Rows : db'[p].cli = db[p].cli
        /\ db'[q].msgs = tabs[q].msgs
        /\ \A p \in Rows \ {q} : db'[p].msgs = db[p].msgs \ tabs[q].msgs
    BY <1>1, <1>2, SavedEffects
  <2>2. CASE m \in tabs[q].msgs
    <3>1. CASE q = r BY <2>1, <2>2, <3>1
    <3>2. CASE q # r
      <4>1. db[q].cli BY <1>1, <2>2, <3>2 DEF Own, Held
      <4>2. QED BY <2>1, <2>2, <4>1
    <3>3. QED BY <3>1, <3>2
  <2>3. CASE m \notin tabs[q].msgs
    <3>1. q # r BY <1>1, <1>2, <2>3 DEF Covers
    <3>2. QED BY <2>1, <2>3, <3>1
  <2>4. QED BY <2>2, <2>3
<1>3. CASE \A q \in Rows : db'[q].msgs = db[q].msgs /\ (db[q].cli => db'[q].cli) BY <1>3
<1>4. CASE CallStep BY <1>3, <1>4, CallHolds
<1>5. ASSUME NEW q \in Rows, Flush(q) PROVE \E p \in Rows : m \in db'[p].msgs /\ db'[p].cli
  BY <1>2, <1>5 DEF Flush, InUse
<1>6. ASSUME NEW q \in Rows, Close(q) PROVE \E p \in Rows : m \in db'[p].msgs /\ db'[p].cli
  <2>1. InUse(q) BY <1>6, CloseBegins
  <2>2. db' = Saved(q, tabs[q].msgs) \/ db' = db BY <1>6 DEF Close
  <2>3. QED BY <1>2, <1>3, <2>1, <2>2
<1>7. ASSUME NEW q \in Rows, Acknowledge(q) \/ CliReports(q)
      PROVE  \E p \in Rows : m \in db'[p].msgs /\ db'[p].cli
  <2>1. \A p \in Rows : db'[p].msgs = db[p].msgs /\ (db[p].cli => db'[p].cli)
    BY <1>1, <1>7, AckEffects, ReportEffects DEF RowIs
  <2>2. QED BY <1>3, <2>1
<1>8. CASE List \/ PromoteAll \/ ClearAll
  BY <1>1, <1>3, <1>8, ListEffects, PromoteEffects, ClearEffects DEF Resaved
<1>9. CASE db' = db BY <1>3, <1>9
<1>10. CASE UNCHANGED vars BY <1>9, <1>10 DEF vars
<1>11. CASE Next
  <2>1. GoesOn \/ New \/ CloseAsks \/ CloseReturns \/ AckAsks \/ AckReturns \/ AutoResume
          \/ Quit \/ Restart \/ Reload => db' = db
    BY DEF GoesOn, New, CloseAsks, CloseReturns, AckAsks, AckReturns, AutoResume, Quit, Restart, Reload
  <2>2. \A q \in Rows : ResumeTab(q) \/ ResumeListed(q) \/ Write(q) \/ Restore(q) => db' = db
    BY DEF ResumeTab, ResumeListed, Write, Restore
  <2>3. QED BY <1>4, <1>5, <1>6, <1>7, <1>8, <1>9, <1>11, <2>1, <2>2 DEF Next
<1>12. QED BY <1>10, <1>11

\* No step makes a saved message of a resumable session unfindable, for any number
\* of sessions and messages: not the move of the messages to the row of a resumed
\* session, not closing (close_session_with_details), acknowledging, exiting or a
\* crash between any two writes; as long as the user neither closes a recovered
\* tab nor a resumed session that has not reported, and no window is reloaded with
\* a session nothing was saved of.
THEOREM NothingSavedIsLost ==
  ASSUME Acts = {}
  PROVE  Spec => NothingIsLost
<1>1. "dismiss" \notin Acts /\ "early" \notin Acts /\ "idle" \notin Acts OBVIOUS
<1>2. Steady /\ Keeping /\ [Next]_vars => Keeping' BY <1>1, NextKeeps
<1>3. Steady /\ Flagging /\ [Next]_vars => Flagging' BY NextFlags
<1>4. Steady /\ Flagging /\ Holding /\ [Next]_vars => Holding' BY <1>1, NextHolds
<1>5. Steady /\ Flagging /\ Holding /\ Keeping' /\ [Next]_vars
        => [\A m \in Messages : Findable(m) => Findable(m)']_vars
  <2>1. SUFFICES ASSUME Steady, Flagging, Holding, Keeping', [Next]_vars,
                        NEW m \in Messages, Findable(m)
                 PROVE  Findable(m)'
    OBVIOUS
  <2>2. PICK r \in Rows : m \in db[r].msgs /\ db[r].cli BY <2>1 DEF Findable
  <2>3. PICK q \in Rows : m \in db'[q].msgs /\ db'[q].cli BY <1>1, <2>1, <2>2, NextSaves
  <2>4. QED BY <2>1, <2>3 DEF Findable, Keeping, SavedIsKept, Kept
<1>6. QED
  BY <1>2, <1>3, <1>4, <1>5, InitSteady, InitKeeps, InitFlags, InitHolds, NextSteady, PTL
  DEF Spec, NothingIsLost

-----------------------------------------------------------------------------
(* What was saved is shown *)

\* A session that the next start would show: a paused tab, or messages that were
\* saved of a session whose id is known, or will be.
Waits(r) ==
    /\ db[r].status = "open" /\ db[r].was_open
    /\ tabs[r].kind = "paused" \/ (db[r].msgs # {} /\ (db[r].cli \/ r \in procs))

\* It is in a tab with its CLI, or somebody still has to restore it, to
\* acknowledge it or to close it.
ToShow(r) ==
    \/ InUse(r)
    \/ r \in boot.todo \/ r \in acks
    \/ boot.stage = "restore" /\ r \in boot.crashed
    \/ \E c \in calls : c.op = "close" /\ c.row = r

Shown == boot.stage # "list" => \A r \in Rows : Waits(r) => ToShow(r)

\* Nothing is saved yet of a session that a job waits for.
Unsaved == \A w \in {"user", "start"} : Opens(w) => db[jobs[w].to].msgs = {}

\* close_session was called, or has closed the row.
Asks == \A r \in Rows : Asked(r) =>
    db[r].status = "closed" \/ \E c \in calls : c.op = "close" /\ c.row = r

\* The tab that a resumed session replaces is a paused one.
Replacing(w) == jobs[w].kind \in {"resume", "swap"}
Replaces == \A w \in {"user", "start"} : Replacing(w) =>
    /\ ~InUse(jobs[w].from) /\ jobs[w].from \notin boot.todo
    /\ db[jobs[w].from].status # "none"
    /\ \A v \in {"user", "start"} : Opens(v) => jobs[v].to # jobs[w].from

Restores ==
    /\ \A r \in boot.todo : tabs[r].kind = "none"
    /\ boot.todo \subseteq boot.live \cup boot.crashed
    /\ boot.todo # {} => boot.stage = "restore"

\* A start that is not a reload finds nothing running.
Asleep == boot.stage = "list" /\ ~wake => procs = {} /\ calls = {}

Showing ==
    /\ Covers
    /\ app = "up" => Unsaved /\ Asks /\ Replaces /\ Restores /\ Asleep /\ Shown

LEMMA InitShows == Init => Showing
<1>1. SUFFICES ASSUME Init PROVE Showing OBVIOUS
<1>2. Covers BY <1>1 DEF Init, Covers, InUse, NoTab
<1>3. Unsaved /\ Asks /\ Replaces
  BY <1>1 DEF Init, Unsaved, Asks, Replaces, Opens, Replacing, Asked, User, NoJobs, Idle
<1>4. Restores /\ Asleep /\ Shown BY <1>1 DEF Init, Restores, Asleep, Shown, Start
<1>5. QED BY <1>2, <1>3, <1>4 DEF Showing

LEMMA JobRows ==
  ASSUME TypeOK, NEW w \in {"user", "start"}
  PROVE  /\ Opens(w) => jobs[w].to \in Rows
         /\ Replacing(w) => jobs[w].from \in Rows
<1>1. jobs[w] \in Jobs BY DEF TypeOK
<1>2. QED BY <1>1 DEF Jobs, Opens, Replacing

\* The jobs go on, or end; no tab comes into use that they replace.
LEMMA JobsGoOn ==
  ASSUME Steady, Flagging, app = "up", Unsaved, Replaces,
         \A w \in {"user", "start"} :
            /\ Opens(w)' => Opens(w) /\ jobs'[w].to = jobs[w].to
            /\ Replacing(w)' => Replacing(w) /\ jobs'[w].from = jobs[w].from,
         \A q \in Rows : db[q].status # "none" => db'[q].status # "none",
         \A q \in Rows : tabs[q].kind = "none" => db'[q].msgs \subseteq db[q].msgs,
         \A q \in Rows : InUse(q)' =>
            \/ InUse(q) \/ q \in boot.todo
            \/ \E w \in {"user", "start"} : Opens(w) /\ jobs[w].to = q,
         boot'.todo \subseteq boot.todo
  PROVE  Unsaved' /\ Replaces'
<1>1. TypeOK BY DEF Steady
<1>2. ASSUME NEW w \in {"user", "start"}, Opens(w)' PROVE db'[jobs'[w].to].msgs = {}
  <2>1. Opens(w) /\ jobs'[w].to = jobs[w].to BY <1>2
  <2>2. jobs[w].to \in Rows BY <1>1, <2>1, JobRows
  <2>3. tabs[jobs[w].to].kind = "none" BY <2>1 DEF Flagging, Awaited, Reserved
  <2>4. QED BY <2>1, <2>2, <2>3 DEF Unsaved
<1>3. ASSUME NEW w \in {"user", "start"}, Replacing(w)'
      PROVE  /\ tabs'[jobs'[w].from].kind \notin {"live", "reattached"}
             /\ jobs'[w].from \notin boot'.todo
             /\ db'[jobs'[w].from].status # "none"
             /\ \A v \in {"user", "start"} : Opens(v)' => jobs'[v].to # jobs'[w].from
  <2>1. Replacing(w) /\ jobs'[w].from = jobs[w].from BY <1>3
  <2>2. jobs[w].from \in Rows BY <1>1, <2>1, JobRows
  <2>3. /\ ~InUse(jobs[w].from) /\ jobs[w].from \notin boot.todo
        /\ db[jobs[w].from].status # "none"
        /\ \A v \in {"user", "start"} : Opens(v) => jobs[v].to # jobs[w].from
    BY <2>1 DEF Replaces
  <2>4. \A v \in {"user", "start"} : Opens(v)' => jobs'[v].to # jobs[w].from BY <2>3
  <2>5. tabs'[jobs[w].from].kind \notin {"live", "reattached"} BY <2>2, <2>3 DEF InUse
  <2>6. QED BY <2>1, <2>2, <2>3, <2>4, <2>5
<1>4. Unsaved' BY <1>2 DEF Unsaved
<1>5. Replaces' BY <1>3 DEF Replaces, InUse
<1>6. QED BY <1>4, <1>5

\* A job begins to create a session.
LEMMA JobBegins ==
  ASSUME Steady, Flagging, app = "up", Unsaved, Replaces, Restores, db' = db,
         NEW who \in {"user", "start"}, NEW b \in Unused, NEW job, JobIs(who, job),
         job.to = b, job.kind \in {"new", "resume", "listed"},
         job.kind = "resume" => job.from \in Rows /\ tabs[job.from].kind = "paused",
         \A q \in Rows : tabs'[q].kind \in {tabs[q].kind, "none"},
         boot'.todo \subseteq boot.todo
  PROVE  Unsaved' /\ Replaces'
<1>1. TypeOK /\ Inserted BY DEF Steady
<1>2. b \in Rows /\ db[b].status = "none" /\ db[b].msgs = {} BY <1>1 DEF Unused, Inserted
<1>3. \A w \in {"user", "start"} : w = who \/ w = Other(who) BY DEF Other
<1>4. Other(who) \in {"user", "start"} BY DEF Other
<1>5. jobs'[who] = job /\ jobs'[Other(who)] = jobs[Other(who)] BY DEF JobIs
<1>6. \A w \in {"user", "start"} : Opens(w)' =>
        jobs'[w].to = b \/ (Opens(w) /\ jobs'[w].to = jobs[w].to)
  BY <1>3, <1>5 DEF Opens
<1>7. Unsaved' BY <1>2, <1>6 DEF Unsaved
<1>8. ASSUME NEW w \in {"user", "start"}, Replacing(w)'
      PROVE  LET r == jobs'[w].from
             IN /\ r \in Rows /\ ~InUse(r) /\ r \notin boot.todo /\ db[r].status # "none"
                /\ \A v \in {"user", "start"} : Opens(v) => jobs[v].to # r
  <2>1. CASE w = who
    <3>1. jobs'[w] = job /\ job.kind = "resume" BY <1>5, <1>8, <2>1 DEF Replacing
    <3>2. job.from \in Rows /\ tabs[job.from].kind = "paused" BY <3>1
    <3>3. db[job.from].status # "none" BY <1>1, <3>2 DEF Inserted
    <3>4. ~InUse(job.from) /\ job.from \notin boot.todo BY <3>2 DEF InUse, Restores
    <3>5. \A v \in {"user", "start"} : Opens(v) => jobs[v].to # job.from
      BY <3>2 DEF Flagging, Awaited, Reserved
    <3>6. QED BY <3>1, <3>2, <3>3, <3>4, <3>5
  <2>2. CASE w = Other(who)
    <3>1. Replacing(w) /\ jobs'[w].from = jobs[w].from BY <1>5, <1>8, <2>2 DEF Replacing
    <3>2. jobs[w].from \in Rows BY <1>1, <3>1, JobRows
    <3>3. QED BY <3>1, <3>2 DEF Replaces
  <2>3. QED BY <1>3, <2>1, <2>2
<1>9. \A q \in Rows : InUse(q)' => InUse(q) BY DEF InUse
<1>10. Replaces'
  <2>1. SUFFICES ASSUME NEW w \in {"user", "start"}, Replacing(w)'
                 PROVE  /\ tabs'[jobs'[w].from].kind \notin {"live", "reattached"}
                        /\ jobs'[w].from \notin boot'.todo
                        /\ db'[jobs'[w].from].status # "none"
                        /\ \A v \in {"user", "start"} : Opens(v)' => jobs'[v].to # jobs'[w].from
    BY DEF Replaces, InUse
  <2> DEFINE r == jobs'[w].from
  <2>2. /\ r \in Rows /\ ~InUse(r) /\ r \notin boot.todo /\ db[r].status # "none"
        /\ \A v \in {"user", "start"} : Opens(v) => jobs[v].to # r
    BY <1>8, <2>1
  <2>3. tabs'[r].kind \notin {"live", "reattached"} BY <1>9, <2>2 DEF InUse
  <2>4. QED BY <1>2, <1>6, <2>2, <2>3 DEF InUse
<1>11. QED BY <1>7, <1>10

\* close_session that is under way stays so until the row is closed.
LEMMA AsksGoOn ==
  ASSUME TypeOK, Asks,
         \A q \in Rows : Asked(q)' => Asked(q),
         \A q \in Rows : db[q].status = "closed" => db'[q].status = "closed",
         \A c \in calls : c.op = "close" => c \in calls' \/ db'[c.row].status = "closed"
  PROVE  Asks'
<1>1. SUFFICES ASSUME NEW q \in Rows, Asked(q)'
               PROVE  db'[q].status = "closed" \/ \E c \in calls' : c.op = "close" /\ c.row = q
  BY DEF Asks
<1>2. Asked(q) BY <1>1
<1>3. CASE db[q].status = "closed" BY <1>3
<1>4. ASSUME NEW c \in calls, c.op = "close", c.row = q
      PROVE  db'[q].status = "closed" \/ \E d \in calls' : d.op = "close" /\ d.row = q
  BY <1>4
<1>5. QED BY <1>2, <1>3, <1>4 DEF Asks

\* Whoever had to show a session still has to.
LEMMA ShownGoesOn ==
  ASSUME TypeOK, Shown, boot.stage # "list" \/ boot'.stage = "list",
         \A q \in Rows : Waits(q)' => Waits(q) \/ ToShow(q)',
         \A q \in Rows : Waits(q)' /\ InUse(q) => ToShow(q)',
         \A q \in Rows : q \in boot.todo => ToShow(q)',
         \A q \in Rows : Waits(q)' /\ q \in acks => ToShow(q)',
         \A q \in Rows : boot.stage = "restore" /\ q \in boot.crashed => ToShow(q)',
         \A c \in calls : c.op = "close" => c \in calls' \/ db'[c.row].status = "closed"
  PROVE  Shown'
<1>1. SUFFICES ASSUME boot'.stage # "list", NEW q \in Rows, Waits(q)' PROVE ToShow(q)'
  BY DEF Shown
<1>2. CASE ToShow(q)' BY <1>2
<1>3. CASE Waits(q)
  <2>1. ToShow(q) BY <1>1, <1>3 DEF Shown
  <2>2. ASSUME NEW c \in calls, c.op = "close", c.row = q PROVE ToShow(q)'
    <3>1. db'[q].status # "closed" BY <1>1 DEF Waits
    <3>2. c \in calls' BY <2>2, <3>1
    <3>3. QED BY <2>2, <3>2 DEF ToShow
  <2>3. QED BY <1>1, <2>1, <2>2 DEF ToShow
<1>4. QED BY <1>1, <1>2, <1>3

LEMMA CallShows ==
  ASSUME Steady, Flagging, Showing, CallStep PROVE Showing'
<1>1. PICK c \in calls : \/ Insert(c) \/ Flag(c) \/ Token(c) \/ Spawn(c)
                         \/ CloseDetails(c) \/ Unflag(c)
  BY DEF CallStep
<1>2. UNCHANGED <<app, acks, wake, tabs, boot, jobs, sent>> BY DEF CallStep
<1>3. TypeOK /\ Inserted /\ Fresh BY DEF Steady
<1>4. c.row \in Rows BY <1>3, Callers
<1>5. \A q \in Rows :
         /\ db'[q].msgs = db[q].msgs
         /\ db[q].status # "none" => db'[q].status # "none"
         /\ db[q].status = "closed" => db'[q].status = "closed"
  BY <1>1, <1>3, <1>4, CallEffects DEF RowIs, Inserted
<1>6. \A d \in calls : d.op = "close" => d \in calls' \/ db'[d.row].status = "closed"
  <2>1. CASE CloseDetails(c)
    <3>1. Moved(c, "unflag") /\ RowIs(c.row, "closed", c.known, db[c.row].was_open)
      BY <1>3, <2>1, CallEffects
    <3>2. calls \ {c} \subseteq calls' BY <3>1 DEF Moved
    <3>3. db'[c.row].status = "closed" BY <3>1 DEF RowIs
    <3>4. QED BY <3>2, <3>3
  <2>2. CASE ~CloseDetails(c)
    <3>1. /\ c.op # "close"
          /\ calls' = calls \ {c} \/ Moved(c, "flag") \/ Moved(c, "token") \/ Moved(c, "spawn")
      BY <1>1, <1>3, <2>2, CallEffects
    <3>2. calls \ {c} \subseteq calls' BY <3>1 DEF Moved
    <3>3. QED BY <3>1, <3>2
  <2>3. QED BY <2>1, <2>2
<1>7. app = "up" => \A q \in Rows : Waits(q)' => Waits(q)
  <2>1. SUFFICES ASSUME app = "up", NEW q \in Rows, Waits(q)' PROVE Waits(q) OBVIOUS
  <2>2. CASE Insert(c) \/ Flag(c) \/ Token(c) \/ Spawn(c)
    <3>1. Creates(c) BY <2>2 DEF Insert, Flag, Token, Spawn, Creates
    <3>2. db[c.row].msgs = {} /\ tabs[c.row].kind = "none" BY <1>3, <2>1, <3>1 DEF Fresh
    <3>3. q # c.row BY <1>2, <1>5, <2>1, <3>2 DEF Waits
    <3>4. db'[q] = db[q] /\ (q \in procs' => q \in procs)
      BY <1>3, <2>2, <3>3, CallEffects DEF RowIs
    <3>5. QED BY <1>2, <2>1, <3>4 DEF Waits
  <2>3. CASE CloseDetails(c) \/ Unflag(c)
    <3>1. procs' = procs /\ (db'[c.row].status = "closed" \/ ~db'[c.row].was_open)
      BY <1>3, <2>3, CallEffects DEF RowIs
    <3>2. q # c.row BY <2>1, <3>1 DEF Waits
    <3>3. db'[q] = db[q] BY <1>3, <2>3, <3>2, CallEffects DEF RowIs
    <3>4. QED BY <1>2, <2>1, <3>1, <3>3 DEF Waits
  <2>4. QED BY <1>1, <2>2, <2>3
<1>8. Covers' BY <1>2, <1>5 DEF Showing, Covers, InUse
<1>9. ASSUME app = "up" PROVE (Unsaved /\ Asks /\ Replaces /\ Restores /\ Asleep /\ Shown)'
  <2>1. Unsaved /\ Asks /\ Replaces /\ Restores /\ Asleep /\ Shown BY <1>9 DEF Showing
  <2>2. \A q \in Rows : (InUse(q)' <=> InUse(q)) /\ (Asked(q)' <=> Asked(q))
    BY <1>2 DEF InUse, Asked, User
  <2>3. Unsaved' /\ Replaces'
    <3>1. /\ \A w \in {"user", "start"} : (Opens(w)' <=> Opens(w)) /\ (Replacing(w)' <=> Replacing(w))
          /\ boot'.todo \subseteq boot.todo
      BY <1>2 DEF Opens, Replacing
    <3>2. QED BY <1>2, <1>5, <1>9, <2>1, <2>2, <3>1, JobsGoOn
  <2>4. Asks' BY <1>3, <1>5, <1>6, <2>1, <2>2, AsksGoOn
  <2>5. Restores' BY <1>2, <2>1 DEF Restores
  <2>6. Asleep' BY <1>2, <2>1 DEF Asleep
  <2>7. Shown'
    <3>1. \A q \in Rows : q \in boot.todo \/ q \in acks \/ InUse(q) => ToShow(q)'
      BY <1>2, <2>2 DEF ToShow
    <3>2. \A q \in Rows : boot.stage = "restore" /\ q \in boot.crashed => ToShow(q)'
      BY <1>2 DEF ToShow
    <3>3. \A q \in Rows : Waits(q)' => Waits(q) BY <1>7, <1>9
    <3>4. boot'.stage = boot.stage BY <1>2
    <3>5. QED BY <1>3, <1>6, <2>1, <3>1, <3>2, <3>3, <3>4, ShownGoesOn
  <2>8. QED BY <2>3, <2>4, <2>5, <2>6, <2>7
<1>10. QED BY <1>2, <1>8, <1>9 DEF Showing

LEMMA ReturnsShow ==
  ASSUME Steady, Flagging, Showing, app = "up", NEW who \in {"user", "start"}, Returns(who),
         UNCHANGED <<db, app, procs, ids, calls, acks, wake, boot, sent>>
  PROVE  Showing'
<1> DEFINE job == jobs[who]
<1>1. TypeOK /\ Blank BY DEF Steady
<1>2. Covers /\ Unsaved /\ Asks /\ Replaces /\ Restores /\ Asleep /\ Shown BY DEF Showing
<1>3. /\ Opens(who) /\ job.to \in Rows
      /\ \/ tabs' = tabs /\ JobIs(who, Idle)
         \/ /\ tabs'[job.to] = [kind |-> "live", msgs |-> Loaded(job)]
            /\ \A q \in Rows \ {job.to} : tabs'[q] = tabs[q]
            /\ JobIs(who, Idle) \/ JobIs(who, [kind |-> "swap", from |-> job.from])
  BY <1>1, ReturnsEffects DEF Opens
<1>4. JobIs(who, Idle) \/ (JobIs(who, [kind |-> "swap", from |-> job.from]) /\ job.kind = "resume")
  <2>1. Begin(who, Idle) \/ (Begin(who, [kind |-> "swap", from |-> job.from]) /\ job.kind = "resume")
    BY DEF Returns
  <2>2. QED BY <1>1, <2>1, Begins
<1>5. Reserved(job.to) /\ db[job.to].msgs = {} BY <1>2, <1>3 DEF Flagging, Awaited, Unsaved
<1>6. \A q \in Rows : \/ tabs'[q] = tabs[q]
                      \/ q = job.to /\ tabs'[q].kind = "live"
  BY <1>3
<1>7. \A w \in {"user", "start"} :
         /\ Opens(w)' => Opens(w) /\ jobs'[w].to = jobs[w].to
         /\ Replacing(w)' => Replacing(w) /\ jobs'[w].from = jobs[w].from
         /\ jobs'[w].kind = "closing" => jobs'[w] = jobs[w]
  BY <1>4 DEF JobIs, Other, Idle, Opens, Replacing
<1>8. Covers' BY <1>2, <1>3, <1>5, <1>6 DEF Covers, InUse
<1>9. Unsaved' /\ Replaces'
  <2>1. \A q \in Rows : InUse(q)' => InUse(q) \/ \E w \in {"user", "start"} : Opens(w) /\ jobs[w].to = q
    BY <1>3, <1>6 DEF InUse
  <2>2. QED BY <1>2, <1>7, <2>1, JobsGoOn
<1>10. \A q \in Rows : Asked(q)' => Asked(q) BY <1>7 DEF Asked, User
<1>11. Asks' BY <1>1, <1>2, <1>10, AsksGoOn
<1>12. Restores'
  <2>1. job.to \notin boot.todo BY <1>5 DEF Reserved, Marked
  <2>2. boot.todo \subseteq Rows BY <1>1 DEF TypeOK
  <2>3. QED BY <1>2, <1>6, <2>1, <2>2 DEF Restores
<1>13. Asleep' BY <1>2 DEF Asleep
<1>14. Shown'
  <2>1. \A q \in Rows : InUse(q) => InUse(q)' BY <1>6 DEF InUse
  <2>2. \A q \in Rows : q \in boot.todo \/ q \in acks \/ InUse(q) => ToShow(q)' BY <2>1 DEF ToShow
  <2>3. \A q \in Rows : boot.stage = "restore" /\ q \in boot.crashed => ToShow(q)' BY DEF ToShow
  <2>4. \A q \in Rows : Waits(q)' => Waits(q) \/ ToShow(q)'
    BY <1>6 DEF Waits, ToShow, InUse
  <2>5. boot'.stage = boot.stage OBVIOUS
  <2>6. QED BY <1>1, <1>2, <2>2, <2>3, <2>4, <2>5, ShownGoesOn
<1>15. QED BY <1>8, <1>9, <1>11, <1>12, <1>13, <1>14 DEF Showing

\* The start goes on after all is restored, or waits.
BootGoesOn ==
    \/ boot' = boot
    \/ /\ boot.stage \in {"ack", "resume"} /\ boot'.stage \in {"resume", "done"}
       /\ boot'.todo = {}

LEMMA BootSame ==
  ASSUME Restores, BootGoesOn
  PROVE  /\ boot'.todo = boot.todo
         /\ boot'.todo \subseteq boot'.live \cup boot'.crashed
         /\ boot'.todo # {} => boot'.stage = "restore"
         /\ boot.stage = "restore" => boot' = boot
         /\ boot'.stage = "list" => boot' = boot
         /\ boot.stage # "list" \/ boot'.stage = "list"
BY DEF Restores, BootGoesOn

\* Tabs that are not in use are removed, jobs end.
LEMMA TabGoes ==
  ASSUME Steady, Flagging, Showing, app = "up",
         \A q \in Rows : tabs'[q] \in {tabs[q], NoTab},
         \A q \in Rows : InUse(q) /\ Waits(q) => InUse(q)',
         \A w \in {"user", "start"} :
            jobs'[w] = jobs[w] \/ jobs'[w].kind \in {"idle", "saving"},
         BootGoesOn, UNCHANGED <<db, app, procs, calls, acks, wake>>
  PROVE  Showing'
<1>1. TypeOK /\ Covers /\ Unsaved /\ Asks /\ Replaces /\ Restores /\ Asleep /\ Shown
  BY DEF Showing, Steady
<1>2. \A q \in Rows : tabs'[q] = tabs[q] \/ tabs'[q].kind = "none" BY DEF NoTab
<1>3. \A q \in Rows : /\ InUse(q)' => InUse(q) /\ tabs'[q] = tabs[q]
                      /\ Waits(q)' => Waits(q)
                      /\ Asked(q)' => Asked(q)
  BY <1>2 DEF InUse, Waits, Asked, User
<1>4. Covers' BY <1>1, <1>3 DEF Covers
<1>5. \A w \in {"user", "start"} :
         /\ Opens(w)' => Opens(w) /\ jobs'[w].to = jobs[w].to
         /\ Replacing(w)' => Replacing(w) /\ jobs'[w].from = jobs[w].from
  BY DEF Opens, Replacing
<1>6. Unsaved' /\ Replaces'
  <2>1. \A q \in Rows : InUse(q)' => InUse(q) BY <1>3
  <2>2. QED BY <1>1, <1>5, <2>1, BootSame, JobsGoOn
<1>7. Asks' BY <1>1, <1>3, AsksGoOn
<1>8. Restores'
  <2>1. boot.todo \subseteq Rows BY <1>1 DEF TypeOK
  <2>2. QED BY <1>1, <1>2, <2>1, BootSame DEF Restores
<1>9. Asleep' BY <1>1, BootSame DEF Asleep
<1>10. Shown'
  <2>1. \A q \in Rows : q \in boot.todo \/ q \in acks \/ (Waits(q)' /\ InUse(q)) => ToShow(q)'
    BY <1>1, <1>3, BootSame DEF ToShow
  <2>2. \A q \in Rows : boot.stage = "restore" /\ q \in boot.crashed => ToShow(q)'
    BY <1>1, BootSame DEF ToShow
  <2>3. boot.stage # "list" \/ boot'.stage = "list" BY <1>1, BootSame
  <2>4. QED BY <1>1, <1>3, <2>1, <2>2, <2>3, ShownGoesOn
<1>11. QED BY <1>4, <1>6, <1>7, <1>8, <1>9, <1>10 DEF Showing

LEMMA SwapShows ==
  ASSUME Steady, Flagging, Showing, app = "up", NEW who \in {"user", "start"}, Swap(who),
         UNCHANGED <<db, app, procs, ids, calls, acks, wake, boot, sent>>
  PROVE  Showing'
<1>1. TypeOK /\ Replaces BY DEF Steady, Showing
<1>2. Replacing(who) /\ jobs[who].from \in Rows BY <1>1, JobRows DEF Swap, Replacing
<1>3. \A q \in Rows : tabs'[q] = IF q = jobs[who].from THEN NoTab ELSE tabs[q]
  BY <1>1, <1>2 DEF TypeOK, Swap, Removed
<1>4. ~InUse(jobs[who].from) BY <1>1, <1>2 DEF Replaces
<1>5. \A q \in Rows : InUse(q) => InUse(q)' BY <1>3, <1>4 DEF InUse
<1>6. JobIs(who, Idle) BY <1>1, Begins DEF Swap
<1>7. \A w \in {"user", "start"} : jobs'[w] = jobs[w] \/ jobs'[w].kind \in {"idle", "saving"}
  BY <1>6 DEF JobIs, Other, Idle
<1>8. QED BY <1>3, <1>5, <1>7, TabGoes DEF BootGoesOn

LEMMA CloseReturnsShow ==
  ASSUME Steady, Flagging, Showing, CloseReturns PROVE Showing'
<1>1. TypeOK /\ Asks BY DEF Steady, Showing, CloseReturns
<1> DEFINE r == jobs["user"].from
<1>2. r \in Rows /\ Asked(r)
  <2>1. jobs["user"] \in Jobs /\ jobs["user"].kind = "closing" BY <1>1 DEF TypeOK, CloseReturns
  <2>2. QED BY <2>1 DEF Jobs, Asked, User
<1>3. db[r].status = "closed" BY <1>1, <1>2 DEF Asks, CloseReturns, Running
<1>4. \A q \in Rows : tabs'[q] = IF q = r THEN NoTab ELSE tabs[q]
  BY <1>1, <1>2 DEF TypeOK, CloseReturns, Removed
<1>5. JobIs("user", Idle) BY <1>1, Begins DEF CloseReturns
<1>6. \A w \in {"user", "start"} : jobs'[w] = jobs[w] \/ jobs'[w].kind \in {"idle", "saving"}
  BY <1>5 DEF JobIs, Other, Idle
<1>7. app = "up" /\ UNCHANGED <<db, app, procs, ids, calls, acks, wake, boot, sent>>
  BY DEF CloseReturns
<1> HIDE DEF r
<1>8. \A q \in Rows : InUse(q) /\ Waits(q) => InUse(q)' BY <1>3, <1>4 DEF InUse, Waits
<1>9. QED BY <1>4, <1>6, <1>7, <1>8, TabGoes DEF BootGoesOn

\* A creation begins, and a tab that is resumed makes room.
LEMMA BeginShows ==
  ASSUME Steady, Flagging, Showing, app = "up", boot.stage # "list",
         UNCHANGED <<db, app, procs, acks>>, BootGoesOn,
         NEW who \in {"user", "start"}, NEW b \in Unused, NEW resumes \in BOOLEAN, NEW job,
         Created(b, resumes), JobIs(who, job),
         job.to = b, job.kind \in {"new", "resume", "listed"},
         job.kind = "resume" => job.from \in Rows /\ tabs[job.from].kind = "paused",
         \A q \in Rows : tabs'[q] \in {tabs[q], NoTab},
         \A q \in Rows : tabs[q].kind # "paused" => tabs'[q] = tabs[q]
  PROVE  Showing'
<1>1. TypeOK /\ Covers /\ Unsaved /\ Asks /\ Replaces /\ Restores /\ Shown
  BY DEF Showing, Steady
<1>2. \A q \in Rows : tabs'[q] = tabs[q] \/ tabs'[q].kind = "none" BY DEF NoTab
<1>3. \A q \in Rows : /\ InUse(q)' <=> InUse(q)
                      /\ InUse(q) => tabs'[q] = tabs[q]
                      /\ Waits(q)' => Waits(q)
  BY <1>2 DEF InUse, Waits
<1>4. Covers' BY <1>1, <1>3 DEF Covers
<1>5. Unsaved' /\ Replaces'
  <2>1. \A q \in Rows : tabs'[q].kind \in {tabs[q].kind, "none"} BY <1>2
  <2>2. QED BY <1>1, <2>1, BootSame, JobBegins
<1>6. calls \subseteq calls' BY DEF Created
<1>7. Asks'
  <2>1. \A q \in Rows : Asked(q)' => Asked(q) BY DEF Asked, User, JobIs, Other
  <2>2. QED BY <1>1, <1>6, <2>1, AsksGoOn
<1>8. Restores'
  <2>1. boot.todo \subseteq Rows BY <1>1 DEF TypeOK
  <2>2. QED BY <1>1, <1>2, <2>1, BootSame DEF Restores
<1>9. Shown'
  <2>1. \A q \in Rows : q \in boot.todo \/ q \in acks \/ InUse(q) => ToShow(q)'
    BY <1>1, <1>3, BootSame DEF ToShow
  <2>2. \A q \in Rows : boot.stage = "restore" /\ q \in boot.crashed => ToShow(q)'
    BY <1>1, BootSame DEF ToShow
  <2>3. QED BY <1>1, <1>3, <1>6, <2>1, <2>2, ShownGoesOn
<1>10. boot'.stage # "list" BY <1>1, BootSame
<1>11. QED BY <1>4, <1>5, <1>7, <1>8, <1>9, <1>10 DEF Showing, Asleep

LEMMA ResumeShows ==
  ASSUME Steady, Flagging, Showing, app = "up", boot.stage # "list",
         NEW who \in {"user", "start"}, NEW r \in Rows, Resume(who, r), BootGoesOn,
         UNCHANGED <<db, app, procs, ids, acks, wake, sent>>
  PROVE  Showing'
<1>1. TypeOK BY DEF Steady
<1>2. /\ \A q \in Rows : tabs'[q] \in {tabs[q], NoTab}
      /\ \A q \in Rows : tabs[q].kind # "paused" => tabs'[q] = tabs[q]
  BY <1>1, ResumeEffects
<1>3. CASE calls' = calls /\ jobs' = jobs
  <2>1. \A q \in Rows : InUse(q) => InUse(q)' BY <1>2 DEF InUse
  <2>2. QED BY <1>2, <1>3, <2>1, TabGoes
<1>4. CASE \E b \in Unused : /\ Created(b, TRUE)
                             /\ JobIs(who, [kind |-> "resume", from |-> r, to |-> b,
                                            msgs |-> tabs[r].msgs])
  <2>1. PICK b \in Unused : /\ Created(b, TRUE)
                            /\ JobIs(who, [kind |-> "resume", from |-> r, to |-> b,
                                           msgs |-> tabs[r].msgs])
    BY <1>4
  <2> DEFINE job == [kind |-> "resume", from |-> r, to |-> b, msgs |-> tabs[r].msgs]
  <2>2. /\ JobIs(who, job) /\ job.to = b /\ job.kind = "resume" /\ job.from = r
        /\ tabs[r].kind = "paused"
    BY <1>1, <2>1, ResumeEffects
  <2> HIDE DEF job
  <2>3. QED BY <1>2, <2>1, <2>2, BeginShows
<1>5. QED BY <1>1, <1>3, <1>4, ResumeEffects

LEMMA UserShows ==
  ASSUME Steady, Flagging, Showing, New \/ CloseAsks \/ CloseReturns PROVE Showing'
<1>1. TypeOK /\ Inserted /\ Blank BY DEF Steady
<1>2. CASE New
  <2>1. PICK b \in Unused : Begin("user", [kind |-> "new", to |-> b]) /\ calls' = Create(b, FALSE)
    BY <1>2 DEF New
  <2> DEFINE job == [kind |-> "new", to |-> b]
  <2>2. b \in Rows BY DEF Unused
  <2>3. Created(b, FALSE) /\ JobIs("user", job) BY <1>1, <2>1, <2>2, Creating, Begins
  <2>4. job.to = b /\ job.kind = "new" OBVIOUS
  <2>5. /\ app = "up" /\ boot.stage # "list"
        /\ UNCHANGED <<db, app, procs, acks, tabs, boot>>
    BY <1>2 DEF New, AtLeisure
  <2> HIDE DEF job
  <2>6. QED BY <2>3, <2>4, <2>5, BeginShows DEF BootGoesOn
<1>3. CASE CloseAsks
  <2> DEFINE r == jobs["user"].from
             d == [op |-> "close", row |-> r, known |-> r \in ids]
  <2>1. r \in Rows /\ jobs["user"].kind = "saving" BY <1>1, <1>3 DEF TypeOK, CloseAsks, Jobs
  <2>2. JobIs("user", [kind |-> "closing", from |-> r]) BY <1>1, <1>3, Begins DEF CloseAsks
  <2>3. calls' = calls \cup {d} /\ d.row = r /\ d.op = "close" BY <1>3 DEF CloseAsks
  <2>4. /\ app = "up" /\ procs' \subseteq procs
        /\ UNCHANGED <<db, app, ids, acks, wake, tabs, boot, sent>>
    BY <1>3 DEF CloseAsks
  <2>5. boot.stage # "list" BY <1>1, <2>1, <2>4 DEF Blank, NoJobs, Idle
  <2>6. Covers /\ Unsaved /\ Asks /\ Replaces /\ Restores /\ Shown BY <2>4 DEF Showing
  <2>7. \A w \in {"user", "start"} :
           /\ Opens(w)' => Opens(w) /\ jobs'[w].to = jobs[w].to
           /\ Replacing(w)' => Replacing(w) /\ jobs'[w].from = jobs[w].from
    BY <2>2 DEF JobIs, Other, Opens, Replacing
  <2>8. \A q \in Rows : Asked(q)' => q = r BY <2>2 DEF Asked, User, JobIs
  <2> HIDE DEF r, d
  <2>9. \A q \in Rows : (InUse(q)' <=> InUse(q)) /\ (Waits(q)' => Waits(q))
    BY <2>4 DEF InUse, Waits
  <2>10. Covers' BY <2>4, <2>6, <2>9 DEF Covers
  <2>11. Unsaved' /\ Replaces' BY <2>4, <2>6, <2>7, <2>9, JobsGoOn
  <2>12. Asks' BY <2>3, <2>8 DEF Asks
  <2>13. Restores' BY <2>4, <2>6 DEF Restores
  <2>14. Shown'
    <3>1. \A q \in Rows : q \in boot.todo \/ q \in acks \/ InUse(q) => ToShow(q)'
      BY <2>4, <2>9 DEF ToShow
    <3>2. \A q \in Rows : boot.stage = "restore" /\ q \in boot.crashed => ToShow(q)'
      BY <2>4 DEF ToShow
    <3>3. QED BY <1>1, <2>3, <2>5, <2>6, <2>9, <3>1, <3>2, ShownGoesOn
  <2>15. QED BY <2>4, <2>5, <2>10, <2>11, <2>12, <2>13, <2>14 DEF Showing, Asleep
<1>4. QED BY <1>2, <1>3, CloseReturnsShow

\* Saving what a tab shows.
LEMMA SavingShows ==
  ASSUME Steady, Flagging, Showing, app = "up", boot.stage # "list", NEW r \in Rows,
         tabs[r].kind # "none", db' = Saved(r, tabs[r].msgs),
         \A w \in {"user", "start"} : jobs'[w] = jobs[w] \/ jobs'[w].kind \in {"idle", "saving"},
         UNCHANGED <<app, procs, calls, acks, tabs, boot>>
  PROVE  Showing'
<1>1. TypeOK /\ Covers /\ Unsaved /\ Asks /\ Replaces /\ Restores /\ Shown
  BY DEF Showing, Steady
<1>2. /\ \A q \in Rows : db'[q].status = db[q].status /\ db'[q].cli = db[q].cli
                           /\ db'[q].was_open = db[q].was_open
      /\ db'[r].msgs = tabs[r].msgs
      /\ \A q \in Rows \ {r} : db'[q].msgs \subseteq db[q].msgs
  BY <1>1, SavedEffects
<1>3. \A q \in Rows : (InUse(q)' <=> InUse(q)) /\ (Asked(q)' => Asked(q))
  BY DEF InUse, Asked, User
<1>4. Covers'
  <2>1. \A q \in Rows : InUse(q)' => db'[q].msgs \subseteq tabs'[q].msgs
    BY <1>1, <1>2, <1>3 DEF Covers
  <2>2. QED BY <2>1 DEF Covers
<1>5. \A w \in {"user", "start"} :
         /\ Opens(w)' => Opens(w) /\ jobs'[w].to = jobs[w].to
         /\ Replacing(w)' => Replacing(w) /\ jobs'[w].from = jobs[w].from
  BY DEF Opens, Replacing
<1>6. \A q \in Rows : tabs[q].kind = "none" => db'[q].msgs \subseteq db[q].msgs BY <1>2
<1>7. Unsaved' /\ Replaces' BY <1>1, <1>2, <1>3, <1>5, <1>6, JobsGoOn
<1>8. Asks' BY <1>1, <1>2, <1>3, AsksGoOn
<1>9. Restores' BY <1>1 DEF Restores
<1>10. Shown'
  <2>1. \A q \in Rows : q \in boot.todo \/ q \in acks \/ InUse(q) => ToShow(q)'
    BY <1>3 DEF ToShow
  <2>2. \A q \in Rows : boot.stage = "restore" /\ q \in boot.crashed => ToShow(q)' BY DEF ToShow
  <2>3. \A q \in Rows \ {r} : Waits(q)' => Waits(q) BY <1>2 DEF Waits
  <2>4. InUse(r) \/ tabs[r].kind = "paused" BY <1>1 DEF TypeOK, TabKinds, InUse
  <2>5. Waits(r)' => Waits(r) \/ ToShow(r)' BY <1>2, <2>1, <2>4 DEF Waits
  <2>6. QED BY <1>1, <2>1, <2>2, <2>3, <2>5, ShownGoesOn
<1>11. QED BY <1>4, <1>7, <1>8, <1>9, <1>10 DEF Showing, Asleep

\* The rows are written, the tabs, the jobs and the start are left alone.
LEMMA RowsShow ==
  ASSUME Steady, Flagging, Showing, UNCHANGED <<app, procs, calls, wake, tabs, boot, jobs>>,
         \A q \in Rows : /\ db'[q].msgs = db[q].msgs
                         /\ db[q].status # "none" => db'[q].status # "none"
                         /\ db[q].status = "closed" => db'[q].status = "closed",
         app = "up" => \A q \in Rows : Waits(q)' => Waits(q) /\ (q \in acks => q \in acks')
  PROVE  Showing'
<1>1. TypeOK /\ Covers BY DEF Steady, Showing
<1>2. Covers' BY <1>1 DEF Covers, InUse
<1>3. ASSUME app = "up" PROVE (Unsaved /\ Asks /\ Replaces /\ Restores /\ Asleep /\ Shown)'
  <2>1. Unsaved /\ Asks /\ Replaces /\ Restores /\ Asleep /\ Shown BY <1>3 DEF Showing
  <2>2. \A q \in Rows : (InUse(q)' <=> InUse(q)) /\ (Asked(q)' <=> Asked(q))
    BY DEF InUse, Asked, User
  <2>3. /\ \A w \in {"user", "start"} : (Opens(w)' <=> Opens(w)) /\ (Replacing(w)' <=> Replacing(w))
        /\ boot'.todo \subseteq boot.todo
    BY DEF Opens, Replacing
  <2>4. Unsaved' /\ Replaces' BY <1>3, <2>1, <2>2, <2>3, JobsGoOn
  <2>5. Asks' BY <1>1, <2>1, <2>2, AsksGoOn
  <2>6. Restores' /\ Asleep' BY <2>1 DEF Restores, Asleep
  <2>7. Shown'
    <3>1. \A q \in Rows : q \in boot.todo \/ InUse(q) => ToShow(q)' BY <2>2 DEF ToShow
    <3>2. \A q \in Rows : Waits(q)' /\ q \in acks => ToShow(q)' BY <1>3 DEF ToShow
    <3>3. \A q \in Rows : boot.stage = "restore" /\ q \in boot.crashed => ToShow(q)' BY DEF ToShow
    <3>4. boot'.stage = boot.stage OBVIOUS
    <3>5. QED BY <1>1, <1>3, <2>1, <3>1, <3>2, <3>3, <3>4, ShownGoesOn
  <2>8. QED BY <2>4, <2>5, <2>6, <2>7
<1>4. QED BY <1>2, <1>3 DEF Showing

LEMMA WriteShows ==
  ASSUME Steady, Flagging, Showing, NEW r \in Rows, Write(r) PROVE Showing'
<1>1. TypeOK BY DEF Steady
<1>2. /\ app = "up" /\ InUse(r)
      /\ UNCHANGED <<db, app, procs, ids, calls, acks, wake, boot, jobs>>
  BY DEF Write, InUse
<1>3. Covers /\ Unsaved /\ Asks /\ Replaces /\ Restores /\ Asleep /\ Shown BY <1>2 DEF Showing
<1>4. \A q \in Rows : tabs'[q].kind = tabs[q].kind /\ tabs[q].msgs \subseteq tabs'[q].msgs
  <2>1. PICK m \in Messages : tabs' = [tabs EXCEPT ![r].msgs = @ \cup {m}] BY DEF Write
  <2>2. tabs[r] \in TabType BY <1>1 DEF TypeOK, TabType
  <2>3. tabs'[r].kind = tabs[r].kind /\ tabs[r].msgs \subseteq tabs'[r].msgs
    BY <1>1, <2>1, <2>2 DEF TypeOK, TabType
  <2>4. \A q \in Rows \ {r} : tabs'[q] = tabs[q] BY <1>1, <2>1 DEF TypeOK
  <2>5. QED BY <2>3, <2>4
<1>5. \A q \in Rows : /\ InUse(q)' <=> InUse(q)
                      /\ Asked(q)' <=> Asked(q)
                      /\ Waits(q)' <=> Waits(q)
                      /\ ToShow(q)' <=> ToShow(q)
  BY <1>2, <1>4 DEF InUse, Asked, User, Waits, ToShow
<1>6. Covers' BY <1>2, <1>3, <1>4, <1>5 DEF Covers
<1>7. Unsaved' /\ Replaces'
  <2>1. /\ \A w \in {"user", "start"} : (Opens(w)' <=> Opens(w)) /\ (Replacing(w)' <=> Replacing(w))
        /\ boot'.todo \subseteq boot.todo
    BY <1>2 DEF Opens, Replacing
  <2>2. QED BY <1>2, <1>3, <1>5, <2>1, JobsGoOn
<1>8. Asks' BY <1>1, <1>2, <1>3, <1>5, AsksGoOn
<1>9. Restores'
  <2>1. boot.todo \subseteq Rows BY <1>1 DEF TypeOK
  <2>2. QED BY <1>2, <1>3, <1>4, <2>1 DEF Restores
<1>10. Asleep' /\ Shown' BY <1>2, <1>3, <1>5 DEF Asleep, Shown
<1>11. QED BY <1>6, <1>7, <1>8, <1>9, <1>10 DEF Showing

LEMMA RestoreShows ==
  ASSUME Steady, Flagging, Showing, NEW r \in Rows, Restore(r) PROVE Showing'
<1>1. TypeOK BY DEF Steady
<1>2. /\ app = "up" /\ boot.stage = "restore" /\ r \in boot.todo
      /\ UNCHANGED <<db, app, procs, ids, calls, acks, wake, jobs, sent>>
  BY DEF Restore
<1>3. Covers /\ Unsaved /\ Asks /\ Replaces /\ Restores /\ Shown BY <1>2 DEF Showing
<1>4. /\ boot'.todo = boot.todo \ {r} /\ boot'.live = boot.live
      /\ boot'.crashed = boot.crashed /\ boot'.stage = "restore"
  BY <1>1, <1>2 DEF Restore, TypeOK
<1>5. tabs[r].kind = "none" BY <1>2, <1>3 DEF Restores
<1>6. /\ \A q \in Rows \ {r} : tabs'[q] = tabs[q]
      /\ tabs'[r].kind = IF r \in boot.live THEN "reattached" ELSE "paused"
      /\ tabs'[r].msgs = db[r].msgs
  BY <1>1, <1>5 DEF Restore, TypeOK, Open, Opened
<1>7. Covers' BY <1>2, <1>3, <1>6 DEF Covers, InUse
<1>8. Unsaved' /\ Replaces'
  <2>1. \A w \in {"user", "start"} : (Opens(w)' <=> Opens(w)) /\ (Replacing(w)' <=> Replacing(w))
    BY <1>2 DEF Opens, Replacing
  <2>2. \A q \in Rows : InUse(q)' => InUse(q) \/ q \in boot.todo BY <1>2, <1>6 DEF InUse
  <2>3. QED BY <1>2, <1>3, <1>4, <2>1, <2>2, JobsGoOn
<1>9. Asks' BY <1>2, <1>3 DEF Asks, Asked, User
<1>10. Restores'
  <2>1. boot.todo \subseteq Rows BY <1>1 DEF TypeOK
  <2>2. QED BY <1>3, <1>4, <1>6, <2>1 DEF Restores
<1>11. Shown'
  <2>1. \A q \in Rows \ {r} : q \in boot.todo \/ q \in acks \/ InUse(q) => ToShow(q)'
    BY <1>2, <1>4, <1>6 DEF ToShow, InUse
  <2>2. \A q \in Rows : q \in boot.crashed => ToShow(q)' BY <1>4 DEF ToShow
  <2>3. ToShow(r)'
    <3>1. CASE r \in boot.live BY <1>6, <3>1 DEF ToShow, InUse
    <3>2. CASE r \in boot.crashed BY <2>2, <3>2
    <3>3. QED BY <1>2, <1>3, <3>1, <3>2 DEF Restores
  <2>4. \A q \in Rows \ {r} : Waits(q)' => Waits(q) BY <1>2, <1>6 DEF Waits
  <2>5. \A q \in Rows : q \in boot.todo \/ q \in acks \/ InUse(q) => ToShow(q)'
    BY <2>1, <2>3
  <2>6. \A q \in Rows : Waits(q)' => Waits(q) \/ ToShow(q)' BY <2>3, <2>4
  <2>7. QED BY <1>1, <1>2, <1>3, <2>2, <2>5, <2>6, ShownGoesOn
<1>12. QED BY <1>4, <1>7, <1>8, <1>9, <1>10, <1>11 DEF Showing, Asleep

LEMMA RowShows ==
  ASSUME Steady, Flagging, Showing, NEW r \in Rows,
         \/ Acknowledge(r) \/ CliReports(r)
         \/ ResumeTab(r) \/ ResumeListed(r) \/ Close(r)
         \/ Write(r) \/ Flush(r) \/ Restore(r)
  PROVE  Showing'
<1>1. TypeOK /\ Blank BY DEF Steady
<1>2. CASE Acknowledge(r)
  <2>1. UNCHANGED <<app, procs, calls, wake, tabs, boot, jobs>> BY <1>2 DEF Acknowledge
  <2>2. \/ RowIs(r, "closed", db[r].cli, db[r].was_open) /\ acks' = acks
        \/ RowIs(r, db[r].status, db[r].cli, FALSE) /\ acks' = acks \ {r}
    BY <1>1, <1>2, AckEffects
  <2>3. \A q \in Rows : /\ db'[q].msgs = db[q].msgs
                        /\ db[q].status # "none" => db'[q].status # "none"
                        /\ db[q].status = "closed" => db'[q].status = "closed"
    BY <2>2 DEF RowIs
  <2>4. \A q \in Rows : Waits(q)' => Waits(q) /\ (q \in acks => q \in acks')
    <3>1. TAKE q \in Rows
    <3>2. CASE q = r BY <2>2, <3>2 DEF RowIs, Waits
    <3>3. CASE q # r BY <2>1, <2>2, <3>3 DEF RowIs, Waits
    <3>4. QED BY <3>2, <3>3
  <2>5. QED BY <2>1, <2>3, <2>4, RowsShow
<1>3. CASE CliReports(r)
  <2>1. UNCHANGED <<app, procs, calls, acks, wake, tabs, boot, jobs>> BY <1>3 DEF CliReports
  <2>2. r \in procs /\ RowIs(r, db[r].status, TRUE, db[r].was_open)
    BY <1>1, <1>3, ReportEffects
  <2>3. \A q \in Rows : /\ db'[q].msgs = db[q].msgs /\ db'[q].status = db[q].status
                        /\ Waits(q)' => Waits(q)
    BY <2>1, <2>2 DEF RowIs, Waits
  <2>4. QED BY <2>1, <2>3, RowsShow
<1>4. CASE ResumeTab(r)
  <2>1. /\ Resume("user", r) /\ app = "up" /\ boot.stage # "list"
        /\ UNCHANGED <<db, app, procs, ids, acks, wake, boot, sent>>
    BY <1>4 DEF ResumeTab, AtLeisure
  <2>2. QED BY <2>1, ResumeShows DEF BootGoesOn
<1>5. CASE ResumeListed(r)
  <2>1. PICK b \in Unused : /\ Begin("user", [kind |-> "listed", from |-> r, to |-> b])
                            /\ calls' = Create(b, TRUE)
    BY <1>5 DEF ResumeListed
  <2>2. b \in Rows BY DEF Unused
  <2> DEFINE job == [kind |-> "listed", from |-> r, to |-> b]
  <2>3. Created(b, TRUE) /\ JobIs("user", job) BY <1>1, <2>1, <2>2, Creating, Begins
  <2>4. job.to = b /\ job.kind = "listed" OBVIOUS
  <2>5. app = "up" /\ boot.stage # "list" /\ UNCHANGED <<db, app, procs, acks, tabs, boot>>
    BY <1>5 DEF ResumeListed, AtLeisure
  <2> HIDE DEF job
  <2>6. QED BY <2>3, <2>4, <2>5, BeginShows DEF BootGoesOn
<1>6. CASE Close(r)
  <2>1. /\ app = "up" /\ boot.stage # "list" /\ tabs[r].kind # "none"
        /\ UNCHANGED <<app, procs, calls, acks, wake, tabs, boot>>
    BY <1>6 DEF Close, AtLeisure, MayClose
  <2>2. JobIs("user", [kind |-> "saving", from |-> r]) BY <1>1, <1>6, Begins DEF Close
  <2>3. \A w \in {"user", "start"} : jobs'[w] = jobs[w] \/ jobs'[w].kind \in {"idle", "saving"}
    BY <2>2 DEF JobIs, Other
  <2>4. CASE db' = Saved(r, tabs[r].msgs) BY <2>1, <2>3, <2>4, SavingShows
  <2>5. CASE db' = db
    <3>1. \A q \in Rows : InUse(q) => InUse(q)' BY <2>1 DEF InUse
    <3>2. QED BY <2>1, <2>3, <2>5, <3>1, TabGoes DEF BootGoesOn
  <2>6. QED BY <1>6, <2>4, <2>5 DEF Close
<1>7. CASE Flush(r)
  <2>1. /\ app = "up" /\ tabs[r].kind # "none" /\ db' = Saved(r, tabs[r].msgs)
        /\ UNCHANGED <<app, procs, calls, acks, tabs, boot, jobs>>
    BY <1>7 DEF Flush
  <2>2. boot.stage # "list" BY <1>1, <2>1 DEF Blank
  <2>3. QED BY <2>1, <2>2, SavingShows
<1>8. QED BY <1>2, <1>3, <1>4, <1>5, <1>6, <1>7, WriteShows, RestoreShows

LEMMA StartShows ==
  ASSUME "list" \notin Faults, "ack" \notin Faults, Steady, Flagging, Showing,
         List \/ AckAsks \/ AckReturns \/ AutoResume
  PROVE  Showing'
<1>1. TypeOK /\ Blank BY DEF Steady
<1>2. Covers /\ Unsaved /\ Asks /\ Replaces /\ Restores /\ Asleep /\ Shown
  BY DEF Showing, List, AckAsks, AckReturns, AutoResume
<1>3. CASE List
  <2>1. /\ app = "up" /\ boot.stage = "list"
        /\ UNCHANGED <<app, procs, ids, calls, acks, tabs, jobs, sent>>
    BY <1>3 DEF List
  <2> DEFINE live == IF wake THEN procs ELSE {}
             todo == Crashed \cup live
  <2>2. boot' = IF todo = {} THEN Done
                ELSE [stage |-> "restore", todo |-> todo, live |-> live, crashed |-> Crashed]
    BY <1>3 DEF List
  <2>3. \A q \in Rows : /\ db'[q].cli = db[q].cli /\ db'[q].msgs = db[q].msgs
                        /\ db'[q].status = db[q].status
                        /\ db'[q].was_open => db[q].was_open
    BY <1>1, <1>3, ListEffects DEF Resaved
  <2>4. jobs = NoJobs /\ \A q \in Rows : tabs[q].kind = "none" BY <1>1, <2>1 DEF Blank
  <2>5. \A w \in {"user", "start"} : jobs'[w] = Idle BY <2>1, <2>4 DEF NoJobs
  <2>6. Unsaved' /\ Asks' /\ Replaces'
    BY <2>5 DEF Unsaved, Asks, Replaces, Opens, Replacing, Asked, User, Idle
  <2>7. Covers' BY <2>1, <2>4 DEF Covers, InUse
  <2>8. todo \in SUBSET Rows BY <1>1 DEF TypeOK, Crashed
  <2>9. Restores' /\ Asleep'
    <3>1. boot'.todo = todo /\ boot'.stage # "list" /\ (todo # {} => boot'.stage = "restore")
            /\ boot'.todo \subseteq boot'.live \cup boot'.crashed
      BY <2>2 DEF Done, Start
    <3>2. QED BY <2>1, <2>4, <2>8, <3>1 DEF Restores, Asleep
  <2>10. Shown'
    <3>1. SUFFICES ASSUME NEW q \in Rows, Waits(q)' PROVE ToShow(q)' BY DEF Shown
    <3>2. /\ db[q].was_open /\ db[q].msgs # {} /\ (db[q].cli \/ q \in procs)
      BY <2>1, <2>3, <2>4, <3>1 DEF Waits
    <3>3. q \in procs => wake BY <1>2, <2>1 DEF Asleep
    <3>4. q \in todo BY <3>2, <3>3 DEF Crashed
    <3>5. boot'.todo = todo BY <2>2, <3>4
    <3>6. QED BY <3>4, <3>5 DEF ToShow
  <2>11. QED BY <2>6, <2>7, <2>9, <2>10 DEF Showing
<1>4. CASE AckAsks
  <2>1. /\ app = "up" /\ boot.stage = "restore" /\ boot.todo = {}
        /\ acks' = acks \cup boot.crashed
        /\ UNCHANGED <<db, app, procs, ids, calls, wake, tabs, jobs, sent>>
    BY <1>4 DEF AckAsks
  <2>2. boot'.stage = "ack" /\ boot'.todo = {}
    BY <1>1, <1>4, <2>1 DEF AckAsks, TypeOK
  <2>3. Covers' BY <1>2, <2>1 DEF Covers, InUse
  <2>4. Unsaved' /\ Asks' BY <1>2, <2>1 DEF Unsaved, Asks, Opens, Asked, User
  <2>5. Replaces' BY <1>2, <2>1, <2>2 DEF Replaces, Replacing, InUse, Opens
  <2>6. Restores' /\ Asleep' BY <2>2 DEF Restores, Asleep
  <2>7. Shown'
    <3>1. \A q \in Rows : InUse(q) \/ q \in acks \/ q \in boot.crashed => ToShow(q)'
      BY <2>1 DEF InUse, ToShow
    <3>2. \A q \in Rows : Waits(q)' => Waits(q) BY <2>1 DEF Waits
    <3>3. QED BY <1>1, <1>2, <2>1, <3>1, <3>2, ShownGoesOn
  <2>8. QED BY <2>3, <2>4, <2>5, <2>6, <2>7 DEF Showing
<1>5. CASE AckReturns
  <2>1. /\ app = "up" /\ boot.stage = "ack"
        /\ UNCHANGED <<db, app, procs, ids, calls, acks, wake, tabs, jobs, sent>>
    BY <1>5 DEF AckReturns
  <2>2. boot'.stage \in {"resume", "done"} /\ boot'.todo = {}
    BY <1>1, <1>2, <1>5, <2>1 DEF AckReturns, TypeOK, Done, Start, Restores
  <2>3. BootGoesOn BY <2>1, <2>2 DEF BootGoesOn
  <2>4. \A q \in Rows : InUse(q) => InUse(q)' BY <2>1 DEF InUse
  <2>5. QED BY <2>1, <2>3, <2>4, TabGoes
<1>6. CASE AutoResume
  <2>1. PICK r \in boot.crashed : IF tabs[r].kind = "paused"
                                  THEN Resume("start", r) ELSE UNCHANGED <<calls, tabs, jobs>>
    BY <1>6 DEF AutoResume
  <2>2. /\ app = "up" /\ boot.stage = "resume" /\ r \in Rows /\ BootGoesOn
        /\ UNCHANGED <<db, app, procs, ids, acks, wake, sent>>
    BY <1>1, <1>6 DEF AutoResume, Done, Start, TypeOK, BootGoesOn
  <2>3. CASE Resume("start", r) BY <2>2, <2>3, ResumeShows
  <2>4. CASE UNCHANGED <<calls, tabs, jobs>>
    <3>1. \A q \in Rows : InUse(q) => InUse(q)' BY <2>4 DEF InUse
    <3>2. QED BY <2>2, <2>4, <3>1, TabGoes
  <2>5. QED BY <2>1, <2>3, <2>4
<1>7. QED BY <1>3, <1>4, <1>5, <1>6

LEMMA EndShows ==
  ASSUME Steady, Showing, Quit \/ PromoteAll \/ ClearAll \/ Restart \/ Reload PROVE Showing'
<1>1. TypeOK /\ Covers BY DEF Steady, Showing
<1>2. CASE PromoteAll \/ ClearAll
  <2>1. app' # "up" /\ UNCHANGED <<procs, ids, calls, tabs, boot, jobs, sent>>
    BY <1>2 DEF PromoteAll, ClearAll
  <2>2. \A q \in Rows : Resaved(q) BY <1>1, <1>2, PromoteEffects, ClearEffects
  <2>3. Covers' BY <1>1, <2>1, <2>2 DEF Covers, InUse, Resaved
  <2>4. QED BY <2>1, <2>3 DEF Showing
<1>3. CASE Quit \/ Restart \/ Reload
  <2>1. WindowIsNew BY <1>3 DEF Quit, Restart, Reload
  <2>2. /\ \A q \in Rows : tabs'[q].kind = "none"
        /\ \A w \in {"user", "start"} : jobs'[w].kind = "idle"
        /\ boot'.stage = "list" /\ boot'.todo = {}
    BY <2>1, WindowEffects DEF NoTab, Idle
  <2>3. Covers' BY <2>2 DEF Covers, InUse
  <2>4. Unsaved' /\ Asks' /\ Replaces' /\ Restores' /\ Shown'
    BY <2>2 DEF Unsaved, Asks, Replaces, Restores, Shown, Opens, Replacing, Asked, User
  <2>5. app' = "up" => Asleep' BY <1>3 DEF Quit, Restart, Reload, Asleep
  <2>6. QED BY <2>3, <2>4, <2>5 DEF Showing
<1>4. QED BY <1>2, <1>3

LEMMA NextShows ==
  ASSUME "list" \notin Faults, "ack" \notin Faults
  PROVE  Steady /\ Flagging /\ Showing /\ [Next]_vars => Showing'
<1>1. ASSUME Steady, Flagging, Showing, UNCHANGED vars PROVE Showing'
  <2>1. UNCHANGED <<db, app, procs, calls, acks, wake, tabs, boot, jobs>> BY <1>1 DEF vars
  <2>2. \A q \in Rows : Waits(q)' => Waits(q) BY <2>1 DEF Waits
  <2>3. QED BY <1>1, <2>1, <2>2, RowsShow
<1>2. ASSUME Steady, Flagging, Showing, Next PROVE Showing'
  <2>1. CASE GoesOn
    <3>1. PICK who \in {"user", "start"} : Returns(who) \/ Swap(who) BY <2>1 DEF GoesOn
    <3>2. QED BY <1>2, <2>1, <3>1, ReturnsShow, SwapShows DEF GoesOn
  <2>2. QED BY <1>2, <2>1, CallShows, UserShows, RowShows, StartShows, EndShows DEF Next
<1>3. QED BY <1>1, <1>2

\* Once a start has settled, every saved message of a resumable session is in a tab
\* or in the Resume Session list, for any number of sessions, messages and tabs,
\* whatever the user closes and whichever session fails to start, as long as the
\* two calls of the start itself, list_crashed_sessions and
\* acknowledge_crashed_sessions, do not fail.
THEOREM SettledIsShown ==
  ASSUME "list" \notin Faults, "ack" \notin Faults
  PROVE  Spec => []AllIsShown
<1>1. Steady /\ Flagging /\ Showing => AllIsShown
  <2>1. SUFFICES ASSUME Steady, Showing, Settled, NEW m \in Messages, Findable(m)
                 PROVE  \/ \E r \in Rows : m \in tabs[r].msgs
                        \/ \E r \in Listed : m \in db[r].msgs
    BY DEF AllIsShown
  <2>2. PICK r \in Rows : /\ m \in db[r].msgs /\ db[r].cli
                          /\ db[r].was_open \/ db[r].status = "closed"
    BY <2>1 DEF Findable
  <2>3. TypeOK /\ Inserted /\ Covers /\ Restores /\ Shown
    BY <2>1 DEF Steady, Showing, Settled
  <2>4. CASE db[r].status = "closed"
    <3>1. r \in Listed BY <2>2, <2>4 DEF Listed
    <3>2. QED BY <2>2, <3>1
  <2>5. CASE db[r].status # "closed"
    <3>1. db[r].status = "open"
      BY <2>2, <2>3, <2>5 DEF TypeOK, Inserted
    <3>2. Waits(r) BY <2>2, <2>5, <3>1 DEF Waits
    <3>3. ToShow(r) BY <2>1, <2>3, <3>2 DEF Shown, Settled
    <3>4. InUse(r) BY <2>1, <2>3, <3>3 DEF ToShow, Settled, Restores
    <3>5. QED BY <2>2, <2>3, <3>4 DEF Covers
  <2>6. QED BY <2>4, <2>5
<1>2. Steady /\ Flagging /\ [Next]_vars => Flagging' BY NextFlags
<1>3. Steady /\ Flagging /\ Showing /\ [Next]_vars => Showing' BY NextShows
<1>4. QED BY <1>1, <1>2, <1>3, InitSteady, InitFlags, InitShows, NextSteady, PTL DEF Spec

=============================================================================
