---------------------------- MODULE ApprovalTimers ----------------------------
(***************************************************************************)
(* The three nested timers that bound one tool approval of a Claude        *)
(* session: the decision timeout of the approval server                    *)
(* (agents/claude_code/approval_server.rs), the --max-time of the curl in  *)
(* the hook script, and the PreToolUse timeout after which the CLI runs    *)
(* the tool unapproved (agents/claude_code/process.rs).                    *)
(*                                                                         *)
(* Time is counted in seconds since the CLI started the hook.  A step that *)
(* is due is taken within Lag seconds: that is what starting a process, a  *)
(* local connection, waking a task and a timer that fires late may cost.   *)
(***************************************************************************)
EXTENDS Integers

CONSTANTS
  DecisionTimeout, \* DECISION_TIMEOUT_SECS
  CurlMargin,      \* what HOOK_CURL_MAX_TIME_SECS adds to it
  CliMargin,       \* what CLI_HOOK_TIMEOUT_SECS adds to that
  Lag              \* how late a step that is due may be

ASSUME TimersAssumption ==
  /\ DecisionTimeout \in Nat /\ CurlMargin \in Nat /\ CliMargin \in Nat /\ Lag \in Nat
  /\ 3 * Lag < CurlMargin /\ 2 * Lag < CliMargin

VARIABLES
  now,    \* seconds since the CLI started the hook
  hook,   \* the hook script
  server, \* handle_tool_approval for its request
  curlAt, \* when curl was started
  stepAt, \* when the server entered its present state
  stalls  \* the server may hold this request for any time

vars == <<now, hook, server, curlAt, stepAt, stalls>>

HookStates   == {"starting", "curling", "printed"}
ServerStates == {"none", "waiting", "decided", "unreachable", "abandoned"}

\* Mutants: the timers as they once were, all equal.
CurlMaxTimeEqual == DecisionTimeout
CurlMaxTime == DecisionTimeout + CurlMargin
CliTimeoutEqual == DecisionTimeout
CliTimeout  == CurlMaxTime + CliMargin

Init ==
  /\ now = 0 /\ hook = "starting" /\ server = "none" /\ curlAt = 0 /\ stepAt = 0
  /\ stalls \in BOOLEAN

\* The script forwards its input to the server.
StartCurl ==
  /\ hook = "starting"
  /\ hook' = "curling" /\ curlAt' = now
  /\ UNCHANGED <<now, server, stepAt, stalls>>

\* The server prompts the user, or decides at once by tool or by mode.
Handle ==
  /\ hook = "curling" /\ server = "none"
  /\ server' \in {"waiting", "decided"} /\ stepAt' = now
  /\ UNCHANGED <<now, hook, curlAt, stalls>>

\* Nobody listens on the port.
Refused ==
  /\ hook = "curling" /\ server = "none"
  /\ server' = "unreachable" /\ hook' = "printed"
  /\ UNCHANGED <<now, curlAt, stepAt, stalls>>

UserDecides ==
  /\ hook = "curling" /\ server = "waiting"
  /\ server' = "decided" /\ stepAt' = now
  /\ UNCHANGED <<now, hook, curlAt, stalls>>

DecisionTimesOut ==
  /\ hook = "curling" /\ server = "waiting" /\ now >= stepAt + DecisionTimeout
  /\ server' = "decided" /\ stepAt' = now
  /\ UNCHANGED <<now, hook, curlAt, stalls>>

\* curl returns the decision and the script prints it.
PrintDecision ==
  /\ hook = "curling" /\ server = "decided"
  /\ hook' = "printed"
  /\ UNCHANGED <<now, server, curlAt, stepAt, stalls>>

\* curl gives up: the script prints a denial of its own.
CurlTimesOut ==
  /\ hook = "curling" /\ now >= curlAt + CurlMaxTime
  /\ hook' = "printed" /\ server' = "abandoned"
  /\ UNCHANGED <<now, curlAt, stepAt, stalls>>

\* Time passes while nothing is overdue.
Tick ==
  /\ now' = now + 1
  /\ \/ hook = "starting" /\ now < Lag
     \/ /\ hook = "curling" /\ now < curlAt + CurlMaxTime + Lag
        /\ \/ stalls
           \/ server = "none" /\ now < curlAt + Lag
           \/ server = "waiting" /\ now < stepAt + DecisionTimeout + Lag
           \/ server = "decided" /\ now < stepAt + Lag
  /\ UNCHANGED <<hook, server, curlAt, stepAt, stalls>>

\* The next tool call starts a hook of its own.
NextCall ==
  /\ hook = "printed"
  /\ now' = 0 /\ hook' = "starting" /\ server' = "none" /\ curlAt' = 0 /\ stepAt' = 0
  /\ stalls' \in BOOLEAN

Next == StartCurl \/ Handle \/ Refused \/ UserDecides \/ DecisionTimesOut
        \/ PrintDecision \/ CurlTimesOut \/ Tick \/ NextCall

Spec == Init /\ [][Next]_vars

----------------------------------------------------------------------------
TypeOK ==
  /\ now \in Nat /\ curlAt \in Nat /\ stepAt \in Nat
  /\ hook \in HookStates /\ server \in ServerStates /\ stalls \in BOOLEAN

\* The CLI never runs a tool unapproved because its hook took too long: the
\* script has printed its decision before the CLI's own timeout
\* (build_session_settings_json, CLI_HOOK_TIMEOUT_SECS).
NeverFailsOpen == hook # "printed" => now < CliTimeout

\* curl never gives up on a server that handles its requests: what the script
\* prints is the server's own reasoned decision (HOOK_CURL_MAX_TIME_SECS).
ReasonedDecision == stalls \/ server # "abandoned"
============================================================================
