------------------------- MODULE ApprovalTimersProofs -------------------------
(***************************************************************************)
(* Whatever the decision timeout is, the two margins around it keep the    *)
(* order of the timers, as long as they are wider than the steps between   *)
(* them may be late.                                                       *)
(***************************************************************************)
EXTENDS ApprovalTimers, TLAPS

\* A running hook is young: curl was started within Lag, and curl itself ends
\* within its own timeout.
Young ==
  /\ hook = "starting" => now <= Lag
  /\ hook = "curling" => /\ curlAt <= Lag /\ curlAt <= now
                         /\ now <= curlAt + CurlMaxTime + Lag

\* A prompt server is in each of its states for a bounded time, counted from the
\* start of curl.
Prompt ==
  hook = "curling" /\ ~stalls =>
    /\ server = "none" => now <= curlAt + Lag
    /\ server = "waiting" => /\ stepAt <= curlAt + Lag
                             /\ now <= stepAt + DecisionTimeout + Lag
    /\ server = "decided" => /\ stepAt <= curlAt + DecisionTimeout + 2 * Lag
                             /\ now <= stepAt + Lag

\* What the server has come to before and while curl runs.
Pending ==
  /\ hook = "starting" => server = "none"
  /\ hook = "curling" => server \in {"none", "waiting", "decided"}

TimersInv == TypeOK /\ Young /\ Prompt /\ Pending /\ ReasonedDecision

THEOREM TimersInvariant == Spec => []TimersInv
<1> USE TimersAssumption DEF CurlMaxTime, HookStates, ServerStates
<1>1. Init => TimersInv
  BY DEF Init, TimersInv, TypeOK, Young, Prompt, Pending, ReasonedDecision
<1>2. TimersInv /\ [Next]_vars => TimersInv'
  <2> SUFFICES ASSUME TimersInv, [Next]_vars PROVE TimersInv'
    OBVIOUS
  <2> USE DEF TimersInv, TypeOK, Young, Prompt, Pending, ReasonedDecision
  <2>1. CASE StartCurl
    BY <2>1 DEF StartCurl
  <2>2. CASE Handle
    BY <2>2 DEF Handle
  <2>3. CASE Refused
    BY <2>3 DEF Refused
  <2>4. CASE UserDecides
    BY <2>4 DEF UserDecides
  <2>5. CASE DecisionTimesOut
    BY <2>5 DEF DecisionTimesOut
  <2>6. CASE PrintDecision
    BY <2>6 DEF PrintDecision
  <2>7. CASE CurlTimesOut
    BY <2>7 DEF CurlTimesOut
  <2>8. CASE Tick
    BY <2>8 DEF Tick
  <2>9. CASE NextCall
    BY <2>9 DEF NextCall
  <2>10. CASE UNCHANGED vars
    BY <2>10 DEF vars
  <2> QED
    BY <2>1, <2>2, <2>3, <2>4, <2>5, <2>6, <2>7, <2>8, <2>9, <2>10 DEF Next
<1> QED
  BY <1>1, <1>2, PTL DEF Spec

\* The CLI's hook timeout never fires, for any decision timeout, any margins
\* wider than the lags they cover, and however long the server stalls.
THEOREM FailsClosed == Spec => []NeverFailsOpen
<1>1. TimersInv => NeverFailsOpen
  BY TimersAssumption
     DEF TimersInv, TypeOK, Young, NeverFailsOpen, CurlMaxTime, CliTimeout, HookStates
<1> QED
  BY <1>1, TimersInvariant, PTL

\* A server that handles its requests is never abandoned by curl.
THEOREM DecisionReachesTheCli == Spec => []ReasonedDecision
<1>1. TimersInv => ReasonedDecision
  BY DEF TimersInv
<1> QED
  BY <1>1, TimersInvariant, PTL
============================================================================
