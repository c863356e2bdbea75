--------------------------- MODULE LifecycleProofs ---------------------------
(***************************************************************************)
(* Proofs about Backoff and Lifecycle, for any number of nodes, loads,     *)
(* servers and requests, any limit of tries and any rests: LifecycleInv    *)
(* is inductive.                                                           *)
(***************************************************************************)
EXTENDS Lifecycle, TLAPS

\* What Max and Min of two numbers are.
LEMMA MaxOfTwo ==
    ASSUME NEW a \in Int, NEW b \in Int
    PROVE  Max({a, b}) \in {a, b} /\ Max({a, b}) >= a /\ Max({a, b}) >= b
<1>1. \E x \in {a, b} : \A y \in {a, b} : x >= y
    <2>1. CASE a >= b
        BY <2>1
    <2>2. CASE b >= a
        BY <2>2
    <2> QED BY <2>1, <2>2
<1> QED BY <1>1 DEF Max

LEMMA MinOfTwo ==
    ASSUME NEW a \in Int, NEW b \in Int
    PROVE  Min({a, b}) \in {a, b} /\ Min({a, b}) <= a /\ Min({a, b}) <= b
<1>1. \E x \in {a, b} : \A y \in {a, b} : x <= y
    <2>1. CASE a <= b
        BY <2>1
    <2>2. CASE b <= a
        BY <2>2
    <2> QED BY <2>1, <2>2
<1> QED BY <1>1 DEF Min

-----------------------------------------------------------------------------
(* Backoff *)

BackoffInv == BackoffTypeOK /\ TriesAddUp /\ GivesUpForCause

\* A call that begins has all its tries before it.
LEMMA BeginKeeps ==
    ASSUME BackoffInv, NEW c \in Callers, NEW p \in Policies, Begin(c, p),
           UNCHANGED cancelled
    PROVE  BackoffInv'
<1>1. BackoffTypeOK /\ TriesAddUp /\ GivesUpForCause
    BY DEF BackoffInv
<1>2. BackoffTypeOK'
    BY <1>1, BackoffAssumption DEF BackoffTypeOK, Begin
<1>3. /\ stage'[c] = "check" /\ policy'[c] = p /\ result'[c] = "none" /\ failures'[c] = 0
      /\ tries'[c] = IF p = "forever" THEN 0 ELSE Limit
    BY <1>1 DEF BackoffTypeOK, Begin
<1>4. \A d \in Callers \ {c} :
         /\ stage'[d] = stage[d] /\ policy'[d] = policy[d] /\ result'[d] = result[d]
         /\ failures'[d] = failures[d] /\ tries'[d] = tries[d]
    BY <1>1 DEF BackoffTypeOK, Begin
<1>5. TriesAddUp'
    BY <1>1, <1>3, <1>4, BackoffAssumption DEF TriesAddUp, BackoffTypeOK
<1>6. GivesUpForCause'
    BY <1>1, <1>3, <1>4 DEF GivesUpForCause, Done
<1> QED BY <1>2, <1>5, <1>6 DEF BackoffInv

LEMMA ForgetKeeps ==
    ASSUME BackoffInv, NEW c \in Callers, Forget(c), UNCHANGED cancelled
    PROVE  BackoffInv'
<1>1. BackoffTypeOK /\ TriesAddUp /\ GivesUpForCause
    BY DEF BackoffInv
<1>2. BackoffTypeOK'
    BY <1>1, BackoffAssumption DEF BackoffTypeOK, Forget, Policies
<1>3. /\ stage'[c] = "idle" /\ policy'[c] = "forever" /\ result'[c] = "none"
      /\ failures'[c] = 0 /\ tries'[c] = 0
    BY <1>1 DEF BackoffTypeOK, Forget
<1>4. \A d \in Callers \ {c} :
         /\ stage'[d] = stage[d] /\ policy'[d] = policy[d] /\ result'[d] = result[d]
         /\ failures'[d] = failures[d] /\ tries'[d] = tries[d]
    BY <1>1 DEF BackoffTypeOK, Forget
<1>5. TriesAddUp'
    BY <1>1, <1>3, <1>4 DEF TriesAddUp
<1>6. GivesUpForCause'
    BY <1>1, <1>3, <1>4 DEF GivesUpForCause, Done
<1> QED BY <1>2, <1>5, <1>6 DEF BackoffInv

\* A failure takes one try away and counts one failure; the limit is met by a
\* limited call only, and by its last try.
LEMMA FailKeeps ==
    ASSUME BackoffInv, NEW c \in Callers, Fail(c)
    PROVE  BackoffInv'
<1>1. BackoffTypeOK /\ TriesAddUp /\ GivesUpForCause
    BY DEF BackoffInv
<1>2. /\ tries[c] \in -1 .. Limit /\ failures[c] \in 0 .. Limit /\ stage[c] = "call"
      /\ policy[c] \in Policies /\ Limit \in Nat
    BY <1>1, BackoffAssumption DEF BackoffTypeOK, Fail
<1>3. /\ Max({tries[c] - 1, -1}) \in {tries[c] - 1, -1}
      /\ Max({tries[c] - 1, -1}) >= -1 /\ Max({tries[c] - 1, -1}) >= tries[c] - 1
    <2>1. tries[c] - 1 \in Int /\ -1 \in Int
        BY <1>2
    <2> QED BY <2>1, MaxOfTwo, Zenon
<1>4. /\ Min({failures[c] + 1, Limit}) \in {failures[c] + 1, Limit}
      /\ Min({failures[c] + 1, Limit}) <= Limit
      /\ Min({failures[c] + 1, Limit}) <= failures[c] + 1
    <2>1. failures[c] + 1 \in Int /\ Limit \in Int
        BY <1>2
    <2> QED BY <2>1, MinOfTwo, Zenon
<1>5. /\ tries' = [tries EXCEPT ![c] = Max({tries[c] - 1, -1})]
      /\ failures' = [failures EXCEPT ![c] = Min({failures[c] + 1, Limit})]
      /\ UNCHANGED <<policy, wait, cancelled>>
      /\ \/ tries[c] = 1 /\ Return(c, "limit")
         \/ tries[c] # 1 /\ stage' = [stage EXCEPT ![c] = "rest"] /\ UNCHANGED result
    BY DEF Fail
<1>6. /\ tries'[c] = Max({tries[c] - 1, -1})
      /\ failures'[c] = Min({failures[c] + 1, Limit})
      /\ \/ tries[c] = 1 /\ stage'[c] = "returned" /\ result'[c] = "limit"
         \/ tries[c] # 1 /\ stage'[c] = "rest" /\ result'[c] = result[c]
    BY <1>1, <1>5 DEF BackoffTypeOK, Return
<1>7. \A d \in Callers \ {c} :
         /\ stage'[d] = stage[d] /\ policy'[d] = policy[d] /\ result'[d] = result[d]
         /\ failures'[d] = failures[d] /\ tries'[d] = tries[d]
    BY <1>1, <1>5 DEF BackoffTypeOK, Return
<1>8. BackoffTypeOK'
    <2>1. tries'[c] \in -1 .. Limit /\ failures'[c] \in 0 .. Limit
        BY <1>2, <1>3, <1>4, <1>6
    <2>2. /\ stage' \in [Callers -> {"idle", "check", "call", "rest", "returned"}]
          /\ result' \in [Callers -> {"none", "ok", "cancelled", "fatal", "limit"}]
        BY <1>1, <1>5 DEF BackoffTypeOK, Return
    <2> QED BY <1>1, <1>5, <1>6, <2>1, <2>2 DEF BackoffTypeOK
<1>9. policy[c] # "forever" => tries[c] + failures[c] = Limit /\ tries[c] > 0
    BY <1>1, <1>2 DEF TriesAddUp
<1>10. policy[c] = "forever" => tries[c] \in {-1, 0}
    BY <1>1 DEF TriesAddUp
<1>11. /\ policy[c] # "forever" => tries'[c] + failures'[c] = Limit
       /\ policy[c] # "forever" /\ stage'[c] # "returned" => tries'[c] > 0
       /\ policy[c] = "forever" => tries'[c] = -1 /\ stage'[c] = "rest"
       /\ tries[c] = 1 => failures'[c] = Limit
    BY <1>2, <1>3, <1>4, <1>6, <1>9, <1>10
<1>12. TriesAddUp'
    BY <1>1, <1>5, <1>7, <1>11 DEF TriesAddUp
<1>13. GivesUpForCause'
    <2>1. /\ result'[c] = "cancelled" => Done(c)'
          /\ policy'[c] = "forever" => result'[c] \in {"none", "ok", "cancelled"}
          /\ result'[c] = "limit" => failures'[c] = Limit
        <3>1. CASE tries[c] = 1
            BY <1>5, <1>6, <1>11, <3>1
        <3>2. CASE tries[c] # 1
            <4>1. result'[c] = result[c] /\ policy'[c] = policy[c] /\ (Done(c)' <=> Done(c))
                BY <1>5, <1>6, <3>2 DEF Done
            <4>2. result[c] # "limit"
                BY <1>1, <1>2, <1>9 DEF GivesUpForCause
            <4> QED BY <1>1, <4>1, <4>2 DEF GivesUpForCause
        <3> QED BY <3>1, <3>2
    <2>2. \A d \in Callers \ {c} :
             /\ result'[d] = "cancelled" => Done(d)'
             /\ policy'[d] = "forever" => result'[d] \in {"none", "ok", "cancelled"}
             /\ result'[d] = "limit" => failures'[d] = Limit
        BY <1>1, <1>5, <1>7 DEF GivesUpForCause, Done
    <2> QED BY <2>1, <2>2 DEF GivesUpForCause
<1> QED BY <1>8, <1>12, <1>13 DEF BackoffInv

LEMMA RetryKeeps ==
    ASSUME BackoffInv, NEW c \in Callers, BackoffStep(c)
    PROVE  BackoffInv'
<1>1. BackoffTypeOK /\ TriesAddUp /\ GivesUpForCause
    BY DEF BackoffInv
<1>2. CASE Check(c) \/ Succeed(c) \/ FailFatal(c)
    <2>1. /\ UNCHANGED <<policy, tries, wait, failures, cancelled>>
          /\ stage[c] \in {"check", "call"}
          /\ \/ stage' = [stage EXCEPT ![c] = "call"] /\ UNCHANGED result
             \/ Done(c) /\ Return(c, "cancelled")
             \/ Return(c, "ok")
             \/ policy[c] = "block" /\ Return(c, "fatal")
        BY <1>2 DEF Check, Succeed, FailFatal
    <2>2. BackoffTypeOK'
        BY <1>1, <2>1 DEF BackoffTypeOK, Return
    <2>3. \A d \in Callers \ {c} : stage'[d] = stage[d] /\ result'[d] = result[d]
        BY <1>1, <2>1 DEF BackoffTypeOK, Return
    <2>4. /\ stage'[c] \in {"call", "returned"}
          /\ \/ result'[c] \in {result[c], "ok"}
             \/ Done(c) /\ result'[c] = "cancelled"
             \/ policy[c] = "block" /\ result'[c] = "fatal"
        BY <1>1, <2>1 DEF BackoffTypeOK, Return
    <2>5. TriesAddUp'
        BY <1>1, <2>1, <2>3, <2>4 DEF TriesAddUp
    <2>6. GivesUpForCause'
        BY <1>1, <2>1, <2>3, <2>4 DEF GivesUpForCause, Done
    <2> QED BY <2>2, <2>5, <2>6 DEF BackoffInv
<1>3. CASE Rest(c)
    <2>1. /\ UNCHANGED <<policy, tries, result, failures, cancelled>> /\ stage[c] = "rest"
          /\ stage' = [stage EXCEPT ![c] = "check"]
          /\ wait' = [wait EXCEPT ![c] = Min({2 * wait[c], MaxWait})]
        BY <1>3 DEF Rest
    <2>2. wait[c] \in Wait .. MaxWait /\ Wait \in Nat /\ MaxWait \in Nat
        BY <1>1, BackoffAssumption DEF BackoffTypeOK
    <2>3. Min({2 * wait[c], MaxWait}) \in Wait .. MaxWait
        <3>1. 2 * wait[c] \in Int /\ 2 * wait[c] >= Wait
            BY <2>2
        <3>2. /\ Min({2 * wait[c], MaxWait}) \in {2 * wait[c], MaxWait}
              /\ Min({2 * wait[c], MaxWait}) <= MaxWait
            <4>1. MaxWait \in Int
                BY <2>2
            <4> QED BY <3>1, <4>1, MinOfTwo, Zenon
        <3> QED BY <2>2, <3>1, <3>2, BackoffAssumption
    <2>4. BackoffTypeOK'
        BY <1>1, <2>1, <2>3 DEF BackoffTypeOK
    <2>5. TriesAddUp' /\ GivesUpForCause'
        BY <1>1, <2>1 DEF TriesAddUp, GivesUpForCause, Done, BackoffTypeOK
    <2> QED BY <2>4, <2>5 DEF BackoffInv
<1> QED BY <1>2, <1>3, FailKeeps DEF BackoffStep, CallEnds

\* Cancelling the context disturbs no call.
LEMMA CancelKeeps ==
    ASSUME BackoffInv, UNCHANGED backoffVars, cancelled' \in BOOLEAN, cancelled => cancelled'
    PROVE  BackoffInv'
<1> QED BY DEF BackoffInv, BackoffTypeOK, TriesAddUp, GivesUpForCause, Done, backoffVars

-----------------------------------------------------------------------------
(* The process *)

\* Types of what is not in Backoff.
ProcessTypeOK ==
    /\ main \in {"config", "run", "stopping", "exited"}
    /\ server \in [Servers -> {"off", "listening", "failed", "closing", "closed"}]
    /\ inFlight \in [Servers -> 0 .. MaxRequests]
    /\ hijacked \in [Servers -> 0 .. MaxRequests]
    /\ stopped \subseteq Servers /\ grace \in BOOLEAN
    /\ loop \in [Nodes -> {"top", "genesis", "first", "status", "monitor", "after",
                           "fetch", "fatal", "ended"}]

ProcessInv == ProcessTypeOK /\ DrainInv /\ ExitDrains

LEMMA Parts == LifecycleInv <=> BackoffInv /\ ProcessInv
<1> QED BY DEF LifecycleInv, BackoffInv, ProcessInv, LifecycleTypeOK, ProcessTypeOK

LEMMA LifecycleInitially == LifecycleInit => LifecycleInv
<1> SUFFICES ASSUME LifecycleInit PROVE LifecycleInv
    OBVIOUS
<1>1. BackoffInv
    <2>1. BackoffTypeOK
        <3>1. 0 \in -1 .. Limit /\ 0 \in 0 .. Limit /\ Wait \in Wait .. MaxWait
            BY BackoffAssumption
        <3> QED BY <3>1, Zenon DEF LifecycleInit, BackoffInit, BackoffTypeOK, Policies
    <2>2. TriesAddUp /\ GivesUpForCause
        BY DEF LifecycleInit, BackoffInit, TriesAddUp, GivesUpForCause
    <2> QED BY <2>1, <2>2 DEF BackoffInv
<1>2. ProcessInv
    <2>1. ProcessTypeOK
        <3>1. 0 \in 0 .. MaxRequests
            BY LifecycleAssumption
        <3> QED BY <3>1, Zenon DEF LifecycleInit, ProcessTypeOK
    <2>2. DrainInv /\ ExitDrains
        BY DEF LifecycleInit, DrainInv, ExitDrains
    <2> QED BY <2>1, <2>2 DEF ProcessInv
<1> QED BY <1>1, <1>2, Parts

\* Steps of main and of the servers.
LEMMA ServerStepKeeps ==
    ASSUME LifecycleInv,
           \/ LoadConfigFails \/ StartAll \/ Signal \/ Main
           \/ \E s \in Servers :
                 \/ ListenFails(s) \/ ServerClosed(s) \/ Request(s) \/ RequestEnds(s)
                 \/ Hijack(s) \/ HijackEnds(s)
    PROVE  LifecycleInv'
<1>1. BackoffInv /\ ProcessTypeOK /\ DrainInv /\ ExitDrains
    BY Parts DEF ProcessInv
<1>2. BackoffInv'
    <2>1. /\ UNCHANGED backoffVars /\ cancelled' \in {cancelled, TRUE}
        BY DEF LoadConfigFails, StartAll, Signal, Main, WaitCancelled, WaitFatal, GraceExpires,
               Exit, Shutdown, ShutdownEnds, ListenFails, ServerClosed, Request, RequestEnds,
               Accepts, Hijack, HijackEnds
    <2> QED BY <1>1, <2>1, CancelKeeps DEF BackoffInv, BackoffTypeOK
<1> USE DEF ProcessInv, ProcessTypeOK, DrainInv, ExitDrains, mainVars, serverVars
<1>3. ASSUME LoadConfigFails \/ StartAll \/ Signal PROVE ProcessInv'
    BY <1>1, <1>3 DEF LoadConfigFails, StartAll, Signal
<1>4. ASSUME WaitCancelled \/ GraceExpires \/ Exit PROVE ProcessInv'
    BY <1>1, <1>4 DEF WaitCancelled, GraceExpires, Exit
<1>5. ASSUME NEW n \in Nodes, WaitFatal(n) PROVE ProcessInv'
    BY <1>1, <1>5 DEF WaitFatal
<1>6. ASSUME NEW s \in Servers, Shutdown(s) \/ ListenFails(s) \/ ServerClosed(s)
      PROVE  ProcessInv'
    BY <1>1, <1>6 DEF Shutdown, ListenFails, ServerClosed
<1>7. ASSUME NEW s \in Servers, ShutdownEnds(s) PROVE ProcessInv'
    BY <1>1, <1>7 DEF ShutdownEnds
<1>8. ASSUME NEW s \in Servers, Request(s) \/ RequestEnds(s) PROVE ProcessInv'
    <2>1. /\ inFlight'[s] \in 0 .. MaxRequests
          /\ inFlight' = [inFlight EXCEPT ![s] = inFlight'[s]]
          /\ inFlight[s] = 0 => server[s] = "listening"
          /\ inFlight'[s] = 0 \/ server[s] = "listening" \/ inFlight[s] # 0
          /\ UNCHANGED <<main, stopped, grace, server, hijacked, loop>> /\ main # "exited"
        BY <1>1, <1>8, LifecycleAssumption DEF Request, RequestEnds, Accepts, Alive
    <2>2. main # "config"
        BY <1>1, <1>8 DEF Request, RequestEnds, Accepts
    <2> QED BY <1>1, <2>1, <2>2
<1>9. ASSUME NEW s \in Servers, Hijack(s) \/ HijackEnds(s) PROVE ProcessInv'
    <2>1. /\ hijacked'[s] \in 0 .. MaxRequests
          /\ hijacked' = [hijacked EXCEPT ![s] = hijacked'[s]]
          /\ UNCHANGED <<main, stopped, grace, server, inFlight, loop>>
        BY <1>1, <1>9, LifecycleAssumption DEF Hijack, HijackEnds, Accepts
    <2> QED BY <1>1, <2>1
<1>10. ProcessInv'
    BY <1>3, <1>4, <1>5, <1>6, <1>7, <1>8, <1>9 DEF Main
<1> QED BY <1>2, <1>10 DEF LifecycleInv, BackoffInv, LifecycleTypeOK

\* Steps of the nodes' loops, of the loads and of the calls.
LEMMA LoopStepKeeps ==
    ASSUME LifecycleInv,
           \/ \E n \in Nodes : Node(n)
           \/ \E c \in Background : LoadBlock(c)
           \/ \E c \in Callers : Retry(c)
    PROVE  LifecycleInv'
<1>1. BackoffInv /\ ProcessTypeOK /\ DrainInv /\ ExitDrains
    BY Parts DEF ProcessInv
<1>2. UNCHANGED <<mainVars, serverVars>>
    BY DEF Node, mainLoop, boot, Monitor, LoadBlock, Retry, Stays
<1>3. ASSUME NEW n \in Nodes, Node(n)
      PROVE  /\ UNCHANGED cancelled
             /\ \/ UNCHANGED backoffVars \/ Forget(n)
                \/ \E p \in Policies : Begin(n, p)
             /\ \E p \in {"top", "genesis", "first", "status", "monitor", "after", "fetch",
                          "fatal", "ended"} : Goes(n, p)
    BY <1>3 DEF Node, mainLoop, boot, Monitor, Calls, Moves, Stays, Policies
<1>4. BackoffInv' /\ loop' \in [Nodes -> {"top", "genesis", "first", "status", "monitor",
                                          "after", "fetch", "fatal", "ended"}]
    <2>1. ASSUME NEW n \in Nodes, Node(n) PROVE BackoffInv'
        <3>1. n \in Callers
            BY LifecycleAssumption
        <3>2. CASE UNCHANGED backoffVars
            BY <1>1, <1>3, <2>1, <3>2, CancelKeeps DEF BackoffInv, BackoffTypeOK
        <3> QED BY <1>1, <1>3, <2>1, <3>1, <3>2, ForgetKeeps, BeginKeeps
    <2>2. ASSUME NEW c \in Background, LoadBlock(c) PROVE BackoffInv' /\ UNCHANGED loop
        <3>1. c \in Callers /\ Begin(c, "block") /\ UNCHANGED <<cancelled, loop>>
            BY <2>2, BackoffAssumption DEF LoadBlock, Stays
        <3> QED BY <1>1, <3>1, BeginKeeps DEF Policies
    <2>3. ASSUME NEW c \in Callers, Retry(c) PROVE BackoffInv' /\ UNCHANGED loop
        BY <1>1, <2>3, RetryKeeps DEF Retry
    <2>4. ASSUME NEW n \in Nodes, Node(n)
          PROVE  loop' \in [Nodes -> {"top", "genesis", "first", "status", "monitor",
                                      "after", "fetch", "fatal", "ended"}]
        BY <1>1, <1>3, <2>4 DEF Goes, ProcessTypeOK
    <2> QED BY <1>1, <2>1, <2>2, <2>3, <2>4 DEF ProcessTypeOK
<1>5. ProcessInv'
    BY <1>1, <1>2, <1>4
       DEF ProcessInv, ProcessTypeOK, DrainInv, ExitDrains, mainVars, serverVars
<1> QED BY <1>4, <1>5
        DEF LifecycleInv, BackoffInv, ProcessInv, LifecycleTypeOK, ProcessTypeOK

LEMMA LifecycleStep == LifecycleInv /\ [LifecycleNext]_lifeVars => LifecycleInv'
<1> SUFFICES ASSUME LifecycleInv, [LifecycleNext]_lifeVars PROVE LifecycleInv'
    OBVIOUS
<1>1. CASE LifecycleNext
    BY <1>1, ServerStepKeeps, LoopStepKeeps DEF LifecycleNext
<1>2. CASE UNCHANGED lifeVars
    BY <1>2 DEF lifeVars, backoffVars, mainVars, serverVars, LifecycleInv, LifecycleTypeOK,
                BackoffTypeOK, TriesAddUp, GivesUpForCause, Done, DrainInv, ExitDrains
<1> QED BY <1>1, <1>2

-----------------------------------------------------------------------------
(* The theorems *)

\* The invariant of the process, types included.
THEOREM LifecycleInvariant == LifecycleSpec => []LifecycleInv
<1> QED BY LifecycleInitially, LifecycleStep, PTL DEF LifecycleSpec

\* The variables of main, the servers, the loops and the calls keep their types;
\* a rest never gets longer than maxwait and tries never wrap.
THEOREM LifecycleTypes == LifecycleSpec => []LifecycleTypeOK
<1>1. LifecycleInv => LifecycleTypeOK
    BY DEF LifecycleInv
<1> QED BY <1>1, LifecycleInvariant, PTL

\* utils.Backoff gives up for the reason its caller asked for and for no other,
\* whatever the limit and the rests are.
THEOREM BackoffGivesUpForCause == LifecycleSpec => []GivesUpForCause
<1>1. LifecycleInv => GivesUpForCause
    BY DEF LifecycleInv
<1> QED BY <1>1, LifecycleInvariant, PTL

\* tries and failures add up to the limit at every moment of a limited call.
THEOREM BackoffTriesAddUp == LifecycleSpec => []TriesAddUp
<1>1. LifecycleInv => TriesAddUp
    BY DEF LifecycleInv
<1> QED BY <1>1, LifecycleInvariant, PTL

\* main returns with requests in flight that Shutdown knows of only after the two
\* seconds it gives them (main.go:73-92), for any number of servers with and without
\* H2C; of the requests on connections that h2c has taken over nothing is claimed.
THEOREM MainDrains == LifecycleSpec => []ExitDrains
<1>1. LifecycleInv => ExitDrains
    BY DEF LifecycleInv
<1> QED BY <1>1, LifecycleInvariant, PTL
=============================================================================
