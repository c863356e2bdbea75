------------------------------- MODULE Backoff -------------------------------
(***************************************************************************)
(* utils.Backoff and its callers' policies: a call to a node is repeated   *)
(* until it succeeds, fails for good, has failed too often or the context  *)
(* is cancelled; between two tries the caller rests, twice as long each    *)
(* time.  GetGenesis and Status are tried for ever (tries = 0),            *)
(* StatusAfterBlock and BlockRaw at most ten times.                        *)
(***************************************************************************)
EXTENDS Integers, FiniteSetsExt

CONSTANTS
    Callers,     \* goroutines that call Backoff
    Background,  \* those whose context is context.Background(): loads
    Limit,       \* tries of a limited call (10)
    Wait,        \* the first rest (100 ms)
    MaxWait      \* the longest (10 s)

Policies == {"forever", "limited", "block"}

ASSUME BackoffAssumption ==
    /\ Background \subseteq Callers
    /\ Limit \in Nat \ {0}
    /\ Wait \in Nat \ {0} /\ MaxWait \in Nat /\ Wait <= MaxWait

VARIABLES
    stage,      \* "idle", "check", "call", "rest", "returned"
    policy,     \* which of the calls it is
    tries,      \* tries left; -1 stands for every negative number
    wait,       \* the next rest
    result,     \* what Backoff returned
    failures,   \* history: tries that failed, counted up to Limit
    cancelled   \* main's context

backoffVars == <<stage, policy, tries, wait, result, failures>>

Done(c) == cancelled /\ c \notin Background

\* Mutant: a call goes on with the tries that the one before has left.
BeginResumes(c, p) ==
    /\ stage' = [stage EXCEPT ![c] = "check"]
    /\ policy' = [policy EXCEPT ![c] = p]
    /\ wait' = [wait EXCEPT ![c] = Wait]
    /\ result' = [result EXCEPT ![c] = "none"]
    /\ failures' = [failures EXCEPT ![c] = 0]
    /\ UNCHANGED tries

\* A call begins: the limit is in the caller's arguments.
Begin(c, p) ==
    /\ stage' = [stage EXCEPT ![c] = "check"]
    /\ policy' = [policy EXCEPT ![c] = p]
    /\ tries' = [tries EXCEPT ![c] = IF p = "forever" THEN 0 ELSE Limit]
    /\ wait' = [wait EXCEPT ![c] = Wait]
    /\ result' = [result EXCEPT ![c] = "none"]
    /\ failures' = [failures EXCEPT ![c] = 0]

\* The caller has the result and goes on: the call's variables are gone.
Forget(c) ==
    /\ stage' = [stage EXCEPT ![c] = "idle"]
    /\ policy' = [policy EXCEPT ![c] = "forever"]
    /\ tries' = [tries EXCEPT ![c] = 0]
    /\ wait' = [wait EXCEPT ![c] = Wait]
    /\ result' = [result EXCEPT ![c] = "none"]
    /\ failures' = [failures EXCEPT ![c] = 0]

Return(c, r) ==
    /\ stage' = [stage EXCEPT ![c] = "returned"]
    /\ result' = [result EXCEPT ![c] = r]

\* The top of the loop: ctx.Err().
Check(c) ==
    /\ stage[c] = "check"
    /\ \/ Done(c) /\ Return(c, "cancelled")
       \/ ~Done(c) /\ stage' = [stage EXCEPT ![c] = "call"] /\ UNCHANGED result
    /\ UNCHANGED <<policy, tries, wait, failures, cancelled>>

Succeed(c) ==
    /\ stage[c] = "call" /\ Return(c, "ok")
    /\ UNCHANGED <<policy, tries, wait, failures, cancelled>>

\* isFatalAPIError, which only fetchBlockRaw asks: another try is no use.
FailFatal(c) ==
    /\ stage[c] = "call" /\ policy[c] = "block" /\ Return(c, "fatal")
    /\ UNCHANGED <<policy, tries, wait, failures, cancelled>>

\* Mutant: a limit of 0 is met by the first failure.
FailEarly(c) ==
    /\ stage[c] = "call"
    /\ tries' = [tries EXCEPT ![c] = Max({@ - 1, -1})]
    /\ failures' = [failures EXCEPT ![c] = Min({@ + 1, Limit})]
    /\ \/ tries[c] <= 1 /\ Return(c, "limit")
       \/ tries[c] > 1 /\ stage' = [stage EXCEPT ![c] = "rest"] /\ UNCHANGED result
    /\ UNCHANGED <<policy, wait, cancelled>>

\* Mutant: the try is not counted.
FailUncounted(c) ==
    /\ stage[c] = "call"
    /\ failures' = [failures EXCEPT ![c] = Min({@ + 1, Limit})]
    /\ stage' = [stage EXCEPT ![c] = "rest"]
    /\ UNCHANGED <<policy, tries, wait, result, cancelled>>

\* Any other failure, the attempt's timeout included: tries--, and the end when
\* that is 0, which it never is when it starts there.
Fail(c) ==
    /\ stage[c] = "call"
    /\ tries' = [tries EXCEPT ![c] = Max({@ - 1, -1})]
    /\ failures' = [failures EXCEPT ![c] = Min({@ + 1, Limit})]
    /\ \/ tries[c] = 1 /\ Return(c, "limit")
       \/ tries[c] # 1 /\ stage' = [stage EXCEPT ![c] = "rest"] /\ UNCHANGED result
    /\ UNCHANGED <<policy, wait, cancelled>>

\* Mutant: the rest is doubled without an end.
RestUnbounded(c) ==
    /\ stage[c] = "rest"
    /\ wait' = [wait EXCEPT ![c] = 2 * @]
    /\ stage' = [stage EXCEPT ![c] = "check"]
    /\ UNCHANGED <<policy, tries, result, failures, cancelled>>

\* The rest is over, or the context is: back to the top in both cases.
Rest(c) ==
    /\ stage[c] = "rest"
    /\ wait' = [wait EXCEPT ![c] = Min({2 * @, MaxWait})]
    /\ stage' = [stage EXCEPT ![c] = "check"]
    /\ UNCHANGED <<policy, tries, result, failures, cancelled>>

CallEnds(c)    == Succeed(c) \/ FailFatal(c) \/ Fail(c)
BackoffStep(c) == Check(c) \/ CallEnds(c) \/ Rest(c)

BackoffInit ==
    /\ stage = [c \in Callers |-> "idle"]
    /\ policy = [c \in Callers |-> "forever"]
    /\ tries = [c \in Callers |-> 0] /\ wait = [c \in Callers |-> Wait]
    /\ result = [c \in Callers |-> "none"] /\ failures = [c \in Callers |-> 0]

\* A node's silence does not hold up a call for ever: the attempt has a timeout.
\* BlockRaw is called with the caller's context and not with the attempt's, so that
\* only cancellation is sure to end it, and for a load nothing is.  What the
\* callbacks wait for besides, the cluster's lock, the node's own and room in
\* cState, no context bounds.
CallBounded(c) == policy[c] # "block" \/ Done(c)

-----------------------------------------------------------------------------
(* Properties *)

BackoffTypeOK ==
    /\ stage \in [Callers -> {"idle", "check", "call", "rest", "returned"}]
    /\ policy \in [Callers -> Policies]
    /\ tries \in [Callers -> -1 .. Limit]
    /\ wait \in [Callers -> Wait .. MaxWait]
    /\ result \in [Callers -> {"none", "ok", "cancelled", "fatal", "limit"}]
    /\ failures \in [Callers -> 0 .. Limit]
    /\ cancelled \in BOOLEAN

\* "Ctx got cancelled, exit silently": a call that is tried for ever comes back
\* without success only when main's context is cancelled, a load never for that
\* reason, and a limited one gives up only after Limit failures.
GivesUpForCause ==
    \A c \in Callers :
        /\ result[c] = "cancelled" => Done(c)
        /\ policy[c] = "forever" => result[c] \in {"none", "ok", "cancelled"}
        /\ result[c] = "limit" => failures[c] = Limit

\* What that rests on: tries and failures add up.
TriesAddUp ==
    \A c \in Callers :
        /\ policy[c] = "forever" => tries[c] \in {-1, 0}
        /\ policy[c] # "forever" => tries[c] + failures[c] = Limit
        /\ (policy[c] # "forever" /\ stage[c] # "returned") => tries[c] > 0
=============================================================================
