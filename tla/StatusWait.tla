----------------------------- MODULE StatusWait -----------------------------
(***************************************************************************)
(* wait-for-block-after: the nodes' goroutines move the cluster's latest   *)
(* round and submit their status to a broadcaster, and the handlers'       *)
(* goroutines wait in WaitForStatusAfter until a status is late enough.    *)
(*                                                                         *)
(* The broadcaster is github.com/dustin/go-broadcast: one goroutine that   *)
(* serves an input channel of capacity 1 and two unbuffered channels for   *)
(* Register and Unregister.  It sends a status to the registered channels  *)
(* one after the other, in any order, and they are unbuffered too: while   *)
(* it waits for a receiver it serves nobody else.                          *)
(***************************************************************************)
EXTENDS Integers, Sequences

CONSTANTS
    Waiters,    \* WaitForStatusAfter calls of the handlers
    Listener,   \* the cluster's own broadcastListener
    Nodes,      \* upstream nodes
    MaxRound    \* bound: rounds are 0 .. MaxRound

Rounds    == 0 .. MaxRound
Receivers == Waiters \cup {Listener}
Nil       == -1       \* a nil *NodeStatus; otherwise a status is its LastRound
Nobody    == "nobody"

ASSUME StatusAssumption ==
    /\ MaxRound \in Nat
    /\ Listener \notin Waiters
    /\ Nobody \notin Nodes /\ Nobody \notin Receivers

VARIABLES
    latestRound, lastSrc,  \* NodeCluster: under the cluster's lock
    lastStatus,            \* Node.lastStatus
    lr,                    \* per node: the round its monitor waits after, or Nil
    reached,               \* per node: the round it is about to set, or Nil
    input,                 \* the broadcaster's input channel
    outputs,               \* the broadcaster's registered channels
    msg, left, to,         \* what it is sending, to whom still, to whom now
    pc, after,             \* where each receiver is, and the round it is after
    expired,               \* waiters whose context is done
    result                 \* what WaitForStatusAfter returns

clusterVars == <<latestRound, lastSrc, lastStatus, lr, reached>>
busVars     == <<input, outputs, msg, left, to>>
waitVars    == <<pc, after, expired, result>>
vars == <<clusterVars, busVars, waitVars>>

-----------------------------------------------------------------------------
(* The nodes *)

\* Mutant: the status a node boots with is not stored.
BootStatusUnstored(n, r) ==
    /\ lr[n] = Nil /\ reached[n] = Nil
    /\ reached' = [reached EXCEPT ![n] = r]
    /\ UNCHANGED <<latestRound, lastSrc, lastStatus, lr, busVars, waitVars>>

\* boot: updateStatus stores whatever status the node reports, also an earlier
\* one than before, and then tells the cluster.
BootStatus(n, r) ==
    /\ lr[n] = Nil /\ reached[n] = Nil
    /\ lastStatus' = [lastStatus EXCEPT ![n] = r]
    /\ reached' = [reached EXCEPT ![n] = r]
    /\ UNCHANGED <<latestRound, lastSrc, lr, busVars, waitVars>>

\* Mutant: the node waits after its own last round and not the cluster's.
MonitorAskOwn(n) ==
    /\ lr[n] = Nil /\ reached[n] = Nil /\ lastStatus[n] # Nil
    /\ latestRound > 0
    /\ lr' = [lr EXCEPT ![n] = lastStatus[n]]
    /\ UNCHANGED <<latestRound, lastSrc, lastStatus, reached, busVars, waitVars>>

\* Monitor, once booted: StatusAfterBlock(lr) of the cluster's latest round (0
\* reboots the node).
MonitorAsk(n) ==
    /\ lr[n] = Nil /\ reached[n] = Nil /\ lastStatus[n] # Nil
    /\ latestRound > 0
    /\ lr' = [lr EXCEPT ![n] = latestRound]
    /\ UNCHANGED <<latestRound, lastSrc, lastStatus, reached, busVars, waitVars>>

\* Block lr + 1 is fetched unless another node was faster; a node that is not
\* synced does not try, one that fails reboots.
Fetch(n) ==
    \/ /\ latestRound = lr[n] /\ lr[n] < MaxRound
       /\ reached' = [reached EXCEPT ![n] = lr[n] + 1]
    \/ UNCHANGED reached

\* Mutant: the answer is stored whatever its round, as when the wait timed out.
MonitorStatusAny(n, r) ==
    /\ lr[n] # Nil
    /\ lastStatus' = [lastStatus EXCEPT ![n] = r]
    /\ Fetch(n)
    /\ lr' = [lr EXCEPT ![n] = Nil]
    /\ UNCHANGED <<latestRound, lastSrc, busVars, waitVars>>

\* Mutant: the status that came with the new round is not stored.
MonitorStatusUnstored(n, r) ==
    /\ lr[n] # Nil /\ r > lr[n]
    /\ Fetch(n)
    /\ lr' = [lr EXCEPT ![n] = Nil]
    /\ UNCHANGED <<latestRound, lastSrc, lastStatus, busVars, waitVars>>

\* The node answers with a status after lr.
MonitorStatus(n, r) ==
    /\ lr[n] # Nil /\ r > lr[n]
    /\ lastStatus' = [lastStatus EXCEPT ![n] = r]
    /\ Fetch(n)
    /\ lr' = [lr EXCEPT ![n] = Nil]
    /\ UNCHANGED <<latestRound, lastSrc, busVars, waitVars>>

\* It does not, ten times: the node reboots.
MonitorFailed(n) ==
    /\ lr[n] # Nil
    /\ lr' = [lr EXCEPT ![n] = Nil]
    /\ UNCHANGED <<latestRound, lastSrc, lastStatus, reached, busVars, waitVars>>

\* SetLatestRound; TrySubmit drops the status when the input channel is full.
SetLatestRound(n) ==
    /\ reached[n] # Nil
    /\ reached' = [reached EXCEPT ![n] = Nil]
    /\ \/ /\ reached[n] > latestRound
          /\ latestRound' = reached[n]
          /\ lastSrc' = n
          /\ input' = IF input = <<>> THEN <<lastStatus[n]>> ELSE input
       \/ /\ reached[n] <= latestRound
          /\ UNCHANGED <<latestRound, lastSrc, input>>
    /\ UNCHANGED <<lastStatus, lr, outputs, msg, left, to, waitVars>>

-----------------------------------------------------------------------------
(* The broadcaster's goroutine *)

Idle == to = Nobody

\* Who is sent the status next: any of those left.
Aim(S) == IF S = {} THEN to' = Nobody ELSE to' \in S

Broadcast ==
    /\ Idle /\ input # <<>>
    /\ msg' = Head(input)
    /\ input' = Tail(input)
    /\ left' = outputs
    /\ Aim(outputs)
    /\ UNCHANGED <<clusterVars, outputs, waitVars>>

Register(w) ==
    /\ Idle /\ pc[w] = "register"
    /\ outputs' = outputs \cup {w}
    /\ pc' = [pc EXCEPT ![w] = "select"]
    /\ UNCHANGED <<clusterVars, input, msg, left, to, after, expired, result>>

\* Mutant: the channel is taken out of the map while the broadcaster uses it.
UnregisterUnserved(w) ==
    /\ pc[w] = "unregister"
    /\ outputs' = outputs \ {w}
    /\ pc' = [pc EXCEPT ![w] = "done"]
    /\ UNCHANGED <<clusterVars, input, msg, left, to, after, expired, result>>

\* The deferred Unregister is the last thing a wait does.
Unregister(w) ==
    /\ Idle /\ pc[w] = "unregister"
    /\ outputs' = outputs \ {w}
    /\ pc' = [pc EXCEPT ![w] = "done"]
    /\ UNCHANGED <<clusterVars, input, msg, left, to, after, expired, result>>

-----------------------------------------------------------------------------
(* WaitForStatusAfter and broadcastListener *)

\* Under the cluster's lock: the round is there already, or the wait begins.
StartWait(w, r) ==
    /\ pc[w] = "idle"
    /\ after' = [after EXCEPT ![w] = r]
    /\ IF lastSrc # Nobody /\ latestRound > r
       THEN /\ pc' = [pc EXCEPT ![w] = "done"]
            /\ result' = [result EXCEPT ![w] = lastStatus[lastSrc]]
       ELSE /\ pc' = [pc EXCEPT ![w] = "register"]
            /\ UNCHANGED result
    /\ UNCHANGED <<clusterVars, busVars, expired>>

\* case status := <-ch; a waiter leaves with a status after its round, the
\* listener goes on for ever.
Receive(w) ==
    /\ to = w /\ pc[w] = "select"
    /\ left' = left \ {w}
    /\ Aim(left')
    /\ IF w # Listener /\ msg > after[w]
       THEN /\ pc' = [pc EXCEPT ![w] = "unregister"]
            /\ result' = [result EXCEPT ![w] = msg]
       ELSE UNCHANGED <<pc, result>>
    /\ UNCHANGED <<clusterVars, input, outputs, msg, after, expired>>

\* Mutant: the select has no ctx.Done() case.
LeaveNever(w) == pc[w] = "none" /\ UNCHANGED vars

\* case <-ctx.Done()
Leave(w) ==
    /\ pc[w] = "select" /\ w \in expired
    /\ pc' = [pc EXCEPT ![w] = "unregister"]
    /\ UNCHANGED <<clusterVars, busVars, after, expired, result>>

\* The ten seconds of the handler's context, or the client going away.
Deadline(w) ==
    /\ pc[w] \notin {"idle", "done"}
    /\ expired' = expired \cup {w}
    /\ UNCHANGED <<clusterVars, busVars, pc, after, result>>

-----------------------------------------------------------------------------
Init ==
    /\ latestRound = 0
    /\ lastSrc = Nobody
    /\ lastStatus = [n \in Nodes |-> Nil]
    /\ lr = [n \in Nodes |-> Nil]
    /\ reached = [n \in Nodes |-> Nil]
    /\ input = <<>>
    /\ outputs = {}
    /\ msg = Nil /\ left = {} /\ to = Nobody
    /\ pc = [w \in Receivers |-> IF w = Listener THEN "register" ELSE "idle"]
    /\ after = [w \in Waiters |-> 0]
    /\ expired = {}
    /\ result = [w \in Waiters |-> Nil]

NodeStep(n) ==
    \/ \E r \in Rounds : BootStatus(n, r) \/ MonitorStatus(n, r)
    \/ MonitorAsk(n) \/ MonitorFailed(n) \/ SetLatestRound(n)

ReceiverStep(w) == Register(w) \/ Receive(w)

WaiterStep(w) == Leave(w) \/ Unregister(w)

Next ==
    \/ \E n \in Nodes : NodeStep(n)
    \/ Broadcast
    \/ \E w \in Receivers : ReceiverStep(w)
    \/ \E w \in Waiters : \/ \E r \in Rounds : StartWait(w, r)
                          \/ WaiterStep(w) \/ Deadline(w)

Spec == Init /\ [][Next]_vars

\* The runtime runs every goroutine that can go on, a select and an unbuffered
\* channel do not starve a side that is always ready, and timers fire.  Nothing
\* is assumed of the nodes.
Fairness ==
    /\ WF_vars(Broadcast)
    /\ \A w \in Receivers : SF_vars(Register(w)) /\ WF_vars(Receive(w))
    /\ \A w \in Waiters : /\ WF_vars(Leave(w)) /\ SF_vars(Unregister(w))
                          /\ WF_vars(Deadline(w))

FairSpec == Spec /\ Fairness

-----------------------------------------------------------------------------
(* Properties *)

TypeOK ==
    /\ latestRound \in Rounds
    /\ lastSrc \in Nodes \cup {Nobody}
    /\ lastStatus \in [Nodes -> Rounds \cup {Nil}]
    /\ lr \in [Nodes -> Rounds \cup {Nil}]
    /\ reached \in [Nodes -> Rounds \cup {Nil}]
    /\ input \in Seq(Rounds \cup {Nil}) /\ Len(input) <= 1
    /\ outputs \subseteq Receivers
    /\ msg \in Rounds \cup {Nil}
    /\ left \subseteq Receivers /\ to \in left \cup {Nobody}
    /\ pc \in [Receivers -> {"idle", "register", "select", "unregister", "done"}]
    /\ after \in [Waiters -> Rounds]
    /\ expired \subseteq Waiters
    /\ result \in [Waiters -> Rounds \cup {Nil}]

\* broadcastListener and WaitForStatusAfter dereference what they receive, and
\* the fast path returns it as an answer: no nil status is ever submitted, and
\* the node that set the latest round has a status.
StatusNeverNil ==
    /\ \A i \in DOMAIN input : input[i] # Nil
    /\ to # Nobody => msg # Nil
    /\ lastSrc # Nobody => lastStatus[lastSrc] # Nil

\* What both of these rest on: the status a node stored last is at least at the
\* round it is about to set, and no later status replaces it before it is set.
ReachedInv ==
    \A n \in Nodes :
        reached[n] # Nil => lr[n] = Nil /\ lastStatus[n] >= reached[n]

\* The node that set the latest round asks for the round after that one.
SourceInv == (lastSrc # Nobody /\ lr[lastSrc] # Nil) => lr[lastSrc] = latestRound

\* All of that together, which is inductive: what StatusAfterBlock is asked for,
\* what the monitor stores and what is submitted fit together in every state.
StatusInv == TypeOK /\ ReachedInv /\ StatusNeverNil /\ SourceInv

\* The fast path answers with the status of the node that set the latest round,
\* long after it did.  While others set rounds and the node's own monitor goes
\* on, that status stays at the latest round or after it; it falls behind, and
\* AnswerIsAfter fails, only when that very node boots again.
StaleOnlyByReboot ==
    [][( /\ lastSrc # Nobody /\ lastStatus[lastSrc] >= latestRound
         /\ ~ \E n \in Nodes, r \in Rounds : n = lastSrc /\ BootStatus(n, r))
          => lastStatus'[lastSrc'] >= latestRound']_vars

\* A submitted status is at least at the round that caused it, so it wakes the
\* waiters for every earlier round.
AnnouncesRound ==
    [][(latestRound' > latestRound /\ input' # input)
          => input'[1] >= latestRound']_vars

\* The broadcaster waits for a receiver that waits for the broadcaster.
Wedged == \E w \in Waiters : to = w /\ pc[w] = "unregister"

\* Nothing resolves that: no step of a node, of another waiter or of a timer gets
\* the broadcaster on, and nobody is registered, unregistered or told of a round
\* from then on.
WedgedStays == [][Wedged => Wedged' /\ UNCHANGED <<outputs, msg, left, to>>]_vars

\* Short of that every wait returns: the context ends it, or a status does.
ReturnsUnlessWedged ==
    \A w \in Waiters : (pc[w] = "register") ~> (pc[w] = "done" \/ Wedged)

\* "waitHandler waits for round after", for ten seconds at most: every wait
\* returns.
EveryWaitReturns ==
    \A w \in Waiters : (pc[w] = "register") ~> (pc[w] = "done")

\* "waitHandler waits for round after": the status it answers with is after the
\* round that was asked for.
AnswerIsAfter ==
    \A w \in Waiters : result[w] # Nil => result[w] > after[w]
=============================================================================
