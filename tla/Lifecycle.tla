------------------------------ MODULE Lifecycle ------------------------------
(***************************************************************************)
(* The process from its start to its end (cmd/algovnode/main.go): the      *)
(* configuration, the HTTP servers, the nodes' main loops with their       *)
(* calls through Backoff, and what stops them: a signal, a server that     *)
(* cannot listen, or a node of another network.  NodeCluster has the       *)
(* nodes' states; here their loops are followed for how they stop.  A      *)
(* panic of a load (Gateway) ends the process from outside all this.       *)
(***************************************************************************)
EXTENDS Backoff

CONSTANTS
    Nodes,        \* the goroutines of mainLoop
    Servers,      \* "algod", which always runs, and "indexer"
    H2C,          \* the servers that speak HTTP/2 without TLS: all, by default
    MaxRequests   \* bound: requests in flight and connections of h2c at a server

ASSUME LifecycleAssumption ==
    /\ Nodes \subseteq Callers \ Background
    /\ "algod" \in Servers /\ H2C \subseteq Servers
    /\ MaxRequests \in Nat

VARIABLES
    main,       \* "config", "run", "stopping", "exited"
    server,     \* "off", "listening", "failed", "closing", "closed"
    inFlight,   \* requests on the connections that each server keeps track of
    hijacked,   \* connections that h2c has taken over, with the requests on them
    stopped,    \* servers whose Shutdown has returned
    grace,      \* the two seconds of Shutdown's context are over
    loop        \* where each node's mainLoop is

mainVars   == <<main, stopped, grace>>
serverVars == <<server, inFlight, hijacked>>
lifeVars   == <<backoffVars, cancelled, mainVars, serverVars, loop>>

Alive == main # "exited"

-----------------------------------------------------------------------------
(* main *)

\* LoadConfig: main returns when the file cannot be read, there is no algod
\* section or no node in it.
LoadConfigFails ==
    /\ main = "config" /\ main' = "exited"
    /\ UNCHANGED <<backoffVars, cancelled, stopped, grace, serverVars, loop>>

\* Everything is started; the indexer's server only if it is enabled.
StartAll ==
    /\ main = "config" /\ main' = "run"
    /\ loop' = [n \in Nodes |-> "top"]
    /\ \E S \in SUBSET Servers :
          /\ "algod" \in S
          /\ server' = [s \in Servers |-> IF s \in S THEN "listening" ELSE "off"]
    /\ UNCHANGED <<backoffVars, cancelled, stopped, grace, inFlight, hijacked>>

\* SIGTERM or SIGINT.
Signal ==
    /\ main \in {"run", "stopping"} /\ ~cancelled
    /\ cancelled' = TRUE
    /\ UNCHANGED <<backoffVars, mainVars, serverVars, loop>>

\* WaitForFatal returns because the context is cancelled.
WaitCancelled ==
    /\ main = "run" /\ cancelled /\ main' = "stopping"
    /\ UNCHANGED <<backoffVars, cancelled, stopped, grace, serverVars, loop>>

\* It receives from fatalErr, which has no buffer, and the sender goes on.
WaitFatal(n) ==
    /\ main = "run" /\ loop[n] = "fatal"
    /\ main' = "stopping" /\ loop' = [loop EXCEPT ![n] = "top"]
    /\ UNCHANGED <<backoffVars, cancelled, stopped, grace, serverVars>>

\* Shutdown closes the listeners at once...
Shutdown(s) ==
    /\ main = "stopping" /\ server[s] = "listening"
    /\ server' = [server EXCEPT ![s] = "closing"]
    /\ UNCHANGED <<backoffVars, cancelled, mainVars, inFlight, hijacked, loop>>

\* Mutant: it waits for the requests, however long.
ShutdownEndsIdle(s) ==
    /\ main = "stopping" /\ server[s] # "listening" /\ s \notin stopped
    /\ inFlight[s] = 0
    /\ stopped' = stopped \cup {s}
    /\ UNCHANGED <<backoffVars, cancelled, main, grace, serverVars, loop>>

\* ...and returns when no request is left that it knows of or the two seconds are
\* over.  It neither waits for the hijacked connections nor closes them.
ShutdownEnds(s) ==
    /\ main = "stopping" /\ server[s] # "listening" /\ s \notin stopped
    /\ inFlight[s] = 0 \/ grace
    /\ stopped' = stopped \cup {s}
    /\ UNCHANGED <<backoffVars, cancelled, main, grace, serverVars, loop>>

GraceExpires ==
    /\ main = "stopping" /\ ~grace /\ grace' = TRUE
    /\ UNCHANGED <<backoffVars, cancelled, main, stopped, serverVars, loop>>

\* Mutant: the wait group counts one server.
ExitEarly ==
    /\ main = "stopping" /\ stopped # {}
    /\ main' = "exited" /\ cancelled' = TRUE
    /\ UNCHANGED <<backoffVars, stopped, grace, serverVars, loop>>

\* wg.Wait() is over, main returns, and its deferred cf() runs.
Exit ==
    /\ main = "stopping" /\ stopped = Servers
    /\ main' = "exited" /\ cancelled' = TRUE
    /\ UNCHANGED <<backoffVars, stopped, grace, serverVars, loop>>

-----------------------------------------------------------------------------
(* The servers *)

\* ListenAndServe cannot listen or fails later: cancel().
ListenFails(s) ==
    /\ Alive /\ server[s] = "listening"
    /\ server' = [server EXCEPT ![s] = "failed"] /\ cancelled' = TRUE
    /\ UNCHANGED <<backoffVars, mainVars, inFlight, hijacked, loop>>

\* It returns ErrServerClosed, and cancel() is called all the same: the requests
\* that Shutdown waits for lose their context.
ServerClosed(s) ==
    /\ Alive /\ server[s] = "closing"
    /\ server' = [server EXCEPT ![s] = "closed"] /\ cancelled' = TRUE
    /\ UNCHANGED <<backoffVars, mainVars, inFlight, hijacked, loop>>

Accepts(s) ==
    Alive /\ server[s] = "listening" /\ inFlight[s] + hijacked[s] < MaxRequests

Request(s) ==
    /\ Accepts(s) /\ inFlight' = [inFlight EXCEPT ![s] = @ + 1]
    /\ UNCHANGED <<backoffVars, cancelled, mainVars, server, hijacked, loop>>

RequestEnds(s) ==
    /\ Alive /\ inFlight[s] > 0
    /\ inFlight' = [inFlight EXCEPT ![s] = @ - 1]
    /\ UNCHANGED <<backoffVars, cancelled, mainVars, server, hijacked, loop>>

\* h2c takes a connection over that speaks HTTP/2 and serves the requests on it,
\* whatever becomes of the server...
Hijack(s) ==
    /\ s \in H2C /\ Accepts(s) /\ hijacked' = [hijacked EXCEPT ![s] = @ + 1]
    /\ UNCHANGED <<backoffVars, cancelled, mainVars, server, inFlight, loop>>

\* ...until the client leaves or is idle for too long.
HijackEnds(s) ==
    /\ Alive /\ hijacked[s] > 0
    /\ hijacked' = [hijacked EXCEPT ![s] = @ - 1]
    /\ UNCHANGED <<backoffVars, cancelled, mainVars, server, inFlight, loop>>

-----------------------------------------------------------------------------
(* The nodes' main loops and the loads *)

Stays == UNCHANGED <<cancelled, mainVars, serverVars>>
Goes(n, p) == loop' = [loop EXCEPT ![n] = p]
Got(n, p, S) == Alive /\ loop[n] = p /\ stage[n] = "returned" /\ result[n] \in S
Bad == {"cancelled", "fatal", "limit"}

\* n asks its node, and goes on at p when Backoff returns.
Calls(n, pol, p) == Begin(n, pol) /\ Goes(n, p)
Moves(n, p) == Forget(n) /\ Goes(n, p)

mainLoop(n) ==
    /\ Alive /\ loop[n] = "top"
    /\ \/ cancelled /\ Goes(n, "ended") /\ UNCHANGED backoffVars
       \/ ~cancelled /\ Calls(n, "forever", "genesis")
    /\ Stays

\* boot: the genesis, block 0 (archival or not) and the status.
boot(n) ==
    /\ \/ Got(n, "genesis", {"ok"}) /\ Calls(n, "block", "first")
       \/ Got(n, "genesis", {"ok"}) /\ Moves(n, "fatal")
       \/ Got(n, "first", {"ok"} \cup Bad) /\ Calls(n, "forever", "status")
       \/ Got(n, "status", {"ok"}) /\ Moves(n, "monitor")
       \/ Got(n, "status", {"ok"} \cup Bad) /\ Moves(n, "top")
       \/ Got(n, "genesis", Bad) /\ Moves(n, "top")
    /\ Stays

\* Monitor: wait for the next round, fetch its block unless another node did.
Monitor(n) ==
    /\ \/ /\ Alive /\ loop[n] = "monitor" /\ cancelled
          /\ Goes(n, "top") /\ UNCHANGED backoffVars
       \/ /\ Alive /\ loop[n] = "monitor" /\ ~cancelled
          /\ Calls(n, "limited", "after")
       \/ Got(n, "after", {"ok"}) /\ Calls(n, "block", "fetch")
       \/ /\ Got(n, "after", {"ok"}) \/ Got(n, "fetch", {"ok"})
          /\ Moves(n, "monitor")
       \/ /\ Got(n, "after", {"ok"} \cup Bad) \/ Got(n, "fetch", Bad)
          /\ Moves(n, "top")
    /\ Stays

\* A load fetches blocks, in a goroutine that nobody waits for.
LoadBlock(c) ==
    /\ Alive /\ main # "config" /\ stage[c] \in {"idle", "returned"}
    /\ Begin(c, "block")
    /\ UNCHANGED loop /\ Stays

Retry(c) == Alive /\ BackoffStep(c) /\ UNCHANGED <<mainVars, serverVars, loop>>

-----------------------------------------------------------------------------
LifecycleInit ==
    /\ BackoffInit /\ cancelled = FALSE
    /\ main = "config" /\ stopped = {} /\ grace = FALSE
    /\ server = [s \in Servers |-> "off"] /\ inFlight = [s \in Servers |-> 0]
    /\ hijacked = [s \in Servers |-> 0]
    /\ loop = [n \in Nodes |-> "ended"]

Main ==
    \/ WaitCancelled \/ (\E n \in Nodes : WaitFatal(n)) \/ GraceExpires \/ Exit
    \/ \E s \in Servers : Shutdown(s) \/ ShutdownEnds(s)

Node(n) == mainLoop(n) \/ boot(n) \/ Monitor(n)

LifecycleNext ==
    \/ LoadConfigFails \/ StartAll \/ Signal \/ Main
    \/ \E s \in Servers : \/ ListenFails(s) \/ ServerClosed(s) \/ Request(s) \/ RequestEnds(s)
                          \/ Hijack(s) \/ HijackEnds(s)
    \/ \E n \in Nodes : Node(n)
    \/ \E c \in Background : LoadBlock(c)
    \/ \E c \in Callers : Retry(c)

LifecycleSpec == LifecycleInit /\ [][LifecycleNext]_lifeVars

\* The runtime runs main and the servers, and timers fire.  Handlers are not
\* trusted to end, nor are the nodes' loops and their calls.
LifecycleFairness ==
    /\ WF_lifeVars(Main) /\ WF_lifeVars(StartAll \/ LoadConfigFails)
    /\ \A s \in Servers : WF_lifeVars(ServerClosed(s))

FairLifecycleSpec == LifecycleSpec /\ LifecycleFairness

-----------------------------------------------------------------------------
(* Properties *)

LifecycleTypeOK ==
    /\ BackoffTypeOK
    /\ main \in {"config", "run", "stopping", "exited"}
    /\ server \in [Servers -> {"off", "listening", "failed", "closing", "closed"}]
    /\ inFlight \in [Servers -> 0 .. MaxRequests]
    /\ hijacked \in [Servers -> 0 .. MaxRequests]
    /\ stopped \subseteq Servers /\ grace \in BOOLEAN
    /\ loop \in [Nodes -> {"top", "genesis", "first", "status", "monitor", "after",
                           "fetch", "fatal", "ended"}]

\* "2 seconds to kill all http servers": main returns with requests in flight that
\* Shutdown knows of only after it has given them the two seconds.  Those over h2c
\* it does not know of, and they may be cut off at once: nothing is said of them.
ExitDrains ==
    main = "exited" => grace \/ \A s \in Servers : inFlight[s] = 0

\* What that rests on: a server that has stopped takes no new request that it keeps
\* track of.
DrainInv ==
    /\ main = "config" =>
          stopped = {} /\ \A s \in Servers : server[s] = "off" /\ inFlight[s] = 0
    /\ \A s \in stopped : server[s] # "listening" /\ (grace \/ inFlight[s] = 0)

LifecycleInv ==
    LifecycleTypeOK /\ TriesAddUp /\ GivesUpForCause /\ DrainInv /\ ExitDrains

\* A signal, a server that does not listen and a node of another network all end
\* the process, whatever the requests, the nodes and the loads are doing, and
\* although the cluster may be stuck.
MainExits ==
    (cancelled \/ \E n \in Nodes : loop[n] = "fatal") ~> ~Alive

\* The loops go on, and so do their calls where a timeout or the context bounds
\* them.  This the runtime grants only as long as the callbacks get what no context
\* bounds, the locks and room in cState, which NodeCluster!SetStateReturns promises
\* until the cluster is stuck: it is a premise, not part of the specification.
NeverStuck ==
    /\ \A n \in Nodes : WF_lifeVars(Node(n))
    /\ \A c \in Callers :
          WF_lifeVars(Retry(c) /\ (stage[c] # "call" \/ CallBounded(c)))

\* A node that does not answer any more is given up: if the cluster does not get
\* stuck, a limited call comes back.
RetriesEnd ==
    NeverStuck =>
        \A n \in Nodes : (policy[n] = "limited") ~> (policy[n] # "limited" \/ ~Alive)
=============================================================================
