----------------------------- MODULE NodeCluster -----------------------------
(***************************************************************************)
(* The upstream nodes and the cluster (internal/algod): each node boots,   *)
(* checks its genesis, finds out whether it is archival and follows the    *)
(* chain; every change of its state is announced on the channel cState,    *)
(* and stateChangeMonitor rebuilds the lists of synced nodes.              *)
(*                                                                         *)
(* setState sends on cState with the node's lock held, and updateNodeLists *)
(* takes every node's lock with the cluster's lock held: both locks are    *)
(* modelled.  Rounds are not: which way a round comparison goes is a free  *)
(* choice here (StatusWait and UnifiedCache model the rounds).             *)
(***************************************************************************)
EXTENDS Integers, FiniteSets

CONSTANTS
    NodeCount,   \* cfg.Algod.Nodes: nodes are numbered in that order
    Genesis,     \* what the nodes' genesis call may return
    CStateSize,  \* capacity of cState (100)
    Unmeasured,  \* from here on rttEwma counts as never measured (100_000 ms)
    Samples      \* measured response times

Nodes   == 1 .. NodeCount
NoGen   == "none"   \* the empty string genesis starts with
ANState == {"Config", "Booting", "Syncing", "Synced", "Failing", "Failed"}

ASSUME ClusterAssumption ==
    /\ NodeCount \in Nat
    /\ NoGen \notin Genesis
    /\ CStateSize \in Nat
    /\ Unmeasured \in Nat
    /\ Samples \subseteq 0 .. Unmeasured

VARIABLES
    pc,                       \* where each node's mainLoop is
    state, Catchup, rttEwma,  \* Node
    reported,                 \* history: the last genesis a node reported
    sending,                  \* nodes in setState's StateUpdate: lock held
    genesis,                  \* NodeCluster.genesis
    running,                  \* main is still in WaitForFatal
    cState,                   \* messages in the channel
    mon, next, kind, sorted,  \* updateNodeLists: next node, what was found
    catchupNodes, archNodes   \* the lists of synced nodes

nodeVars  == <<pc, state, Catchup, rttEwma, reported, sending>>
mainVars  == <<genesis, running>>
monVars   == <<mon, next, kind, sorted>>
listVars  == <<catchupNodes, archNodes>>
vars == <<nodeVars, mainVars, cState, monVars, listVars>>

\* updateNodeLists holds the cluster's lock from its first node to its end.
ClusterLocked == mon \in {"scan", "store"}

-----------------------------------------------------------------------------
(* The node's mainLoop.  No step is taken while the goroutine is blocked in
   the send of setState. *)

Runs(n, p)  == pc[n] = p /\ n \notin sending
Goes(n, p)  == pc' = [pc EXCEPT ![n] = p]

\* Mutant: the state changes and nobody is told.
setStateSilent(n, s) ==
    /\ state' = [state EXCEPT ![n] = s]
    /\ UNCHANGED sending

\* setState: nothing when the state is the same; else StateUpdate follows.
setState(n, s) ==
    /\ state' = [state EXCEPT ![n] = s]
    /\ sending' = IF state[n] = s THEN sending ELSE sending \cup {n}

\* A measurement replaces a value above 99_999 ms, as the initial one is, and is
\* averaged with any other.  Unmeasured stands for all values above.
updateRTT(n) ==
    \E us \in Samples :
        rttEwma' = [rttEwma EXCEPT ![n] = IF @ = Unmeasured THEN us
                                          ELSE (9 * @ + us) \div 10]

boot(n) ==
    /\ Runs(n, "boot")
    /\ setState(n, "Booting")
    /\ Goes(n, "genesis")
    /\ UNCHANGED <<Catchup, rttEwma, reported, mainVars, cState, monVars, listVars>>

\* Mutant: any genesis will do.
EnsureGenesisAny(n, g) ==
    /\ Runs(n, "genesis") /\ ~ClusterLocked
    /\ reported' = [reported EXCEPT ![n] = g]
    /\ genesis' = g
    /\ Goes(n, "archive")
    /\ UNCHANGED <<state, Catchup, rttEwma, sending, running, cState, monVars, listVars>>

\* GetGenesis is retried until it succeeds; then EnsureGenesis, under the
\* cluster's lock: the first node decides.
EnsureGenesis(n, g) ==
    /\ Runs(n, "genesis") /\ ~ClusterLocked
    /\ reported' = [reported EXCEPT ![n] = g]
    /\ genesis' = IF genesis = NoGen THEN g ELSE genesis
    /\ Goes(n, IF genesis \in {NoGen, g} THEN "archive" ELSE "fatal")
    /\ UNCHANGED <<state, Catchup, rttEwma, sending, running, cState, monVars, listVars>>

\* fatalErr is unbuffered, and only WaitForFatal receives, once.
WaitForFatal(n) ==
    /\ Runs(n, "fatal") /\ running
    /\ running' = FALSE
    /\ Goes(n, "boot")
    /\ UNCHANGED <<state, Catchup, rttEwma, reported, sending, genesis, cState,
                   monVars, listVars>>

\* fetchBlockRaw(0) finds out whether the node is archival: once it is, it
\* stays so.  BlockSink takes the cluster's lock.
fetchFirst(n) ==
    /\ Runs(n, "archive")
    /\ \/ /\ ~ClusterLocked
          /\ Catchup' = [Catchup EXCEPT ![n] = FALSE]
          /\ updateRTT(n)
       \/ /\ UNCHANGED Catchup
          /\ updateRTT(n) \/ UNCHANGED rttEwma
    /\ Goes(n, "status")
    /\ UNCHANGED <<state, reported, sending, mainVars, cState, monVars, listVars>>

\* updateStatus fails and is retried for ever.
statusFails(n) ==
    /\ Runs(n, "status")
    /\ setState(n, "Failing")
    /\ UNCHANGED <<pc, Catchup, rttEwma, reported, mainVars, cState, monVars, listVars>>

\* updateStatus succeeds; updateWithStatus sends an unsupported node back.
statusArrives(n) ==
    /\ Runs(n, "status")
    /\ updateRTT(n)
    /\ \/ setState(n, "Failed") /\ Goes(n, "boot")
       \/ \E s \in {"Syncing", "Synced"} : setState(n, s) /\ Goes(n, "monitor")
    /\ UNCHANGED <<Catchup, reported, mainVars, cState, monVars, listVars>>

\* Mutant: the round is read without the lock.
passClusterUnlocked(n) ==
    /\ \/ Runs(n, "monitor") /\ Goes(n, "await")
       \/ Runs(n, "latest") /\ \E p \in {"fetch", "monitor"} : Goes(n, p)
    /\ UNCHANGED <<state, Catchup, rttEwma, reported, sending, mainVars, cState,
                   monVars, listVars>>

\* GetLatestRound at the start of updateStatusAfter (after a boot SetLatestRound
\* comes right before it and is the same step) and before the next block, which
\* is skipped if another node had it: critical sections of the cluster's lock.
passClusterLock(n) ==
    /\ ~ClusterLocked
    /\ \/ Runs(n, "monitor") /\ Goes(n, "await")
       \/ Runs(n, "latest") /\ \E p \in {"fetch", "monitor"} : Goes(n, p)
    /\ UNCHANGED <<state, Catchup, rttEwma, reported, sending, mainVars, cState,
                   monVars, listVars>>

\* StatusAfterBlock fails: again, or a reboot after the tenth time.
statusAfterFails(n) ==
    /\ Runs(n, "await")
    /\ setState(n, "Failing")
    /\ \E p \in {"monitor", "boot"} : Goes(n, p)
    /\ UNCHANGED <<Catchup, rttEwma, reported, mainVars, cState, monVars, listVars>>

\* It succeeds: a reboot when the node is unsupported or the round was 0.
statusAfterArrives(n) ==
    /\ Runs(n, "await")
    /\ \/ setState(n, "Failed") /\ Goes(n, "boot")
       \/ setState(n, "Syncing") /\ \E p \in {"monitor", "boot"} : Goes(n, p)
       \/ setState(n, "Synced") /\ \E p \in {"latest", "boot"} : Goes(n, p)
    /\ UNCHANGED <<Catchup, rttEwma, reported, mainVars, cState, monVars, listVars>>

\* The next block is fetched, and BlockSink takes the cluster's lock; or it is
\* not, and the node reboots.
fetchNext(n) ==
    /\ Runs(n, "fetch")
    /\ \/ ~ClusterLocked /\ updateRTT(n) /\ Goes(n, "monitor")
       \/ (updateRTT(n) \/ UNCHANGED rttEwma) /\ Goes(n, "boot")
    /\ UNCHANGED <<state, Catchup, reported, sending, mainVars, cState, monVars, listVars>>

\* StateUpdate: blocked while the channel is full, with the node locked.
StateUpdate(n) ==
    /\ n \in sending /\ cState < CStateSize
    /\ cState' = cState + 1
    /\ sending' = sending \ {n}
    /\ UNCHANGED <<pc, state, Catchup, rttEwma, reported, mainVars, monVars, listVars>>

-----------------------------------------------------------------------------
(* The cluster *)

Listed(list) == {list[i] : i \in DOMAIN list}

\* LoadBlockSync fetches from a listed node in a goroutine of its own.
loadMeasures(n) ==
    /\ n \in Listed(catchupNodes) \cup Listed(archNodes)
    /\ n \notin sending
    /\ updateRTT(n)
    /\ UNCHANGED <<pc, state, Catchup, reported, sending, mainVars, cState,
                   monVars, listVars>>

\* The lists of exactly the nodes of S, and the one that sort.SliceStable by
\* rttEwma makes of a list in configuration order.
Orders(S) == {list \in [1 .. Cardinality(S) -> S] : Listed(list) = S}
ByRTT(S) ==
    {list \in Orders(S) :
        \A i, j \in DOMAIN list : i < j =>
            \/ rttEwma[list[i]] < rttEwma[list[j]]
            \/ rttEwma[list[i]] = rttEwma[list[j]] /\ list[i] < list[j]}

\* stateChangeMonitor: <-cState, then updateNodeLists takes the lock.
stateChange ==
    /\ mon = "idle" /\ cState > 0
    /\ cState' = cState - 1
    /\ mon' = "lock"
    /\ UNCHANGED <<nodeVars, mainVars, next, kind, sorted, listVars>>

lockCluster ==
    /\ mon = "lock"
    /\ mon' = "scan"
    /\ next' = 1
    /\ kind' = [n \in Nodes |-> "none"]
    /\ UNCHANGED <<nodeVars, mainVars, cState, sorted, listVars>>

\* Which list a node belongs to.
Kind(n) == IF state[n] # "Synced" THEN "none"
           ELSE IF Catchup[n] THEN "catchup" ELSE "arch"

\* Mutant: Synced() looks at the state without the node's lock.
scanNodeUnlocked ==
    /\ mon = "scan" /\ next \in Nodes
    /\ kind' = [kind EXCEPT ![next] = Kind(next)]
    /\ next' = next + 1
    /\ UNCHANGED <<nodeVars, mainVars, cState, mon, sorted, listVars>>

\* Synced() waits for the node's lock.  Catchup is read without it, but cannot
\* change meanwhile: a reboot does not get past EnsureGenesis.
scanNode ==
    /\ mon = "scan" /\ next \in Nodes \ sending
    /\ kind' = [kind EXCEPT ![next] = Kind(next)]
    /\ next' = next + 1
    /\ UNCHANGED <<nodeVars, mainVars, cState, mon, sorted, listVars>>

\* Both lists are sorted; then archNodes is stored, and catchupNodes after it:
\* who reads the lists has no lock.
storeArch ==
    /\ mon = "scan" /\ next > NodeCount
    /\ sorted' \in ByRTT({n \in Nodes : kind[n] = "catchup"})
    /\ archNodes' \in ByRTT({n \in Nodes : kind[n] = "arch"})
    /\ mon' = "store"
    /\ UNCHANGED <<nodeVars, mainVars, cState, next, kind, catchupNodes>>

\* Mutant: the monitor rebuilds the lists once.
updateNodeListsOnce ==
    /\ mon = "store"
    /\ catchupNodes' = sorted /\ sorted' = <<>>
    /\ mon' = "gone"
    /\ next' = 1 /\ kind' = [n \in Nodes |-> "none"]
    /\ UNCHANGED <<nodeVars, mainVars, cState, archNodes>>

\* Mutant: archNodes is stored again, with the nodes of catchupNodes.
updateNodeListsMixed ==
    /\ mon = "store"
    /\ archNodes' = sorted /\ sorted' = <<>>
    /\ mon' = "idle"
    /\ next' = 1 /\ kind' = [n \in Nodes |-> "none"]
    /\ UNCHANGED <<nodeVars, mainVars, cState, catchupNodes>>

\* Mutant: the list is made with its length and then appended to.
updateNodeListsPadded ==
    /\ mon = "store"
    /\ catchupNodes' = [i \in 1 .. 2 * Cardinality(DOMAIN sorted) |->
                           IF i \in DOMAIN sorted THEN 0
                           ELSE sorted[i - Cardinality(DOMAIN sorted)]]
    /\ sorted' = <<>>
    /\ mon' = "idle"
    /\ next' = 1 /\ kind' = [n \in Nodes |-> "none"]
    /\ UNCHANGED <<nodeVars, mainVars, cState, archNodes>>

\* The second list is stored, and the locals of the scan are gone.
updateNodeLists ==
    /\ mon = "store"
    /\ catchupNodes' = sorted /\ sorted' = <<>>
    /\ mon' = "idle"
    /\ next' = 1 /\ kind' = [n \in Nodes |-> "none"]
    /\ UNCHANGED <<nodeVars, mainVars, cState, archNodes>>

-----------------------------------------------------------------------------
Init ==
    /\ pc = [n \in Nodes |-> "boot"]
    /\ state = [n \in Nodes |-> "Config"]
    /\ Catchup = [n \in Nodes |-> TRUE]
    /\ rttEwma = [n \in Nodes |-> Unmeasured]
    /\ reported = [n \in Nodes |-> NoGen]
    /\ sending = {}
    /\ genesis = NoGen
    /\ running = TRUE
    /\ cState = 0
    /\ mon = "idle" /\ next = 1
    /\ kind = [n \in Nodes |-> "none"] /\ sorted = <<>>
    /\ catchupNodes = <<>> /\ archNodes = <<>>

MainLoop(n) ==
    \/ boot(n) \/ (\E g \in Genesis : EnsureGenesis(n, g)) \/ WaitForFatal(n)
    \/ fetchFirst(n) \/ statusFails(n) \/ statusArrives(n) \/ passClusterLock(n)
    \/ statusAfterFails(n) \/ statusAfterArrives(n) \/ fetchNext(n)

StateChangeMonitor ==
    stateChange \/ lockCluster \/ scanNode \/ storeArch \/ updateNodeLists

Next ==
    \/ \E n \in Nodes : MainLoop(n) \/ StateUpdate(n) \/ loadMeasures(n)
    \/ StateChangeMonitor

Spec == Init /\ [][Next]_vars

\* The runtime runs the monitor's goroutine, and a channel serves the senders
\* that wait for it in their order.
Fairness ==
    /\ WF_vars(StateChangeMonitor)
    /\ \A n \in Nodes : SF_vars(StateUpdate(n))

FairSpec == Spec /\ Fairness

-----------------------------------------------------------------------------
(* Properties *)

PCs == {"boot", "genesis", "fatal", "archive", "status", "monitor", "await",
        "latest", "fetch"}

TypeOK ==
    /\ pc \in [Nodes -> PCs]
    /\ state \in [Nodes -> ANState]
    /\ Catchup \in [Nodes -> BOOLEAN]
    /\ rttEwma \in [Nodes -> 0 .. Unmeasured]
    /\ reported \in [Nodes -> Genesis \cup {NoGen}]
    /\ sending \subseteq Nodes
    /\ genesis \in Genesis \cup {NoGen}
    /\ running \in BOOLEAN
    /\ cState \in 0 .. CStateSize
    /\ mon \in {"idle", "lock", "scan", "store"}
    /\ next \in 1 .. NodeCount + 1
    /\ kind \in [Nodes -> {"none", "catchup", "arch"}]
    /\ Listed(sorted) \subseteq Nodes
    /\ Listed(catchupNodes) \subseteq Nodes
    /\ Listed(archNodes) \subseteq Nodes

\* The monitor has taken in every change that was announced.
TakenIn == cState = 0 /\ mon = "idle"

\* Nor is one being announced.
Quiet == sending = {} /\ TakenIn

\* The lists end up right: once the monitor has taken in what was announced,
\* every node that is not announcing another change is in exactly the list it
\* belongs to, although nodes change state while updateNodeLists looks at them
\* one by one.
ListsFresh ==
    TakenIn => \A n \in Nodes \ sending :
                  /\ n \in Listed(catchupNodes) <=> Kind(n) = "catchup"
                  /\ n \in Listed(archNodes) <=> Kind(n) = "arch"

\* What EnsureGenesis is good for: a node that is offered for requests reported
\* the cluster's genesis when it last booted, or has left the synced nodes since
\* and the monitor is still to be told or to rebuild its list.  Only a boot asks
\* for the genesis: a backend that is swapped under a node that stays in sync is
\* not noticed ("TODO - detect node swap").
ListedShareGenesis ==
    \A n \in Listed(catchupNodes) \cup Listed(archNodes) :
        \/ reported[n] = genesis
        \/ state[n] # "Synced" /\ (n \in sending \/ ~TakenIn)

\* What the two rest on: the nodes the scan has passed are as it found them
\* unless a change is on its way, what is stored is what it found, and a node
\* that was announced as synced has the cluster's genesis.
ScanInv ==
    (ClusterLocked /\ cState = 0)
        => \A n \in Nodes \ sending : n < next => kind[n] = Kind(n)

StoreInv ==
    mon = "store" => /\ next > NodeCount
                     /\ sorted \in Orders({n \in Nodes : kind[n] = "catchup"})
                     /\ Listed(archNodes) = {n \in Nodes : kind[n] = "arch"}

BootInv ==
    \A n \in Nodes :
        /\ pc[n] \in {"genesis", "fatal", "archive"} => state[n] = "Booting"
        /\ pc[n] \notin {"boot", "genesis", "fatal"}
              => reported[n] = genesis /\ genesis # NoGen
        /\ state[n] = "Synced" => reported[n] = genesis /\ genesis # NoGen
        /\ reported[n] # NoGen => genesis # NoGen

\* A node that is announcing a change has not come far since.
SendInv ==
    \A n \in sending :
        pc[n] # "archive" /\ (pc[n] = "status" => state[n] = "Failing")

ClusterInv == TypeOK /\ ScanInv /\ StoreInv /\ BootInv /\ ListsFresh /\ SendInv

\* The cluster keeps what the readers of its lists rely on: the lists come from
\* a scan, archNodes is stored first, and no node turns from archival back.
Promise == INSTANCE NodeLists WITH
    synced   <- {n \in Nodes : state[n] = "Synced"},
    archival <- {n \in Nodes : ~Catchup[n]},
    phase    <- IF mon = "lock" THEN "idle" ELSE mon,
    found    <- kind

ImplementsLists == Promise!ListsSpec

\* The monitor waits for a node that waits for the monitor: the channel is full
\* and the node it has to look at next is blocked in setState.
Stuck == mon = "scan" /\ cState = CStateSize /\ next \in sending

\* Nothing resolves that: the lists stay as they are from then on.
StuckStays == [][Stuck => Stuck' /\ UNCHANGED listVars]_vars

\* The changes that a node can still announce before it needs the cluster's lock:
\* the one it is announcing, and those on the longest way from where it is.
Pending(n) ==
    (IF n \in sending THEN 1 ELSE 0)
    + CASE pc[n] = "archive" -> 3
        [] pc[n] = "status"  -> IF state[n] = "Failing" THEN 2 ELSE 3
        [] pc[n] = "await"   -> 2
        [] pc[n] = "fetch"   -> 1
        [] pc[n] = "boot"    -> IF state[n] = "Booting" THEN 0 ELSE 1
        [] OTHER             -> 0

\* While updateNodeLists looks at the nodes they fill the channel that it has to
\* empty, but not without end: from when it takes the cluster's lock to when it
\* gives it up a node announces three changes at most, and then waits for the
\* lock itself.  So the circular wait needs a channel that held more than
\* CStateSize - 3 * NodeCount messages already when the lock was taken.
ScanBounded ==
    [][ClusterLocked' => \A n \in Nodes :
          Pending(n)' + (IF n \in sending \ sending' THEN 1 ELSE 0)
             <= IF ClusterLocked THEN Pending(n) ELSE 3]_vars

\* Short of that every setState returns.
SetStateReturns ==
    \A n \in Nodes : (n \in sending) ~> (n \notin sending \/ Stuck)

\* "returns list of synced nodes ordered by status response time": so the lists
\* are when no change is on its way.
ListsOrderedByRTT ==
    Quiet => \A i, j \in DOMAIN catchupNodes :
                i < j => rttEwma[catchupNodes[i]] <= rttEwma[catchupNodes[j]]
==============================================================================
