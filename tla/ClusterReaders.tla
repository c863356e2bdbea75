--------------------------- MODULE ClusterReaders ---------------------------
(***************************************************************************)
(* The readers of Gateway over the cluster of NodeCluster itself, instead  *)
(* of over NodeLists: requests and loads read the lists without the lock   *)
(* while the nodes boot, fail and sync and the monitor scans and stores.   *)
(*                                                                         *)
(* What the two show together and neither alone: who starts when the lists *)
(* are up to date is turned away only after every node that was in sync    *)
(* all the while was tried.                                                *)
(***************************************************************************)
EXTENDS NodeCluster

CONSTANTS
    Tasks,      \* requests and loads
    ApiTokens   \* cfg.Tokens

VARIABLES
    task,     \* Gateway's kind: "proxy", or a load of a "recent" or "old" round
    at, source, array, nodes, tried, steady, torn, answer, writes, crashed,
    insync    \* history: nodes in sync since a task started in a quiet cluster

\* Nodes are numbers from 1 on, so that 0 may stand for what is no node.
Readers == INSTANCE GatewayProofs WITH
    AuthOn   <- ApiTokens # {},
    Junk     <- 0,
    kind     <- task,
    synced   <- {n \in Nodes : state[n] = "Synced"},
    archival <- {n \in Nodes : ~Catchup[n]},
    phase    <- IF mon = "lock" THEN "idle" ELSE mon,
    found    <- kind

readerVars == <<task, at, source, array, nodes, tried, torn, answer, writes, crashed>>
systemVars == <<vars, readerVars, steady, insync>>

\* Where a task may still find a node: LoadBlockSync looks for an old round in
\* archNodes only.
Listing(w) == IF task[w] = "old" THEN Listed(archNodes)
              ELSE Listed(catchupNodes) \cup Listed(archNodes)

\* Every step of the cluster, until a load ends the process.
ClusterMoves ==
    /\ ~crashed /\ Next /\ UNCHANGED readerVars
    /\ steady' = [w \in Tasks |-> IF source[w] = "none" THEN steady[w]
                                  ELSE steady[w] \cap Listing(w)']
    /\ insync' = [w \in Tasks |-> IF source[w] = "none" THEN insync[w]
                                  ELSE {n \in insync[w] : state'[n] = "Synced"}]

\* A task starts; it may count on the nodes in sync if no change is on its way.
Starts(w, k) ==
    /\ UNCHANGED vars
    /\ Readers!Start(w, k)
    /\ insync' = [insync EXCEPT ![w] =
                    {n \in Nodes : Quiet /\ Kind(n) \in IF k = "old" THEN {"arch"}
                                                       ELSE {"arch", "catchup"}}]

ReaderMoves(w) ==
    /\ UNCHANGED <<vars, insync>>
    /\ Readers!AnswerHere(w) \/ Readers!Serve(w)

SystemInit ==
    /\ Init
    /\ Readers!GatewayInit
    /\ insync = [w \in Tasks |-> {}]

SystemNext ==
    \/ ClusterMoves
    \/ \E w \in Tasks : \/ \E k \in {"proxy", "recent", "old"} : Starts(w, k)
                        \/ ReaderMoves(w)

SystemSpec == SystemInit /\ [][SystemNext]_systemVars

-----------------------------------------------------------------------------
(* Properties *)

\* Who starts when the lists are up to date can rely on the nodes' states instead
\* of on the lists: a request that is refused or gets a node's error, and a load
\* that is given up, has tried every node that could serve it and was in sync
\* until the lists were read, although the monitor may have scanned the nodes and
\* replaced both lists, for other nodes' sake, in the meantime.
InSyncTried ==
    \A w \in Tasks :
        (answer[w] \in {"gaveup", "upstream"} /\ ~torn[w]) => insync[w] \subseteq tried[w]

\* What this rests on: a node that stays in sync keeps its kind, stays in its
\* list, and is found as what it is by every scan that has passed it.
Kept(n) ==
    /\ Kind(n) \in {"arch", "catchup"}
    /\ n \in Listed(IF Kind(n) = "arch" THEN archNodes ELSE catchupNodes)
    /\ ClusterLocked /\ n < next => kind[n] = Kind(n)

InSyncInv ==
    \A w \in Tasks : source[w] # "none" =>
        \A n \in insync[w] : Kept(n) /\ (task[w] = "old" => Kind(n) = "arch")

\* Gateway's history: what was listed all along is listed now, and holds what was
\* in sync all along.
SteadyListed ==
    \A w \in Tasks :
        /\ insync[w] \subseteq steady[w]
        /\ source[w] # "none" => steady[w] \subseteq Listing(w)

ReaderTypes ==
    /\ task \in [Tasks -> {"proxy", "recent", "old"}]
    /\ source \in [Tasks -> {"none", "catchup", "arch"}]
    /\ steady \in [Tasks -> SUBSET Nodes] /\ insync \in [Tasks -> SUBSET Nodes]

SystemInv == ClusterInv /\ ReaderTypes /\ InSyncInv /\ SteadyListed
=============================================================================
