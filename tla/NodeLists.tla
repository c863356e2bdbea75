------------------------------ MODULE NodeLists ------------------------------
(***************************************************************************)
(* What the cluster promises to those who read its lists of synced nodes   *)
(* without the lock (internal/algod/cluster.go, updateNodeLists): the      *)
(* lists come from a scan of the nodes one after the other, archNodes is   *)
(* replaced before catchupNodes, and a node that was once archival stays   *)
(* archival.  NodeCluster implements this specification, and Gateway is    *)
(* built on it.                                                            *)
(***************************************************************************)
EXTENDS Integers, FiniteSets, Sequences, Functions

CONSTANT Nodes

VARIABLES
    synced,                   \* nodes in state AnsSynced
    archival,                 \* nodes with Catchup = false
    phase,                    \* updateNodeLists: "idle", "scan", "store"
    found,                    \* what its scan found, node by node
    catchupNodes, archNodes

nodeFlags == <<synced, archival>>
lists     == <<catchupNodes, archNodes>>
listsVars == <<nodeFlags, phase, found, lists>>

\* The list a node belongs to.
KindOf(n) == IF n \notin synced THEN "none"
             ELSE IF n \in archival THEN "arch" ELSE "catchup"

NothingFound == [n \in Nodes |-> "none"]
FoundAs(k)   == {n \in Nodes : found[n] = k}

\* The lists that hold exactly the nodes of S: any order, as response times vary.
ListsOf(S) == {list \in [1 .. Cardinality(S) -> S] : Range(list) = S}

-----------------------------------------------------------------------------
ListsInit ==
    /\ synced = {} /\ archival = {}
    /\ phase = "idle" /\ found = NothingFound
    /\ catchupNodes = <<>> /\ archNodes = <<>>

\* setState: a node gets in sync or out of it.
Sync(n)   == n \notin synced /\ synced' = synced \cup {n} /\ UNCHANGED archival
Unsync(n) == n \in synced /\ synced' = synced \ {n} /\ UNCHANGED archival

\* boot finds block 0 on the node, before the node is synced.
TurnArchival(n) ==
    /\ n \notin synced
    /\ archival' = archival \cup {n}
    /\ UNCHANGED synced

NodeChanges(n) ==
    /\ Sync(n) \/ Unsync(n) \/ TurnArchival(n)
    /\ UNCHANGED <<phase, found, lists>>

StartScan ==
    /\ phase = "idle"
    /\ phase' = "scan" /\ found' = NothingFound
    /\ UNCHANGED <<nodeFlags, lists>>

ScanNode(n) ==
    /\ phase = "scan"
    /\ found' = [found EXCEPT ![n] = KindOf(n)]
    /\ UNCHANGED <<nodeFlags, phase, lists>>

StoreArch ==
    /\ phase = "scan"
    /\ archNodes' \in ListsOf(FoundAs("arch"))
    /\ phase' = "store"
    /\ UNCHANGED <<nodeFlags, found, catchupNodes>>

StoreCatchup ==
    /\ phase = "store"
    /\ catchupNodes' \in ListsOf(FoundAs("catchup"))
    /\ phase' = "idle" /\ found' = NothingFound
    /\ UNCHANGED <<nodeFlags, archNodes>>

ListsNext ==
    \/ \E n \in Nodes : NodeChanges(n) \/ ScanNode(n)
    \/ StartScan \/ StoreArch \/ StoreCatchup

ListsSpec == ListsInit /\ [][ListsNext]_listsVars

\* The types, with the lists as sequences without gaps.
ListsTypeOK ==
    /\ synced \subseteq Nodes /\ archival \subseteq Nodes
    /\ phase \in {"idle", "scan", "store"}
    /\ found \in [Nodes -> {"none", "arch", "catchup"}]
    /\ catchupNodes \in Seq(Nodes) /\ archNodes \in Seq(Nodes)

\* A node that was found to be archival is never found to be anything less.
ArchInv ==
    /\ \A n \in Nodes : found[n] = "arch" => n \in archival
    /\ \A i \in DOMAIN archNodes :
          archNodes[i] \in archival /\ found[archNodes[i]] # "catchup"
=============================================================================
