------------------------ MODULE ClusterReadersProofs ------------------------
(***************************************************************************)
(* Proofs about ClusterReaders, for any number of nodes, requests and      *)
(* loads and any capacity of cState: the composition implements Gateway,   *)
(* so that Gateway's theorems hold of the readers of the real cluster, and *)
(* a node that stays in sync is not missed by them.                        *)
(***************************************************************************)
EXTENDS ClusterReaders, NodeClusterProofs, FiniteSetTheorems

\* What Gateway assumes of its constants holds here.
LEMMA ReadersAssumption == Readers!GatewayAssumption
<1>1. IsFiniteSet(Nodes)
    BY ClusterAssumption, FS_Interval DEF Nodes
<1>2. Readers!IsFiniteSet(Nodes)
    BY <1>1 DEF IsFiniteSet, Readers!IsFiniteSet
<1>3. 0 \notin Nodes
    BY ClusterAssumption DEF Nodes
<1> QED BY <1>2, <1>3 DEF Readers!GatewayAssumption

-----------------------------------------------------------------------------
(* Nodes that stay in sync *)

\* A node that is synced and stays so keeps its kind: only a booting one finds out
\* that it is archival (node.go:179).
LEMMA KindStays ==
    ASSUME ClusterInv, Next, NEW n \in Nodes, state[n] = "Synced", state'[n] = "Synced"
    PROVE  Kind(n)' = Kind(n)
<1>1. TypeOK /\ BootInv
    BY DEF ClusterInv
<1>2. ASSUME NEW m \in Nodes, fetchFirst(m) PROVE Catchup'[n] = Catchup[n]
    <2>1. m # n
        BY <1>1, <1>2 DEF fetchFirst, Runs, BootInv
    <2> QED BY <1>1, <1>2, <2>1 DEF fetchFirst, TypeOK
<1>3. ASSUME NEW m \in Nodes, MainLoop(m), ~fetchFirst(m) PROVE Catchup' = Catchup
    BY <1>3 DEF MainLoop, boot, EnsureGenesis, WaitForFatal, statusFails, statusArrives,
                passClusterLock, statusAfterFails, statusAfterArrives, fetchNext
<1>4. ASSUME NEW m \in Nodes, StateUpdate(m) \/ loadMeasures(m) PROVE Catchup' = Catchup
    BY <1>4 DEF StateUpdate, loadMeasures
<1>5. StateChangeMonitor => Catchup' = Catchup
    BY DEF StateChangeMonitor, stateChange, lockCluster, scanNode, storeArch,
           updateNodeLists, nodeVars
<1>6. Catchup'[n] = Catchup[n]
    BY <1>2, <1>3, <1>4, <1>5 DEF Next
<1> QED BY <1>6 DEF Kind

\* Such a node is found by every scan as what it is, and stored where it belongs
\* (cluster.go:175-197).
LEMMA InSyncKept ==
    ASSUME ClusterInv, Next, NEW n \in Nodes, Kept(n), state'[n] = "Synced"
    PROVE  Kept(n)' /\ Kind(n)' = Kind(n)
<1>1. TypeOK /\ StoreInv /\ state[n] = "Synced"
    BY DEF ClusterInv, Kept, Kind
<1>2. Kind(n)' = Kind(n)
    BY <1>1, KindStays
<1>3. CASE UNCHANGED <<monVars, listVars>>
    BY <1>2, <1>3 DEF Kept, monVars, listVars, ClusterLocked, Listed
<1>4. CASE stateChange
    BY <1>2, <1>4 DEF stateChange, Kept, listVars, ClusterLocked, Listed
<1>5. CASE lockCluster
    <2>1. ~(n < next')
        BY <1>5, ClusterAssumption DEF lockCluster, Nodes
    <2> QED BY <1>2, <1>5, <2>1 DEF lockCluster, Kept, listVars, Listed
<1>6. CASE scanNode
    <2>1. n < next' => n < next \/ n = next
        BY <1>1, <1>6, ClusterAssumption DEF scanNode, Nodes, TypeOK
    <2>2. kind'[n] = IF n = next THEN Kind(n) ELSE kind[n]
        BY <1>1, <1>6 DEF scanNode, TypeOK
    <2>3. ClusterLocked
        BY <1>6 DEF scanNode, ClusterLocked
    <2> QED BY <1>2, <1>6, <2>1, <2>2, <2>3 DEF scanNode, Kept, listVars, Listed
<1>7. CASE storeArch
    <2>1. ClusterLocked /\ n < next
        BY <1>1, <1>7, ClusterAssumption DEF storeArch, ClusterLocked, Nodes, TypeOK
    <2>2. kind[n] = Kind(n)
        BY <2>1 DEF Kept
    <2>3. Listed(archNodes') = {m \in Nodes : kind[m] = "arch"}
        BY <1>7 DEF storeArch, ByRTT, Orders
    <2> QED BY <1>2, <1>7, <2>2, <2>3 DEF storeArch, Kept, Listed
<1>8. CASE updateNodeLists
    <2>1. ClusterLocked /\ n < next
        BY <1>1, <1>8, ClusterAssumption
           DEF updateNodeLists, ClusterLocked, StoreInv, Nodes, TypeOK
    <2>2. kind[n] = Kind(n)
        BY <2>1 DEF Kept
    <2>3. Listed(catchupNodes') = {m \in Nodes : kind[m] = "catchup"}
        BY <1>1, <1>8 DEF updateNodeLists, StoreInv, Orders
    <2>4. ~ClusterLocked' /\ archNodes' = archNodes
        BY <1>8 DEF updateNodeLists, ClusterLocked
    <2> QED BY <1>2, <2>2, <2>3, <2>4 DEF Kept, Listed
<1>9. ASSUME NEW m \in Nodes, MainLoop(m) \/ StateUpdate(m) \/ loadMeasures(m)
      PROVE  UNCHANGED <<monVars, listVars>>
    BY <1>9 DEF MainLoop, StateUpdate, loadMeasures, boot, EnsureGenesis, WaitForFatal,
                fetchFirst, statusFails, statusArrives, passClusterLock, statusAfterFails,
                statusAfterArrives, fetchNext
<1> QED
    BY <1>3, <1>4, <1>5, <1>6, <1>7, <1>8, <1>9 DEF Next, StateChangeMonitor

-----------------------------------------------------------------------------
(* The inductive invariant *)

\* Initially nobody reads.
LEMMA SystemInitially == SystemInit => SystemInv
<1> SUFFICES ASSUME SystemInit PROVE SystemInv
    OBVIOUS
<1>1. ClusterInv
    BY ClusterInit DEF SystemInit
<1>2. /\ source = [w \in Tasks |-> "none"] /\ task = [w \in Tasks |-> "proxy"]
      /\ steady = [w \in Tasks |-> {}] /\ insync = [w \in Tasks |-> {}]
    BY DEF SystemInit, Readers!GatewayInit
<1>3. ReaderTypes
    BY <1>2 DEF ReaderTypes
<1> QED BY <1>1, <1>2, <1>3 DEF SystemInv, InSyncInv, SteadyListed

\* A step of the cluster.
LEMMA ClusterMovesKeep == SystemInv /\ ClusterMoves => SystemInv'
<1> SUFFICES ASSUME SystemInv, ClusterMoves PROVE SystemInv'
    OBVIOUS
<1>1. ClusterInv /\ ReaderTypes /\ InSyncInv /\ SteadyListed /\ Next
    BY DEF SystemInv, ClusterMoves
<1>2. ClusterInv'
    BY <1>1, ClusterStep
<1>3. task' = task /\ source' = source
    BY DEF ClusterMoves, readerVars
<1>4. ReaderTypes'
    BY <1>1, <1>3 DEF ClusterMoves, ReaderTypes
<1>5. ASSUME NEW w \in Tasks, source'[w] # "none", NEW n \in insync'[w]
      PROVE  /\ n \in insync[w] /\ Kept(n)' /\ Kind(n)' = Kind(n)
             /\ task[w] = "old" => Kind(n) = "arch"
    <2>1. n \in insync[w] /\ state'[n] = "Synced"
        BY <1>3, <1>5 DEF ClusterMoves
    <2>2. n \in Nodes /\ Kept(n) /\ (task[w] = "old" => Kind(n) = "arch")
        BY <1>1, <1>3, <1>5, <2>1 DEF InSyncInv, ReaderTypes
    <2> QED BY <1>1, <2>1, <2>2, InSyncKept
<1>6. InSyncInv'
    BY <1>3, <1>5 DEF InSyncInv
<1>7. ASSUME NEW w \in Tasks
      PROVE  /\ insync'[w] \subseteq steady'[w]
             /\ source'[w] # "none" => steady'[w] \subseteq Listing(w)'
    <2>1. CASE source[w] = "none"
        BY <1>1, <1>3, <2>1 DEF ClusterMoves, SteadyListed
    <2>2. CASE source[w] # "none"
        <3>1. steady'[w] = steady[w] \cap Listing(w)'
            BY <2>2 DEF ClusterMoves
        <3>2. ASSUME NEW n \in insync'[w] PROVE n \in Listing(w)'
            <4>1. Kept(n)' /\ (task'[w] = "old" => Kind(n)' = "arch")
                BY <1>3, <1>5, <2>2, <3>2
            <4> QED BY <4>1 DEF Kept, Listing
        <3>3. \A n \in insync'[w] : n \in insync[w]
            BY <1>3, <1>5, <2>2
        <3> QED BY <1>1, <3>1, <3>2, <3>3 DEF SteadyListed
    <2> QED BY <2>1, <2>2
<1>8. SteadyListed'
    BY <1>7 DEF SteadyListed
<1> QED BY <1>2, <1>4, <1>6, <1>8 DEF SystemInv

\* What a step of a reader leaves alone: it reads on, or it is done.
LEMMA ReaderFacts ==
    ASSUME ReaderTypes, NEW w \in Tasks, ReaderMoves(w)
    PROVE  /\ UNCHANGED <<vars, insync, steady>>
           /\ task' \in [Tasks -> {"proxy", "recent", "old"}]
           /\ source' \in [Tasks -> {"none", "catchup", "arch"}]
           /\ \A v \in Tasks : source'[v] # "none" => source[v] # "none" /\ task'[v] = task[v]
<1> USE DEF ReaderTypes
<1>1. UNCHANGED <<vars, insync>> /\ (Readers!AnswerHere(w) \/ Readers!Serve(w))
    BY DEF ReaderMoves
<1> DEFINE Goal == /\ UNCHANGED steady
                   /\ task' \in [Tasks -> {"proxy", "recent", "old"}]
                   /\ source' \in [Tasks -> {"none", "catchup", "arch"}]
                   /\ \A v \in Tasks : source'[v] # "none"
                                          => source[v] # "none" /\ task'[v] = task[v]
<1>2. ASSUME NEW k, NEW how, Readers!Finish(w, k, how), UNCHANGED steady,
             task' = task \/ task' = [task EXCEPT ![w] = "proxy"]
      PROVE  Goal
    <2>1. source' = [source EXCEPT ![w] = "none"]
        BY <1>2 DEF Readers!Finish
    <2> QED BY <1>2, <2>1
<1>3. CASE Readers!AnswerHere(w)
    <2>1. PICK s : Readers!Finish(w, "proxy", s)
        BY <1>3 DEF Readers!AnswerHere
    <2> QED BY <1>1, <1>2, <1>3, <2>1 DEF Readers!AnswerHere
<1>4. CASE Readers!ReadArray(w) \/ Readers!TryNext(w) \/ Readers!FallBack(w)
           \/ Readers!Written(w)
    BY <1>1, <1>4 DEF Readers!ReadArray, Readers!TryNext, Readers!FallBack, Readers!Written
<1>5. CASE Readers!ReadLength(w)
    <2>1. source' = [source EXCEPT ![w] = Readers!After(source[w])] /\ UNCHANGED <<task, steady>>
        BY <1>5 DEF Readers!ReadLength
    <2> QED BY <1>1, <2>1 DEF Readers!After
<1>6. CASE Readers!Forward(w) \/ Readers!Loaded(w) \/ Readers!LoadPanics(w)
    <2>1. \E s : Readers!Finish(w, task[w], s) /\ UNCHANGED <<task, steady>>
        BY <1>6 DEF Readers!Forward, Readers!ProxyHTTP, Readers!Loaded, Readers!LoadPanics,
                    Readers!Panics
    <2> QED BY <1>1, <1>2, <2>1
<1>7. CASE Readers!GiveUp(w) \/ Readers!Panic(w)
    <2>1. \E s : Readers!Finish(w, task[w], s) /\ UNCHANGED <<task, steady>>
        BY <1>7 DEF Readers!GiveUp, Readers!Panic, Readers!Panics
    <2> QED BY <1>1, <1>2, <2>1
<1> QED BY <1>1, <1>3, <1>4, <1>5, <1>6, <1>7 DEF Readers!Serve, Readers!Seek

LEMMA ReaderMovesKeep ==
    ASSUME SystemInv, NEW w \in Tasks, ReaderMoves(w)
    PROVE  SystemInv'
<1>1. ClusterInv /\ ReaderTypes /\ InSyncInv /\ SteadyListed
    BY DEF SystemInv
<1>2. /\ UNCHANGED <<vars, insync, steady>>
      /\ task' \in [Tasks -> {"proxy", "recent", "old"}]
      /\ source' \in [Tasks -> {"none", "catchup", "arch"}]
      /\ \A v \in Tasks : source'[v] # "none" => source[v] # "none" /\ task'[v] = task[v]
    BY <1>1, ReaderFacts
<1>3. ClusterInv' /\ UNCHANGED <<state, Catchup, monVars, listVars>>
    BY <1>1, <1>2, ClusterStep DEF vars, nodeVars
<1>4. ReaderTypes'
    BY <1>1, <1>2 DEF ReaderTypes
<1>5. InSyncInv'
    BY <1>1, <1>2, <1>3 DEF InSyncInv, Kept, Kind, ClusterLocked, monVars, listVars, Listed
<1>6. SteadyListed'
    BY <1>1, <1>2, <1>3 DEF SteadyListed, Listing, Listed, listVars
<1> QED BY <1>3, <1>4, <1>5, <1>6 DEF SystemInv

\* A task that starts in a quiet cluster finds every node in sync in its list.
LEMMA StartsKeep ==
    ASSUME SystemInv, NEW w \in Tasks, NEW k \in {"proxy", "recent", "old"}, Starts(w, k)
    PROVE  SystemInv'
<1>1. ClusterInv /\ ReaderTypes /\ InSyncInv /\ SteadyListed /\ TypeOK /\ ListsFresh
    BY DEF SystemInv, ClusterInv
<1> DEFINE mine == {n \in Nodes : Quiet /\ Kind(n) \in IF k = "old" THEN {"arch"}
                                                       ELSE {"arch", "catchup"}}
           here == IF k = "old" THEN Listed(archNodes)
                   ELSE Listed(catchupNodes) \cup Listed(archNodes)
<1>2. /\ task' = [task EXCEPT ![w] = k]
      /\ source' = [source EXCEPT ![w] = IF k = "old" THEN "arch" ELSE "catchup"]
      /\ steady' = [steady EXCEPT ![w] = here]
      /\ insync' = [insync EXCEPT ![w] = mine]
      /\ UNCHANGED vars
    BY DEF Starts, Readers!Start, Readers!AllListed, Readers!Members, Listed
<1>3. ClusterInv' /\ UNCHANGED <<state, Catchup, monVars, listVars>>
    BY <1>1, <1>2, ClusterStep DEF vars, nodeVars
<1>4. here \subseteq Nodes /\ mine \subseteq Nodes
    BY <1>1 DEF TypeOK
<1>5. ASSUME NEW n \in mine
      PROVE  Kept(n) /\ (k = "old" => Kind(n) = "arch") /\ n \in here
    BY <1>1, <1>5 DEF Kept, Quiet, TakenIn, ClusterLocked, ListsFresh
<1> HIDE DEF mine, here
<1>6. ReaderTypes'
    BY <1>1, <1>2, <1>4 DEF ReaderTypes
<1>7. \A n \in Nodes : Kept(n)' = Kept(n) /\ Kind(n)' = Kind(n)
    BY <1>3 DEF Kept, Kind, ClusterLocked, monVars, listVars, Listed
<1>8. InSyncInv'
    <2> SUFFICES ASSUME NEW v \in Tasks, source'[v] # "none", NEW n \in insync'[v]
                 PROVE  Kept(n) /\ (task'[v] = "old" => Kind(n) = "arch")
        BY <1>6, <1>7 DEF InSyncInv, ReaderTypes
    <2>1. CASE v = w
        BY <1>1, <1>2, <1>5, <2>1 DEF ReaderTypes
    <2>2. CASE v # w
        BY <1>1, <1>2, <2>2 DEF ReaderTypes, InSyncInv
    <2> QED BY <2>1, <2>2
<1>9. SteadyListed'
    <2> SUFFICES ASSUME NEW v \in Tasks
                 PROVE  /\ insync'[v] \subseteq steady'[v]
                        /\ source'[v] # "none" => steady'[v] \subseteq Listing(v)'
        BY DEF SteadyListed
    <2>1. CASE v = w
        <3>1. insync'[v] = mine /\ steady'[v] = here /\ task'[v] = k
            BY <1>1, <1>2, <2>1 DEF ReaderTypes
        <3>2. here = Listing(v)'
            BY <1>3, <3>1 DEF here, Listing, Listed, listVars
        <3> QED BY <1>5, <3>1, <3>2
    <2>2. CASE v # w
        <3>1. /\ insync'[v] = insync[v] /\ steady'[v] = steady[v]
              /\ task'[v] = task[v] /\ source'[v] = source[v]
            BY <1>1, <1>2, <2>2 DEF ReaderTypes
        <3> QED BY <1>1, <1>3, <3>1 DEF SteadyListed, Listing, Listed, listVars
    <2> QED BY <2>1, <2>2
<1> QED BY <1>3, <1>6, <1>8, <1>9 DEF SystemInv

LEMMA SystemStep == SystemInv /\ [SystemNext]_systemVars => SystemInv'
<1> SUFFICES ASSUME SystemInv, [SystemNext]_systemVars PROVE SystemInv'
    OBVIOUS
<1>1. CASE ClusterMoves
    BY <1>1, ClusterMovesKeep
<1>2. CASE \E w \in Tasks : \E k \in {"proxy", "recent", "old"} : Starts(w, k)
    BY <1>2, StartsKeep
<1>3. CASE \E w \in Tasks : ReaderMoves(w)
    BY <1>3, ReaderMovesKeep
<1>4. CASE UNCHANGED systemVars
    <2>1. UNCHANGED vars /\ UNCHANGED <<task, source, steady, insync>>
        BY <1>4 DEF systemVars, readerVars
    <2>2. ClusterInv' /\ UNCHANGED <<state, Catchup, monVars, listVars>>
        BY <2>1, ClusterStep DEF SystemInv, vars, nodeVars
    <2>3. ReaderTypes'
        BY <2>1 DEF SystemInv, ReaderTypes
    <2>4. InSyncInv'
        BY <2>1, <2>2 DEF SystemInv, InSyncInv, Kept, Kind, ClusterLocked, monVars, listVars, Listed
    <2>5. SteadyListed'
        BY <2>1, <2>2 DEF SystemInv, SteadyListed, Listing, Listed, listVars
    <2> QED BY <2>2, <2>3, <2>4, <2>5 DEF SystemInv
<1> QED BY <1>1, <1>2, <1>3, <1>4 DEF SystemNext

\* The inductive invariant: a node that stays in sync stays listed where those who
\* read the lists look for it.
THEOREM SystemInvariant == SystemSpec => []SystemInv
<1> QED BY SystemInitially, SystemStep, PTL DEF SystemSpec

-----------------------------------------------------------------------------
(* The composition implements Gateway *)

\* Both instances of NodeLists say the same.
LEMMA SameLists ==
    /\ Promise!ListsNext => Readers!ListsNext
    /\ UNCHANGED Promise!listsVars => UNCHANGED Readers!listsVars
<1>1. \A S : Promise!ListsOf(S) = Readers!ListsOf(S)
    <2>1. \A S : Promise!Cardinality(S) = Readers!Cardinality(S)
        BY Zenon DEF Promise!Cardinality, Readers!Cardinality
    <2> QED BY <2>1 DEF Promise!ListsOf, Readers!ListsOf, Promise!Range, Readers!Range
<1>2. ASSUME NEW n \in Nodes, Promise!NodeChanges(n) PROVE Readers!NodeChanges(n)
    BY <1>2 DEF Promise!NodeChanges, Promise!Sync, Promise!Unsync, Promise!TurnArchival,
                Promise!lists, Readers!NodeChanges, Readers!Sync, Readers!Unsync,
                Readers!TurnArchival, Readers!lists
<1>3. ASSUME NEW n \in Nodes, Promise!ScanNode(n) PROVE Readers!ScanNode(n)
    BY <1>3 DEF Promise!ScanNode, Promise!KindOf, Promise!nodeFlags, Promise!lists,
                Readers!ScanNode, Readers!KindOf, Readers!nodeFlags, Readers!lists
<1>4. Promise!StartScan => Readers!StartScan
    BY DEF Promise!StartScan, Promise!NothingFound, Promise!nodeFlags, Promise!lists,
           Readers!StartScan, Readers!NothingFound, Readers!nodeFlags, Readers!lists
<1>5. Promise!StoreArch => Readers!StoreArch
    BY <1>1 DEF Promise!StoreArch, Promise!FoundAs, Promise!nodeFlags,
                Readers!StoreArch, Readers!FoundAs, Readers!nodeFlags
<1>6. Promise!StoreCatchup => Readers!StoreCatchup
    BY <1>1 DEF Promise!StoreCatchup, Promise!FoundAs, Promise!NothingFound, Promise!nodeFlags,
                Readers!StoreCatchup, Readers!FoundAs, Readers!NothingFound, Readers!nodeFlags
<1>7. UNCHANGED Promise!listsVars => UNCHANGED Readers!listsVars
    BY DEF Promise!listsVars, Promise!nodeFlags, Promise!lists,
           Readers!listsVars, Readers!nodeFlags, Readers!lists
<1> QED
    BY <1>2, <1>3, <1>4, <1>5, <1>6, <1>7 DEF Promise!ListsNext, Readers!ListsNext

LEMMA ClusterMovesMap ==
    ASSUME SystemInv, ClusterMoves
    PROVE  Readers!ClusterStep \/ UNCHANGED Readers!gatewayVars
<1>1. ClusterInv /\ ReaderTypes /\ SteadyListed /\ Next
    BY DEF SystemInv, ClusterMoves
<1>2. Readers!ListsNext \/ UNCHANGED Readers!listsVars
    BY <1>1, ClusterMaps, SameLists
<1>3. UNCHANGED <<task, at, source, array, nodes, tried, torn, answer, writes, crashed>>
    BY DEF ClusterMoves, readerVars
<1>4. CASE Readers!ListsNext
    <2>1. steady' = [w \in Tasks |->
              IF source[w] = "none" THEN steady[w]
              ELSE IF task[w] = "old" THEN steady[w] \cap Readers!Members(archNodes')
              ELSE steady[w] \cap (Readers!Members(catchupNodes')
                                     \cup Readers!Members(archNodes'))]
        BY <1>3 DEF ClusterMoves, Listing, Listed, Readers!Members
    <2> QED BY <1>3, <1>4, <2>1 DEF Readers!ClusterStep, ClusterMoves
<1>5. CASE UNCHANGED Readers!listsVars
    <2>1. UNCHANGED <<catchupNodes, archNodes>>
        BY <1>5 DEF Readers!listsVars, Readers!lists
    <2>2. \A w \in Tasks : steady'[w] = IF source[w] = "none" THEN steady[w]
                                         ELSE steady[w] \cap Listing(w)'
        BY DEF ClusterMoves
    <2>3. \A w \in Tasks : Listing(w)' = Listing(w)
        BY <1>3, <2>1 DEF Listing, Listed
    <2>4. \A w \in Tasks : steady'[w] = steady[w]
        BY <1>1, <2>2, <2>3 DEF SteadyListed
    <2>5. steady' = steady
        BY <1>1, <2>4 DEF ClusterMoves, ReaderTypes
    <2> QED BY <1>3, <1>5, <2>5 DEF Readers!gatewayVars, Readers!taskVars
<1> QED BY <1>2, <1>4, <1>5

\* Requests and loads over the real cluster behave as Gateway says of them over
\* NodeLists (handlers.go, proxy.go, LoadBlockSync).
THEOREM ReadersRefine == SystemSpec => Readers!GatewaySpec
<1>1. SystemInit => Readers!GatewayInit
    BY DEF SystemInit
<1>2. SystemInv /\ [SystemNext]_systemVars
        => [Readers!GatewayNext]_(Readers!gatewayVars)
    <2> SUFFICES ASSUME SystemInv, [SystemNext]_systemVars
                 PROVE  Readers!GatewayNext \/ UNCHANGED Readers!gatewayVars
        OBVIOUS
    <2>1. CASE ClusterMoves
        BY <2>1, ClusterMovesMap DEF Readers!GatewayNext
    <2>2. CASE \E w \in Tasks : \E k \in {"proxy", "recent", "old"} : Starts(w, k)
        BY <2>2 DEF Starts, Readers!GatewayNext
    <2>3. CASE \E w \in Tasks : ReaderMoves(w)
        BY <2>3 DEF ReaderMoves, Readers!GatewayNext
    <2>4. CASE UNCHANGED systemVars
        BY <2>4 DEF systemVars, readerVars, vars, nodeVars, monVars, listVars,
                    Readers!gatewayVars, Readers!taskVars, Readers!listsVars,
                    Readers!nodeFlags, Readers!lists
    <2> QED BY <2>1, <2>2, <2>3, <2>4 DEF SystemNext
<1> QED
    BY <1>1, <1>2, SystemInvariant, PTL DEF SystemSpec, Readers!GatewaySpec

\* Over the real cluster a request is answered once, and nobody is turned away before
\* every node that was listed all along was tried (handlers.go, LoadBlockSync).
THEOREM ReadersServed == SystemSpec => [](Readers!OneAnswer /\ Readers!RefusedAfterAll)
<1>1. SystemSpec => []Readers!OneAnswer
    BY ReadersRefine, ReadersAssumption, Readers!AnsweredOnce, PTL
<1>2. SystemSpec => []Readers!RefusedAfterAll
    BY ReadersRefine, ReadersAssumption, Readers!NobodyTurnedAway, PTL
<1> QED BY <1>1, <1>2, PTL

\* Who starts when no state change is pending is turned away only after every node
\* that could serve it and stayed in sync was tried, whatever the other nodes and
\* the monitor did meanwhile (cluster.go:138-250, handlers.go:67-87).
THEOREM InSyncAreTried == SystemSpec => []InSyncTried
<1>1. SystemInv /\ Readers!RefusedAfterAll => InSyncTried
    BY DEF SystemInv, SteadyListed, Readers!RefusedAfterAll, InSyncTried
<1> QED BY <1>1, SystemInvariant, ReadersServed, PTL
=============================================================================
