-------------------------- MODULE NodeClusterProofs --------------------------
(***************************************************************************)
(* Proofs about NodeCluster, for any number of nodes and any capacity of   *)
(* cState: ClusterInv is inductive, and the lists of synced nodes are      *)
(* right, and of nodes of the cluster's genesis, but for changes that are  *)
(* on their way to them.                                                   *)
(***************************************************************************)
EXTENDS NodeCluster, TLAPS

\* A new average lies between the old one and the sample, so it stays in range.
LEMMA RTTInRange ==
    ASSUME TypeOK, NEW n \in Nodes, updateRTT(n)
    PROVE  rttEwma' \in [Nodes -> 0 .. Unmeasured]
<1>1. PICK us \in Samples :
        rttEwma' = [rttEwma EXCEPT ![n] = IF @ = Unmeasured THEN us
                                          ELSE (9 * @ + us) \div 10]
    BY DEF updateRTT
<1>2. us \in 0 .. Unmeasured /\ Unmeasured \in Nat
    BY ClusterAssumption
<1>3. rttEwma[n] \in 0 .. Unmeasured
    BY DEF TypeOK
<1>4. (9 * rttEwma[n] + us) \div 10 \in 0 .. Unmeasured
    BY <1>2, <1>3
<1> QED
    BY <1>1, <1>2, <1>4 DEF TypeOK

\* setState keeps the types, and leaves a node that is not announced alone.
LEMMA SetStateFacts ==
    ASSUME TypeOK, NEW n \in Nodes, NEW s \in ANState, setState(n, s)
    PROVE  /\ state' \in [Nodes -> ANState]
           /\ sending' \subseteq Nodes
           /\ \A m \in Nodes \ sending' : m \notin sending /\ state'[m] = state[m]
           /\ \A m \in Nodes : m # n => state'[m] = state[m]
           /\ state'[n] = s
<1> QED BY DEF TypeOK, setState, ANState

LEMMA TypeInit == Init => TypeOK
<1> QED BY ClusterAssumption DEF Init, TypeOK, Listed, ANState, Nodes, PCs

\* The initial state: nothing is synced and nothing is listed.
LEMMA ClusterInit == Init => ClusterInv
<1> SUFFICES ASSUME Init PROVE ClusterInv
    OBVIOUS
<1>1. TypeOK
    BY TypeInit
<1>2. ScanInv
    BY DEF Init, ScanInv, ClusterLocked
<1>3. BootInv
    BY ClusterAssumption DEF Init, BootInv
<1>4. ListsFresh
    BY DEF Init, ListsFresh, Listed, Kind
<1>5. StoreInv
    BY DEF Init, StoreInv
<1>6. SendInv
    BY DEF Init, SendInv
<1> QED BY <1>1, <1>2, <1>3, <1>4, <1>5, <1>6 DEF ClusterInv

\* Every step keeps the types.
LEMMA TypeStep == TypeOK /\ [Next]_vars => TypeOK'
<1> SUFFICES ASSUME TypeOK, [Next]_vars PROVE TypeOK'
    OBVIOUS
<1> USE DEF mainVars, monVars, listVars
<1>1. ASSUME NEW n \in Nodes, boot(n) PROVE TypeOK'
    <2>1. state' \in [Nodes -> ANState] /\ sending' \subseteq Nodes
        BY <1>1, SetStateFacts DEF boot, ANState
    <2> QED BY <1>1, <2>1 DEF boot, Goes, TypeOK, Listed, PCs
<1>2. ASSUME NEW n \in Nodes, NEW g \in Genesis, EnsureGenesis(n, g) PROVE TypeOK'
    BY <1>2 DEF EnsureGenesis, Goes, TypeOK, Listed, PCs
<1>3. ASSUME NEW n \in Nodes, WaitForFatal(n) PROVE TypeOK'
    <2>1. pc' \in [Nodes -> PCs] /\ running' \in BOOLEAN
        BY <1>3 DEF WaitForFatal, Goes, TypeOK, PCs
    <2>2. UNCHANGED <<state, Catchup, rttEwma, reported, sending, genesis, cState, mon, next,
                      kind, sorted, catchupNodes, archNodes>>
        BY <1>3 DEF WaitForFatal
    <2> QED BY <2>1, <2>2 DEF TypeOK, Listed
<1>4. ASSUME NEW n \in Nodes, fetchFirst(n) PROVE TypeOK'
    <2>1. rttEwma' \in [Nodes -> 0 .. Unmeasured]
        BY <1>4, RTTInRange DEF fetchFirst, TypeOK
    <2>2. Catchup' \in [Nodes -> BOOLEAN]
        BY <1>4 DEF fetchFirst, TypeOK
    <2>3. pc' \in [Nodes -> PCs]
        BY <1>4 DEF fetchFirst, Goes, TypeOK, PCs
    <2>4. UNCHANGED <<state, reported, sending, genesis, running, cState, mon, next,
                      kind, sorted, catchupNodes, archNodes>>
        BY <1>4 DEF fetchFirst
    <2> QED BY <2>1, <2>2, <2>3, <2>4 DEF TypeOK, Listed, PCs
<1>5. ASSUME NEW n \in Nodes, statusFails(n) PROVE TypeOK'
    <2>1. state' \in [Nodes -> ANState] /\ sending' \subseteq Nodes
        BY <1>5, SetStateFacts DEF statusFails, ANState
    <2> QED BY <1>5, <2>1 DEF statusFails, TypeOK, Listed
<1>6. ASSUME NEW n \in Nodes, statusArrives(n) PROVE TypeOK'
    <2>1. state' \in [Nodes -> ANState] /\ sending' \subseteq Nodes
        BY <1>6, SetStateFacts DEF statusArrives, ANState
    <2>2. rttEwma' \in [Nodes -> 0 .. Unmeasured]
        BY <1>6, RTTInRange DEF statusArrives
    <2> QED BY <1>6, <2>1, <2>2 DEF statusArrives, Goes, TypeOK, Listed, PCs
<1>7. ASSUME NEW n \in Nodes, passClusterLock(n) PROVE TypeOK'
    BY <1>7 DEF passClusterLock, Goes, TypeOK, Listed, PCs
<1>8. ASSUME NEW n \in Nodes, statusAfterFails(n) PROVE TypeOK'
    <2>1. state' \in [Nodes -> ANState] /\ sending' \subseteq Nodes
        BY <1>8, SetStateFacts DEF statusAfterFails, ANState
    <2>2. pc' \in [Nodes -> PCs]
        BY <1>8 DEF statusAfterFails, Goes, TypeOK, PCs
    <2>3. UNCHANGED <<Catchup, rttEwma, reported, genesis, running, cState, mon,
                      next, kind, sorted, catchupNodes, archNodes>>
        BY <1>8 DEF statusAfterFails
    <2> QED BY <2>1, <2>2, <2>3 DEF TypeOK, Listed, PCs
<1>9. ASSUME NEW n \in Nodes, statusAfterArrives(n) PROVE TypeOK'
    <2>1. state' \in [Nodes -> ANState] /\ sending' \subseteq Nodes
        BY <1>9, SetStateFacts DEF statusAfterArrives, ANState
    <2>2. pc' \in [Nodes -> PCs]
        BY <1>9 DEF statusAfterArrives, Goes, TypeOK, PCs
    <2>3. UNCHANGED <<Catchup, rttEwma, reported, genesis, running, cState, mon,
                      next, kind, sorted, catchupNodes, archNodes>>
        BY <1>9 DEF statusAfterArrives
    <2> QED BY <2>1, <2>2, <2>3 DEF TypeOK, Listed, PCs
<1>10. ASSUME NEW n \in Nodes, fetchNext(n) PROVE TypeOK'
    <2>1. rttEwma' \in [Nodes -> 0 .. Unmeasured]
        BY <1>10, RTTInRange DEF fetchNext, TypeOK
    <2> QED BY <1>10, <2>1 DEF fetchNext, Goes, TypeOK, Listed, PCs
<1>11. ASSUME NEW n \in Nodes, StateUpdate(n) PROVE TypeOK'
    BY <1>11, ClusterAssumption DEF StateUpdate, TypeOK, Listed
<1>12. ASSUME NEW n \in Nodes, loadMeasures(n) PROVE TypeOK'
    <2>1. rttEwma' \in [Nodes -> 0 .. Unmeasured]
        BY <1>12, RTTInRange DEF loadMeasures
    <2> QED BY <1>12, <2>1 DEF loadMeasures, TypeOK, Listed
<1>13. CASE stateChange
    BY <1>13, ClusterAssumption DEF stateChange, nodeVars, TypeOK, Listed
<1>14. CASE lockCluster
    BY <1>14, ClusterAssumption DEF lockCluster, nodeVars, TypeOK, Listed
<1>15. CASE scanNode
    <2>1. next' \in 1 .. NodeCount + 1
        BY <1>15, ClusterAssumption DEF scanNode, TypeOK, Nodes
    <2>2. kind' \in [Nodes -> {"none", "catchup", "arch"}]
        BY <1>15 DEF scanNode, TypeOK, Kind
    <2> QED BY <1>15, <2>1, <2>2 DEF scanNode, nodeVars, TypeOK, Listed
<1>16. CASE storeArch
    <2>1. /\ Listed(sorted)' \subseteq Nodes
          /\ Listed(archNodes)' \subseteq Nodes
        BY <1>16 DEF storeArch, ByRTT, Orders, Listed
    <2> QED BY <1>16, <2>1 DEF storeArch, nodeVars, TypeOK, Listed
<1>17. CASE updateNodeLists
    BY <1>17, ClusterAssumption DEF updateNodeLists, nodeVars, TypeOK, Listed
<1>18. CASE UNCHANGED vars
    BY <1>18 DEF vars, nodeVars, TypeOK, Listed
<1> QED
    BY <1>1, <1>2, <1>3, <1>4, <1>5, <1>6, <1>7, <1>8, <1>9, <1>10, <1>11,
       <1>12, <1>13, <1>14, <1>15, <1>16, <1>17, <1>18
       DEF Next, MainLoop, StateChangeMonitor

\* Every step keeps a node's genesis in line with the cluster's: only
\* EnsureGenesis writes either, while the node is booting.
LEMMA BootStep == TypeOK /\ BootInv /\ [Next]_vars => BootInv'
<1> DEFINE Part(m) ==
        /\ pc[m] \in {"genesis", "fatal", "archive"} => state[m] = "Booting"
        /\ pc[m] \notin {"boot", "genesis", "fatal"} => reported[m] = genesis /\ genesis # NoGen
        /\ state[m] = "Synced" => reported[m] = genesis /\ genesis # NoGen
        /\ reported[m] # NoGen => genesis # NoGen
<1> SUFFICES ASSUME TypeOK, BootInv, [Next]_vars, NEW m \in Nodes
             PROVE  Part(m)'
    BY DEF BootInv
<1>0. Part(m)
    BY DEF BootInv
<1> USE DEF TypeOK, Runs, Goes, mainVars, setState
<1>1. ASSUME NEW n \in Nodes, boot(n) PROVE Part(m)'
    BY <1>0, <1>1 DEF boot
<1>2. ASSUME NEW n \in Nodes, NEW g \in Genesis, EnsureGenesis(n, g) PROVE Part(m)'
    <2>1. g # NoGen
        BY ClusterAssumption
    <2>2. CASE m = n
        <3>1. /\ reported'[m] = g /\ state'[m] = state[m]
              /\ genesis' # NoGen
              /\ state[m] = "Booting"
            BY <1>0, <1>2, <2>1, <2>2 DEF EnsureGenesis
        <3>2. pc'[m] = "fatal" \/ (pc'[m] = "archive" /\ genesis' = g)
            BY <1>2, <2>2 DEF EnsureGenesis
        <3> QED BY <3>1, <3>2
    <2>3. CASE m # n
        BY <1>0, <1>2, <2>1, <2>3 DEF EnsureGenesis
    <2> QED BY <2>2, <2>3
<1>3. ASSUME NEW n \in Nodes, WaitForFatal(n) PROVE Part(m)'
    BY <1>0, <1>3 DEF WaitForFatal
<1>4. ASSUME NEW n \in Nodes, fetchFirst(n) PROVE Part(m)'
    BY <1>0, <1>4 DEF fetchFirst
<1>5. ASSUME NEW n \in Nodes, statusFails(n) PROVE Part(m)'
    BY <1>0, <1>5 DEF statusFails
<1>6. ASSUME NEW n \in Nodes, statusArrives(n) PROVE Part(m)'
    BY <1>0, <1>6 DEF statusArrives
<1>7. ASSUME NEW n \in Nodes, passClusterLock(n) PROVE Part(m)'
    BY <1>0, <1>7 DEF passClusterLock
<1>8. ASSUME NEW n \in Nodes, statusAfterFails(n) PROVE Part(m)'
    BY <1>0, <1>8 DEF statusAfterFails
<1>9. ASSUME NEW n \in Nodes, statusAfterArrives(n) PROVE Part(m)'
    BY <1>0, <1>9 DEF statusAfterArrives
<1>10. ASSUME NEW n \in Nodes, fetchNext(n) PROVE Part(m)'
    BY <1>0, <1>10 DEF fetchNext
<1>11. ASSUME NEW n \in Nodes, StateUpdate(n) PROVE Part(m)'
    BY <1>0, <1>11 DEF StateUpdate
<1>12. ASSUME NEW n \in Nodes, loadMeasures(n) PROVE Part(m)'
    BY <1>0, <1>12 DEF loadMeasures
<1>13. CASE StateChangeMonitor \/ UNCHANGED vars
    BY <1>0, <1>13 DEF StateChangeMonitor, stateChange, lockCluster, scanNode,
                       storeArch, updateNodeLists, nodeVars, vars
<1> QED
    BY <1>1, <1>2, <1>3, <1>4, <1>5, <1>6, <1>7, <1>8, <1>9, <1>10, <1>11,
       <1>12, <1>13
       DEF Next, MainLoop

\* Every step keeps what is known of a node that is announcing a change: it runs
\* on only after the announcement.
LEMMA SendStep == TypeOK /\ SendInv /\ [Next]_vars => SendInv'
<1> DEFINE Part(m) ==
        m \in sending => pc[m] # "archive" /\ (pc[m] = "status" => state[m] = "Failing")
<1> SUFFICES ASSUME TypeOK, SendInv, [Next]_vars, NEW m \in Nodes
             PROVE  Part(m)'
    BY TypeStep DEF SendInv, TypeOK
<1>0. Part(m)
    BY DEF SendInv
<1> USE DEF TypeOK, Runs, Goes, mainVars, setState
<1>1. ASSUME NEW n \in Nodes, boot(n) PROVE Part(m)'
    BY <1>0, <1>1 DEF boot
<1>2. ASSUME NEW n \in Nodes, NEW g \in Genesis, EnsureGenesis(n, g) PROVE Part(m)'
    BY <1>0, <1>2 DEF EnsureGenesis
<1>3. ASSUME NEW n \in Nodes, WaitForFatal(n) PROVE Part(m)'
    BY <1>0, <1>3 DEF WaitForFatal
<1>4. ASSUME NEW n \in Nodes, fetchFirst(n) PROVE Part(m)'
    BY <1>0, <1>4 DEF fetchFirst
<1>5. ASSUME NEW n \in Nodes, statusFails(n) PROVE Part(m)'
    BY <1>0, <1>5 DEF statusFails
<1>6. ASSUME NEW n \in Nodes, statusArrives(n) PROVE Part(m)'
    BY <1>0, <1>6 DEF statusArrives
<1>7. ASSUME NEW n \in Nodes, passClusterLock(n) PROVE Part(m)'
    BY <1>0, <1>7 DEF passClusterLock
<1>8. ASSUME NEW n \in Nodes, statusAfterFails(n) PROVE Part(m)'
    BY <1>0, <1>8 DEF statusAfterFails
<1>9. ASSUME NEW n \in Nodes, statusAfterArrives(n) PROVE Part(m)'
    BY <1>0, <1>9 DEF statusAfterArrives
<1>10. ASSUME NEW n \in Nodes, fetchNext(n) PROVE Part(m)'
    BY <1>0, <1>10 DEF fetchNext
<1>11. ASSUME NEW n \in Nodes, StateUpdate(n) PROVE Part(m)'
    BY <1>0, <1>11 DEF StateUpdate
<1>12. ASSUME NEW n \in Nodes, loadMeasures(n) PROVE Part(m)'
    BY <1>0, <1>12 DEF loadMeasures
<1>13. CASE StateChangeMonitor \/ UNCHANGED vars
    BY <1>0, <1>13 DEF StateChangeMonitor, stateChange, lockCluster, scanNode,
                       storeArch, updateNodeLists, nodeVars, vars
<1> QED
    BY <1>1, <1>2, <1>3, <1>4, <1>5, <1>6, <1>7, <1>8, <1>9, <1>10, <1>11,
       <1>12, <1>13
       DEF Next, MainLoop

\* A node that changes its list is announced: who is not announcing anything
\* after a step of a node was not before it, and belongs where it belonged.
LEMMA KindsKept ==
    ASSUME TypeOK, BootInv, NEW n \in Nodes, MainLoop(n) \/ loadMeasures(n)
    PROVE  /\ \A m \in Nodes \ sending' : m \notin sending /\ Kind(m)' = Kind(m)
           /\ UNCHANGED <<cState, monVars, listVars>>
<1>1. CASE fetchFirst(n)
    <2>1. state[n] # "Synced"
        BY <1>1 DEF fetchFirst, Runs, BootInv
    <2>2. \A m \in Nodes : m # n => Catchup'[m] = Catchup[m]
        BY <1>1 DEF fetchFirst, TypeOK
    <2> QED BY <1>1, <2>1, <2>2 DEF fetchFirst, Kind
<1>2. CASE boot(n)
    BY <1>2, SetStateFacts DEF boot, Kind, ANState
<1>3. CASE \E g \in Genesis : EnsureGenesis(n, g)
    BY <1>3 DEF EnsureGenesis, Kind
<1>4. CASE WaitForFatal(n)
    BY <1>4 DEF WaitForFatal, Kind
<1>5. CASE statusFails(n)
    BY <1>5, SetStateFacts DEF statusFails, Kind, ANState
<1>6. CASE statusArrives(n)
    BY <1>6, SetStateFacts DEF statusArrives, Kind, ANState
<1>7. CASE passClusterLock(n)
    BY <1>7 DEF passClusterLock, Kind
<1>8. CASE statusAfterFails(n)
    BY <1>8, SetStateFacts DEF statusAfterFails, Kind, ANState
<1>9. CASE statusAfterArrives(n)
    BY <1>9, SetStateFacts DEF statusAfterArrives, Kind, ANState
<1>10. CASE fetchNext(n)
    BY <1>10 DEF fetchNext, Kind
<1>11. CASE loadMeasures(n)
    BY <1>11 DEF loadMeasures, Kind
<1> QED
    BY <1>1, <1>2, <1>3, <1>4, <1>5, <1>6, <1>7, <1>8, <1>9, <1>10, <1>11
       DEF MainLoop

\* The monitor's steps: what it has seen stays true, and it stores what it saw.
LEMMA MonitorStep ==
    ASSUME TypeOK, ScanInv, StoreInv, ListsFresh, StateChangeMonitor
    PROVE  ScanInv' /\ StoreInv' /\ ListsFresh'
<1> USE DEF nodeVars, ClusterLocked
<1>1. CASE stateChange
    BY <1>1 DEF stateChange, ScanInv, StoreInv, ListsFresh, TakenIn
<1>2. CASE lockCluster
    <2>1. \A n \in Nodes : ~(n < next')
        BY <1>2, ClusterAssumption DEF lockCluster, Nodes
    <2> QED BY <1>2, <2>1 DEF lockCluster, ScanInv, StoreInv, ListsFresh, TakenIn
<1>3. CASE scanNode
    <2>1. ~TakenIn' /\ mon' # "store"
        BY <1>3 DEF scanNode, TakenIn
    <2>2. ASSUME ClusterLocked', cState' = 0, NEW n \in Nodes, n \notin sending', n < next'
          PROVE  kind'[n] = Kind(n)'
        <3>1. Kind(n)' = Kind(n)
            BY <1>3 DEF scanNode, Kind
        <3>2. n < next \/ n = next
            BY <1>3, <2>2, ClusterAssumption DEF scanNode, Nodes
        <3>3. kind'[n] = IF n = next THEN Kind(n) ELSE kind[n]
            BY <1>3 DEF scanNode, TypeOK
        <3>4. n < next => kind[n] = Kind(n)
            BY <1>3, <2>2 DEF scanNode, ScanInv
        <3> QED BY <3>1, <3>2, <3>3, <3>4
    <2> QED BY <2>1, <2>2 DEF ScanInv, StoreInv, ListsFresh
<1>4. CASE storeArch
    <2>1. ~TakenIn' /\ next' > NodeCount
        BY <1>4 DEF storeArch, TakenIn
    <2>2. \A n \in Nodes : Kind(n)' = Kind(n)
        BY <1>4 DEF storeArch, Kind
    <2>3. ScanInv'
        BY <1>4, <2>2 DEF storeArch, ScanInv
    <2>4. StoreInv'
        BY <1>4, <2>1 DEF storeArch, StoreInv, ByRTT, Orders, Listed
    <2> QED BY <2>1, <2>3, <2>4 DEF ListsFresh
<1>5. CASE updateNodeLists
    <2>1. mon' = "idle"
        BY <1>5 DEF updateNodeLists
    <2>2. /\ Listed(catchupNodes)' = {n \in Nodes : kind[n] = "catchup"}
          /\ Listed(archNodes)' = {n \in Nodes : kind[n] = "arch"}
        BY <1>5 DEF updateNodeLists, StoreInv, Orders, Listed
    <2>3. ASSUME TakenIn', NEW n \in Nodes, n \notin sending' PROVE kind[n] = Kind(n)'
        <3>1. ClusterLocked /\ n \notin sending /\ cState = 0
            BY <1>5, <2>3 DEF updateNodeLists, TakenIn
        <3>2. n < next
            BY <1>5, ClusterAssumption DEF updateNodeLists, StoreInv, Nodes, TypeOK
        <3>3. Kind(n)' = Kind(n)
            BY <1>5 DEF updateNodeLists, Kind
        <3> QED BY <3>1, <3>2, <3>3 DEF ScanInv
    <2> QED BY <2>1, <2>2, <2>3 DEF ScanInv, StoreInv, ListsFresh
<1> QED BY <1>1, <1>2, <1>3, <1>4, <1>5 DEF StateChangeMonitor

LEMMA ClusterStep == ClusterInv /\ [Next]_vars => ClusterInv'
<1> SUFFICES ASSUME ClusterInv, [Next]_vars PROVE ClusterInv'
    OBVIOUS
<1> DEFINE Goal == ScanInv' /\ StoreInv' /\ ListsFresh'
<1>1. TypeOK /\ ScanInv /\ StoreInv /\ BootInv /\ ListsFresh /\ SendInv
    BY DEF ClusterInv
<1>2. TypeOK' /\ BootInv' /\ SendInv'
    BY <1>1, TypeStep, BootStep, SendStep
<1>3. ASSUME UNCHANGED <<mon, next, kind, sorted, archNodes>> PROVE StoreInv'
    BY <1>1, <1>3 DEF StoreInv, Orders, Listed
<1>4. ASSUME NEW n \in Nodes, MainLoop(n) \/ loadMeasures(n) PROVE Goal
    <2>0. UNCHANGED <<mon, next, kind, sorted, archNodes>>
        BY <1>4 DEF MainLoop, boot, EnsureGenesis, WaitForFatal, fetchFirst, statusFails,
                    statusArrives, passClusterLock, statusAfterFails,
                    statusAfterArrives, fetchNext, loadMeasures, monVars, listVars
    <2>1. /\ \A m \in Nodes \ sending' : m \notin sending /\ Kind(m)' = Kind(m)
          /\ UNCHANGED <<cState, mon, next, kind, catchupNodes, archNodes>>
        BY <1>1, <1>4, KindsKept DEF monVars, listVars
    <2>2. ScanInv'
        BY <1>1, <2>1 DEF ScanInv, ClusterLocked
    <2>3. ListsFresh'
        BY <1>1, <2>1 DEF ListsFresh, TakenIn, Listed
    <2> QED BY <1>3, <2>0, <2>2, <2>3
<1>5. ASSUME NEW n \in Nodes, StateUpdate(n) PROVE Goal
    <2>1. cState' # 0
        BY <1>1, <1>5, ClusterAssumption DEF StateUpdate, TypeOK
    <2>2. StoreInv'
        BY <1>3, <1>5 DEF StateUpdate, monVars, listVars
    <2> QED BY <2>1, <2>2 DEF ScanInv, ListsFresh, TakenIn
<1>6. ASSUME StateChangeMonitor PROVE Goal
    BY <1>1, <1>6, MonitorStep
<1>7. ASSUME UNCHANGED vars PROVE Goal
    <2>1. UNCHANGED <<state, Catchup, sending, cState, mon, next, kind, sorted,
                      catchupNodes, archNodes>>
        BY <1>7 DEF vars, nodeVars, monVars, listVars
    <2>2. \A m \in Nodes : Kind(m)' = Kind(m)
        BY <2>1 DEF Kind
    <2>3. ScanInv'
        BY <1>1, <2>1, <2>2 DEF ScanInv, ClusterLocked
    <2>4. ListsFresh'
        BY <1>1, <2>1, <2>2 DEF ListsFresh, TakenIn, Listed
    <2> QED BY <1>3, <2>1, <2>3, <2>4
<1>8. Goal
    BY <1>4, <1>5, <1>6, <1>7 DEF Next
<1> QED
    BY <1>2, <1>8 DEF ClusterInv

\* The inductive invariant holds in every reachable state: what the scan of
\* updateNodeLists found stays true unless a change is on its way.
THEOREM ClusterInvariant == Spec => []ClusterInv
<1> QED BY ClusterInit, ClusterStep, PTL DEF Spec

\* The nodes' states, the round trip times and the lists keep their types.
THEOREM ClusterTypes == Spec => []TypeOK
<1>1. ClusterInv => TypeOK
    BY DEF ClusterInv
<1> QED BY <1>1, ClusterInvariant, PTL

\* updateNodeLists never leaves the lists wrong: with every announced change
\* taken in, a node that announces none is in exactly the list it belongs to, for
\* any number of nodes.
THEOREM ListsAreFresh == Spec => []ListsFresh
<1>1. ClusterInv => ListsFresh
    BY DEF ClusterInv
<1> QED BY <1>1, ClusterInvariant, PTL

\* Whoever is listed reported the cluster's genesis when it last booted, or is out
\* of sync and the monitor has yet to take that in: a foreign node is offered for
\* no longer than the change of its state takes to get to the lists.
THEOREM ListedPassedGenesis == Spec => []ListedShareGenesis
<1>1. ASSUME ClusterInv PROVE ListedShareGenesis
    <2> SUFFICES ASSUME NEW n \in Listed(catchupNodes) \cup Listed(archNodes),
                        reported[n] # genesis
                 PROVE  state[n] # "Synced" /\ (n \in sending \/ ~TakenIn)
        BY DEF ListedShareGenesis
    <2>1. n \in Nodes
        BY <1>1 DEF ClusterInv, TypeOK
    <2>2. state[n] # "Synced"
        BY <1>1, <2>1 DEF ClusterInv, BootInv
    <2>3. ASSUME n \notin sending, TakenIn PROVE FALSE
        <3>1. Kind(n) \in {"catchup", "arch"}
            BY <1>1, <2>1, <2>3 DEF ClusterInv, ListsFresh
        <3> QED BY <2>2, <3>1 DEF Kind
    <2> QED BY <2>2, <2>3
<1> QED BY <1>1, ClusterInvariant, PTL

\* No node has more than three changes to announce.
LEMMA PendingAtMostThree ==
    ASSUME SendInv, NEW n \in Nodes
    PROVE  Pending(n) \in 0 .. 3
<1>1. CASE n \in sending
    <2>1. pc[n] # "archive" /\ (pc[n] = "status" => state[n] = "Failing")
        BY <1>1 DEF SendInv
    <2> QED BY <1>1, <2>1 DEF Pending
<1>2. CASE n \notin sending
    BY <1>2 DEF Pending
<1> QED BY <1>1, <1>2

\* A step of a node, with the cluster's lock taken, gives nobody more to announce.
LEMMA PendingShrinks ==
    ASSUME TypeOK, BootInv, ClusterLocked, NEW m \in Nodes, MainLoop(m) \/ loadMeasures(m),
           NEW n \in Nodes
    PROVE  Pending(n)' <= Pending(n) /\ ~(n \in sending \ sending')
<1> DEFINE Goal == Pending(n)' <= Pending(n) /\ ~(n \in sending \ sending')
<1>1. CASE n = m
    <2> USE <1>1 DEF TypeOK, Runs, Goes, mainVars, setState, Pending
    <2>1. ASSUME boot(n) PROVE Goal
        BY <2>1 DEF boot
    <2>2. ASSUME (\E g \in Genesis : EnsureGenesis(n, g)) \/ passClusterLock(n) PROVE Goal
        BY <2>2 DEF EnsureGenesis, passClusterLock
    <2>3. ASSUME WaitForFatal(n) PROVE Goal
        BY <2>3 DEF WaitForFatal, BootInv
    <2>4. ASSUME fetchFirst(n) PROVE Goal
        <3>1. pc[n] = "archive" /\ pc'[n] = "status" /\ sending' = sending /\ n \notin sending
            BY <2>4 DEF fetchFirst
        <3> QED BY <3>1
    <2>5. ASSUME statusFails(n) PROVE Goal
        BY <2>5 DEF statusFails
    <2>6. ASSUME statusArrives(n) PROVE Goal
        <3>1. pc[n] = "status" /\ n \notin sending /\ pc'[n] \in {"boot", "monitor"} /\ sending \subseteq sending'
            BY <2>6 DEF statusArrives
        <3> QED BY <3>1
    <2>7. ASSUME statusAfterFails(n) \/ statusAfterArrives(n) PROVE Goal
        <3>1. /\ pc[n] = "await" /\ n \notin sending /\ sending \subseteq sending'
              /\ pc'[n] \in {"boot", "monitor", "latest"}
            BY <2>7 DEF statusAfterFails, statusAfterArrives
        <3> QED BY <3>1
    <2>8. ASSUME fetchNext(n) PROVE Goal
        <3>1. /\ pc[n] = "fetch" /\ n \notin sending /\ sending' = sending
              /\ pc'[n] \in {"boot", "monitor"}
            BY <2>8 DEF fetchNext
        <3> QED BY <3>1
    <2>9. ASSUME loadMeasures(n) PROVE Goal
        <3>1. UNCHANGED <<pc, state, sending>>
            BY <2>9 DEF loadMeasures
        <3> QED BY <3>1
    <2> QED BY <2>1, <2>2, <2>3, <2>4, <2>5, <2>6, <2>7, <2>8, <2>9 DEF MainLoop
<1>2. CASE n # m
    <2>1. pc'[n] = pc[n] /\ state'[n] = state[n] /\ (n \in sending' <=> n \in sending)
        BY <1>2 DEF MainLoop, boot, EnsureGenesis, WaitForFatal, fetchFirst, statusFails,
                    statusArrives, passClusterLock, statusAfterFails, statusAfterArrives,
                    fetchNext, loadMeasures, setState, Goes, TypeOK
    <2> QED BY <2>1 DEF Pending
<1> QED BY <1>1, <1>2

\* updateNodeLists takes the lock with at most three changes pending for each
\* node, and while it has the lock no node gets more to announce, for any number
\* of nodes.
THEOREM ScansAreBounded == Spec => ScanBounded
<1> DEFINE Sent(n) == IF n \in sending \ sending' THEN 1 ELSE 0
           Bound   == ClusterLocked' => \A n \in Nodes :
                          Pending(n)' + Sent(n) <= IF ClusterLocked THEN Pending(n) ELSE 3
<1>1. ASSUME ClusterInv, [Next]_vars PROVE Bound
    <2> SUFFICES ASSUME ClusterLocked', NEW n \in Nodes
                 PROVE  Pending(n)' + Sent(n) <= IF ClusterLocked THEN Pending(n) ELSE 3
        OBVIOUS
    <2>1. TypeOK /\ BootInv /\ SendInv /\ SendInv'
        BY <1>1, ClusterStep DEF ClusterInv
    <2>2. Pending(n) \in 0 .. 3
        BY <2>1, PendingAtMostThree
    <2>3. ASSUME UNCHANGED <<pc, state, sending>>
          PROVE  Pending(n)' = Pending(n) /\ Sent(n) = 0
        BY <2>3 DEF Pending
    <2>4. CASE StateChangeMonitor \/ UNCHANGED vars
        <3>1. UNCHANGED <<pc, state, sending>>
            BY <2>4 DEF StateChangeMonitor, stateChange, lockCluster, scanNode, storeArch,
                        updateNodeLists, nodeVars, vars
        <3> QED BY <2>2, <2>3, <3>1
    <2>5. ASSUME NEW m \in Nodes, MainLoop(m) \/ loadMeasures(m)
          PROVE  Pending(n)' + Sent(n) <= IF ClusterLocked THEN Pending(n) ELSE 3
        <3>1. ClusterLocked
            BY <2>5 DEF MainLoop, boot, EnsureGenesis, WaitForFatal, fetchFirst, statusFails,
                        statusArrives, passClusterLock, statusAfterFails, statusAfterArrives,
                        fetchNext, loadMeasures, monVars, ClusterLocked
        <3>2. Pending(n)' <= Pending(n) /\ Sent(n) = 0
            BY <2>1, <2>5, <3>1, PendingShrinks
        <3>3. Pending(n)' \in Int
            BY DEF Pending
        <3> HIDE DEF Sent
        <3> QED BY <2>2, <3>1, <3>2, <3>3
    <2>6. ASSUME NEW m \in Nodes, StateUpdate(m)
          PROVE  Pending(n)' + Sent(n) <= IF ClusterLocked THEN Pending(n) ELSE 3
        <3>1. /\ ClusterLocked /\ UNCHANGED <<pc, state>>
              /\ sending' = sending \ {m}
            BY <2>6 DEF StateUpdate, monVars, ClusterLocked
        <3> QED BY <3>1 DEF Pending
    <2> QED BY <1>1, <2>4, <2>5, <2>6 DEF Next
<1> QED BY <1>1, ClusterInvariant, PTL DEF Spec, ScanBounded

\* The circular wait of updateNodeLists and setState has no way out, and the lists
\* stay as they were, for any number of nodes and any capacity of cState.
THEOREM StuckIsFinal == Spec => StuckStays
<1>1. ASSUME ClusterInv, [Next]_vars, Stuck PROVE Stuck' /\ UNCHANGED listVars
    <2>1. mon = "scan" /\ cState = CStateSize /\ next \in sending /\ next \in Nodes
        BY <1>1 DEF Stuck, ClusterInv, TypeOK
    <2>2. ASSUME NEW n \in Nodes, MainLoop(n) \/ loadMeasures(n)
          PROVE  UNCHANGED <<cState, monVars, listVars>> /\ sending \subseteq sending'
        BY <2>2 DEF MainLoop, boot, EnsureGenesis, WaitForFatal, fetchFirst, statusFails,
                    statusArrives, passClusterLock, statusAfterFails, statusAfterArrives,
                    fetchNext, loadMeasures, setState
    <2>3. ASSUME NEW n \in Nodes, StateUpdate(n) PROVE FALSE
        BY <2>1, <2>3, ClusterAssumption DEF StateUpdate
    <2>4. ~StateChangeMonitor
        <3>1. ~(next > NodeCount)
            BY <2>1, ClusterAssumption DEF Nodes
        <3> QED BY <2>1, <3>1 DEF StateChangeMonitor, stateChange, lockCluster, scanNode,
                                  storeArch, updateNodeLists
    <2>5. ASSUME UNCHANGED vars
          PROVE  UNCHANGED <<cState, monVars, listVars>> /\ sending \subseteq sending'
        BY <2>5 DEF vars, nodeVars
    <2>6. UNCHANGED <<cState, monVars, listVars>> /\ sending \subseteq sending'
        BY <1>1, <2>2, <2>3, <2>4, <2>5 DEF Next
    <2> QED BY <2>1, <2>6 DEF Stuck, monVars
<1> QED BY <1>1, ClusterInvariant, PTL DEF Spec, StuckStays

\* A step of a node is one of NodeLists: the node gets in sync or out of it, or
\* turns archival while it boots, or nothing changes that the lists depend on.
LEMMA NodeMaps ==
    ASSUME TypeOK, BootInv, NEW n \in Nodes, MainLoop(n)
    PROVE  Promise!NodeChanges(n) \/ UNCHANGED Promise!listsVars
<1> DEFINE inSync == {m \in Nodes : state[m] = "Synced"}
           arch   == {m \in Nodes : ~Catchup[m]}
           Same   == UNCHANGED <<mon, next, kind, sorted, catchupNodes, archNodes>>
           Goal   == Promise!NodeChanges(n) \/ UNCHANGED Promise!listsVars
<1> USE DEF Promise!NodeChanges, Promise!Sync, Promise!Unsync, Promise!TurnArchival,
            Promise!listsVars, Promise!nodeFlags, Promise!lists
<1>1. ASSUME NEW s \in ANState, setState(n, s), Catchup' = Catchup, Same PROVE Goal
    <2>1. state' = [state EXCEPT ![n] = s] /\ state \in [Nodes -> ANState] /\ arch' = arch
        BY <1>1 DEF setState, TypeOK
    <2>2. CASE s = "Synced" /\ state[n] # "Synced"
        <3>1. n \notin inSync /\ inSync' = inSync \cup {n}
            BY <2>1, <2>2
        <3> QED BY <1>1, <2>1, <3>1
    <2>3. CASE s # "Synced" /\ state[n] = "Synced"
        <3>1. n \in inSync /\ inSync' = inSync \ {n}
            BY <2>1, <2>3
        <3> QED BY <1>1, <2>1, <3>1
    <2>4. CASE (s = "Synced") <=> (state[n] = "Synced")
        <3>1. inSync' = inSync
            BY <2>1, <2>4
        <3> QED BY <1>1, <2>1, <3>1
    <2> QED BY <2>2, <2>3, <2>4
<1>2. ASSUME UNCHANGED <<state, Catchup>>, Same PROVE Goal
    BY <1>2
<1>3. CASE fetchFirst(n)
    <2>1. n \notin inSync /\ state' = state /\ Same
        BY <1>3 DEF fetchFirst, Runs, BootInv, monVars, listVars
    <2>2. arch' = arch \/ arch' = arch \cup {n}
        BY <1>3 DEF fetchFirst, TypeOK
    <2> QED BY <2>1, <2>2
<1> USE DEF monVars, listVars
<1>4. CASE boot(n)
    BY <1>1, <1>4 DEF boot, ANState
<1>5. CASE statusFails(n)
    BY <1>1, <1>5 DEF statusFails, ANState
<1>6. CASE statusArrives(n)
    BY <1>1, <1>6 DEF statusArrives, ANState
<1>7. CASE statusAfterFails(n)
    BY <1>1, <1>7 DEF statusAfterFails, ANState
<1>8. CASE statusAfterArrives(n)
    BY <1>1, <1>8 DEF statusAfterArrives, ANState
<1>9. CASE \E g \in Genesis : EnsureGenesis(n, g)
    BY <1>2, <1>9 DEF EnsureGenesis
<1>10. CASE WaitForFatal(n) \/ passClusterLock(n) \/ fetchNext(n)
    BY <1>2, <1>10 DEF WaitForFatal, passClusterLock, fetchNext
<1> QED
    BY <1>3, <1>4, <1>5, <1>6, <1>7, <1>8, <1>9, <1>10 DEF MainLoop

\* The two modules count alike.
LEMMA SameCardinality == \A S : Promise!Cardinality(S) = Cardinality(S)
<1> QED BY Zenon DEF Cardinality, Promise!Cardinality

\* A step of the monitor is one of NodeLists: it scans, and stores what it found.
LEMMA MonitorMaps ==
    ASSUME TypeOK, StoreInv, StateChangeMonitor
    PROVE  Promise!ListsNext \/ UNCHANGED Promise!listsVars
<1> USE DEF nodeVars, listVars, Promise!listsVars, Promise!nodeFlags, Promise!lists
<1>1. CASE stateChange
    BY <1>1 DEF stateChange
<1>2. CASE lockCluster
    <2>1. Promise!StartScan
        BY <1>2 DEF lockCluster, Promise!StartScan, Promise!NothingFound
    <2> QED BY <2>1 DEF Promise!ListsNext
<1>3. CASE scanNode
    <2>1. next \in Nodes /\ kind' = [kind EXCEPT ![next] = Promise!KindOf(next)]
        BY <1>3 DEF scanNode, Kind, Promise!KindOf, TypeOK
    <2>2. Promise!ScanNode(next)
        BY <1>3, <2>1 DEF scanNode, Promise!ScanNode
    <2> QED BY <2>1, <2>2 DEF Promise!ListsNext
<1>4. CASE storeArch
    <2>1. archNodes' \in Promise!ListsOf(Promise!FoundAs("arch"))
        BY <1>4, SameCardinality DEF storeArch, ByRTT, Orders, Listed, Promise!ListsOf, Promise!FoundAs,
                    Promise!Range
    <2>2. Promise!StoreArch
        BY <1>4, <2>1 DEF storeArch, Promise!StoreArch
    <2> QED BY <2>2 DEF Promise!ListsNext
<1>5. CASE updateNodeLists
    <2>1. catchupNodes' \in Promise!ListsOf(Promise!FoundAs("catchup"))
        BY <1>5, SameCardinality DEF updateNodeLists, StoreInv, Orders, Listed, Promise!ListsOf,
                    Promise!FoundAs, Promise!Range
    <2>2. Promise!StoreCatchup
        BY <1>5, <2>1 DEF updateNodeLists, Promise!StoreCatchup, Promise!NothingFound
    <2> QED BY <2>2 DEF Promise!ListsNext
<1> QED BY <1>1, <1>2, <1>3, <1>4, <1>5 DEF StateChangeMonitor

\* Every step of the cluster is one of NodeLists, or changes nothing of it.
LEMMA ClusterMaps ==
    ASSUME ClusterInv, [Next]_vars
    PROVE  Promise!ListsNext \/ UNCHANGED Promise!listsVars
<1>1. TypeOK /\ StoreInv /\ BootInv
    BY DEF ClusterInv
<1>2. ASSUME NEW n \in Nodes, MainLoop(n)
      PROVE  Promise!ListsNext \/ UNCHANGED Promise!listsVars
    BY <1>1, <1>2, NodeMaps DEF Promise!ListsNext
<1>3. ASSUME NEW n \in Nodes, StateUpdate(n) \/ loadMeasures(n)
      PROVE  UNCHANGED Promise!listsVars
    BY <1>3 DEF StateUpdate, loadMeasures, monVars, listVars, Promise!listsVars,
                Promise!nodeFlags, Promise!lists
<1>4. ASSUME UNCHANGED vars PROVE UNCHANGED Promise!listsVars
    BY <1>4 DEF vars, nodeVars, monVars, listVars, Promise!listsVars,
                Promise!nodeFlags, Promise!lists
<1> QED BY <1>1, <1>2, <1>3, <1>4, MonitorMaps DEF Next

\* The cluster keeps its promise to those who read the lists without the lock,
\* whatever the nodes do while updateNodeLists scans and stores.
THEOREM ListsPromise == Spec => ImplementsLists
<1>1. Init => Promise!ListsInit
    BY DEF Init, Promise!ListsInit, Promise!NothingFound
<1>2. ClusterInv /\ [Next]_vars => [Promise!ListsNext]_(Promise!listsVars)
    BY ClusterMaps
<1> QED
    BY <1>1, <1>2, ClusterInvariant, PTL DEF Spec, ImplementsLists, Promise!ListsSpec
=============================================================================
