--------------------------- MODULE StatusWaitProofs ---------------------------
(***************************************************************************)
(* Proofs about StatusWait, for any number of nodes, waiters and rounds:   *)
(* no nil status reaches the broadcaster, and a status that is submitted   *)
(* is at least at the round that made the cluster submit it.               *)
(***************************************************************************)
EXTENDS StatusWait, TLAPS

USE DEF clusterVars, busVars, waitVars

\* The initial state: no status anywhere.
LEMMA StatusInit == Init => StatusInv
<1> SUFFICES ASSUME Init PROVE StatusInv
    OBVIOUS
<1>1. TypeOK
    BY StatusAssumption DEF Init, TypeOK, Rounds, Receivers, Nil, Nobody
<1>2. ReachedInv
    BY DEF Init, ReachedInv
<1>3. StatusNeverNil
    BY DEF Init, StatusNeverNil
<1>4. SourceInv
    BY DEF Init, SourceInv
<1> QED BY <1>1, <1>2, <1>3, <1>4 DEF StatusInv

\* Every step keeps the types.
LEMMA TypeStep == TypeOK /\ [Next]_vars => TypeOK'
<1> SUFFICES ASSUME TypeOK, [Next]_vars PROVE TypeOK'
    OBVIOUS
<1>1. ASSUME NEW n \in Nodes, NEW r \in Rounds, BootStatus(n, r) PROVE TypeOK'
    BY <1>1 DEF BootStatus, TypeOK
<1>2. ASSUME NEW n \in Nodes, NEW r \in Rounds, MonitorStatus(n, r) PROVE TypeOK'
    <2>1. reached' \in [Nodes -> Rounds \cup {Nil}]
        BY <1>2, StatusAssumption DEF MonitorStatus, Fetch, TypeOK, Rounds, Nil
    <2> QED BY <1>2, <2>1 DEF MonitorStatus, TypeOK
<1>3. ASSUME NEW n \in Nodes, MonitorAsk(n) PROVE TypeOK'
    BY <1>3 DEF MonitorAsk, TypeOK
<1>4. ASSUME NEW n \in Nodes, MonitorFailed(n) PROVE TypeOK'
    BY <1>4 DEF MonitorFailed, TypeOK
<1>5. ASSUME NEW n \in Nodes, SetLatestRound(n) PROVE TypeOK'
    <2>1. input' \in Seq(Rounds \cup {Nil}) /\ Len(input') <= 1
        <3>1. lastStatus[n] \in Rounds \cup {Nil}
            BY DEF TypeOK
        <3>2. /\ <<lastStatus[n]>> \in Seq(Rounds \cup {Nil})
              /\ Len(<<lastStatus[n]>>) = 1
            BY <3>1
        <3>3. input' = <<lastStatus[n]>> \/ input' = input
            BY <1>5 DEF SetLatestRound
        <3>4. CASE input' = <<lastStatus[n]>>
            BY <3>2, <3>4
        <3>5. CASE input' = input
            BY <3>5 DEF TypeOK
        <3> QED BY <3>3, <3>4, <3>5
    <2>2. latestRound' \in Rounds /\ lastSrc' \in Nodes \cup {Nobody}
        BY <1>5 DEF SetLatestRound, TypeOK
    <2> QED BY <1>5, <2>1, <2>2 DEF SetLatestRound, TypeOK
<1>6. CASE Broadcast
    <2>1. msg' \in Rounds \cup {Nil}
        BY <1>6 DEF Broadcast, TypeOK
    <2>2. input' \in Seq(Rounds \cup {Nil}) /\ Len(input') <= 1
        BY <1>6 DEF Broadcast, TypeOK
    <2> QED BY <1>6, <2>1, <2>2 DEF Broadcast, Aim, TypeOK
<1>7. ASSUME NEW w \in Receivers, Register(w) PROVE TypeOK'
    BY <1>7 DEF Register, TypeOK
<1>8. ASSUME NEW w \in Receivers, Receive(w) PROVE TypeOK'
    <2>1. left' \subseteq Receivers /\ to' \in left' \cup {Nobody}
        BY <1>8 DEF Receive, Aim, TypeOK
    <2>2. /\ pc' \in [Receivers -> {"idle", "register", "select", "unregister", "done"}]
          /\ result' \in [Waiters -> Rounds \cup {Nil}]
        BY <1>8 DEF Receive, TypeOK, Receivers
    <2> QED BY <1>8, <2>1, <2>2 DEF Receive, TypeOK
<1>9. ASSUME NEW w \in Waiters, NEW r \in Rounds, StartWait(w, r) PROVE TypeOK'
    BY <1>9 DEF StartWait, TypeOK, Receivers
<1>10. ASSUME NEW w \in Waiters, Leave(w) PROVE TypeOK'
    BY <1>10 DEF Leave, TypeOK, Receivers
<1>11. ASSUME NEW w \in Waiters, Unregister(w) PROVE TypeOK'
    BY <1>11 DEF Unregister, TypeOK, Receivers
<1>12. ASSUME NEW w \in Waiters, Deadline(w) PROVE TypeOK'
    BY <1>12 DEF Deadline, TypeOK
<1>13. CASE UNCHANGED vars
    BY <1>13 DEF vars, TypeOK
<1> QED
    BY <1>1, <1>2, <1>3, <1>4, <1>5, <1>6, <1>7, <1>8, <1>9, <1>10, <1>11,
       <1>12, <1>13 DEF Next, NodeStep, ReceiverStep, WaiterStep

\* Every step keeps a node's status ahead of the round it is about to set.
LEMMA ReachedStep == TypeOK /\ ReachedInv /\ [Next]_vars => ReachedInv'
<1> SUFFICES ASSUME TypeOK, ReachedInv, [Next]_vars PROVE ReachedInv'
    OBVIOUS
<1>1. ASSUME NEW n \in Nodes, NEW r \in Rounds, BootStatus(n, r) PROVE ReachedInv'
    BY <1>1 DEF BootStatus, TypeOK, ReachedInv, Rounds
<1>2. ASSUME NEW n \in Nodes, NEW r \in Rounds, MonitorStatus(n, r) PROVE ReachedInv'
    <2> SUFFICES ASSUME NEW m \in Nodes, reached'[m] # Nil
                 PROVE  lr'[m] = Nil /\ lastStatus'[m] >= reached'[m]
        BY DEF ReachedInv
    <2>1. CASE m = n
        <3>1. reached[n] = Nil /\ lr[n] \in Rounds
            BY <1>2 DEF MonitorStatus, ReachedInv, TypeOK
        <3>2. lr'[n] = Nil /\ lastStatus'[n] = r
            BY <1>2 DEF MonitorStatus, TypeOK
        <3>3. reached'[n] = lr[n] + 1
            BY <1>2, <2>1, <3>1 DEF MonitorStatus, Fetch, TypeOK
        <3>4. r >= lr[n] + 1
            BY <1>2, <3>1 DEF MonitorStatus, Rounds
        <3> QED BY <2>1, <3>2, <3>3, <3>4
    <2>2. CASE m # n
        BY <1>2, <2>2 DEF MonitorStatus, Fetch, ReachedInv, TypeOK
    <2> QED BY <2>1, <2>2
<1>3. ASSUME NEW n \in Nodes, MonitorAsk(n) PROVE ReachedInv'
    BY <1>3 DEF MonitorAsk, TypeOK, ReachedInv
<1>4. ASSUME NEW n \in Nodes, MonitorFailed(n) PROVE ReachedInv'
    BY <1>4 DEF MonitorFailed, TypeOK, ReachedInv
<1>5. ASSUME NEW n \in Nodes, SetLatestRound(n) PROVE ReachedInv'
    BY <1>5 DEF SetLatestRound, TypeOK, ReachedInv
<1>6. CASE UNCHANGED clusterVars
    BY <1>6 DEF ReachedInv
<1>7. ASSUME Broadcast \/ (\E w \in Receivers : ReceiverStep(w)) \/ UNCHANGED vars
      PROVE  UNCHANGED clusterVars
    BY <1>7 DEF Broadcast, ReceiverStep, Register, Receive, vars
<1>8. ASSUME NEW w \in Waiters,
             (\E r \in Rounds : StartWait(w, r)) \/ WaiterStep(w) \/ Deadline(w)
      PROVE  UNCHANGED clusterVars
    BY <1>8 DEF StartWait, WaiterStep, Leave, Unregister, Deadline
<1> QED
    BY <1>1, <1>2, <1>3, <1>4, <1>5, <1>6, <1>7, <1>8 DEF Next, NodeStep

\* Every step keeps nil away from the broadcaster: what is submitted is at
\* least at a round.
LEMMA NeverNilStep ==
    TypeOK /\ ReachedInv /\ StatusNeverNil /\ [Next]_vars => StatusNeverNil'
<1> SUFFICES ASSUME TypeOK, ReachedInv, StatusNeverNil, [Next]_vars
             PROVE  StatusNeverNil'
    OBVIOUS
<1>1. ASSUME NEW n \in Nodes, NEW r \in Rounds, BootStatus(n, r) \/ MonitorStatus(n, r)
      PROVE  StatusNeverNil'
    <2>1. r # Nil
        BY DEF Rounds, Nil
    <2> QED BY <1>1, <2>1 DEF BootStatus, MonitorStatus, TypeOK, StatusNeverNil
<1>2. ASSUME NEW n \in Nodes, MonitorAsk(n) \/ MonitorFailed(n) PROVE StatusNeverNil'
    BY <1>2 DEF MonitorAsk, MonitorFailed, StatusNeverNil
<1>3. ASSUME NEW n \in Nodes, SetLatestRound(n) PROVE StatusNeverNil'
    <2>1. lastStatus[n] # Nil
        BY <1>3 DEF SetLatestRound, ReachedInv, TypeOK, Rounds, Nil
    <2>2. \A i \in DOMAIN input' : input'[i] # Nil
        BY <1>3, <2>1 DEF SetLatestRound, StatusNeverNil
    <2>3. lastSrc' # Nobody => lastStatus'[lastSrc'] # Nil
        BY <1>3, <2>1 DEF SetLatestRound, StatusNeverNil
    <2> QED BY <1>3, <2>2, <2>3 DEF SetLatestRound, StatusNeverNil
<1>4. CASE Broadcast
    <2>1. msg' # Nil
        BY <1>4 DEF Broadcast, StatusNeverNil, TypeOK
    <2>2. input' = <<>>
        BY <1>4 DEF Broadcast, TypeOK
    <2> QED BY <1>4, <2>1, <2>2 DEF Broadcast, StatusNeverNil
<1>5. ASSUME NEW w \in Receivers, Register(w) PROVE StatusNeverNil'
    BY <1>5 DEF Register, StatusNeverNil
<1>6. ASSUME NEW w \in Receivers, Receive(w) PROVE StatusNeverNil'
    <2>1. to # Nobody
        BY <1>6, StatusAssumption DEF Receive
    <2> QED BY <1>6, <2>1 DEF Receive, StatusNeverNil
<1>7. ASSUME NEW w \in Waiters,
             (\E r \in Rounds : StartWait(w, r)) \/ WaiterStep(w) \/ Deadline(w)
      PROVE  StatusNeverNil'
    BY <1>7 DEF StartWait, WaiterStep, Leave, Unregister, Deadline, StatusNeverNil
<1>8. CASE UNCHANGED vars
    BY <1>8 DEF vars, StatusNeverNil
<1> QED
    BY <1>1, <1>2, <1>3, <1>4, <1>5, <1>6, <1>7, <1>8
       DEF Next, NodeStep, ReceiverStep

\* The steps of the broadcaster and of the waiters leave the nodes alone.
LEMMA ClusterStays ==
    ASSUME [Next]_vars, ~ \E n \in Nodes : NodeStep(n)
    PROVE  UNCHANGED clusterVars
<1>1. ASSUME Broadcast \/ UNCHANGED vars PROVE UNCHANGED clusterVars
    BY <1>1 DEF Broadcast, vars
<1>2. ASSUME NEW w \in Receivers, ReceiverStep(w) PROVE UNCHANGED clusterVars
    BY <1>2 DEF ReceiverStep, Register, Receive
<1>3. ASSUME NEW w \in Waiters,
             (\E r \in Rounds : StartWait(w, r)) \/ WaiterStep(w) \/ Deadline(w)
      PROVE  UNCHANGED clusterVars
    BY <1>3 DEF StartWait, WaiterStep, Leave, Unregister, Deadline
<1> QED BY <1>1, <1>2, <1>3 DEF Next

\* Every step keeps the source's question at the latest round: whoever sets a
\* later round has no question open, and becomes the source.
LEMMA SourceStep ==
    TypeOK /\ ReachedInv /\ SourceInv /\ [Next]_vars => SourceInv'
<1> SUFFICES ASSUME TypeOK, ReachedInv, SourceInv, [Next]_vars PROVE SourceInv'
    OBVIOUS
<1>1. lastSrc \in Nodes \cup {Nobody} /\ lr \in [Nodes -> Rounds \cup {Nil}]
    BY DEF TypeOK
<1>2. ASSUME NEW n \in Nodes, NEW r \in Rounds, BootStatus(n, r) PROVE SourceInv'
    BY <1>2 DEF BootStatus, SourceInv
<1>3. ASSUME NEW n \in Nodes, NEW r \in Rounds, MonitorStatus(n, r) PROVE SourceInv'
    BY <1>1, <1>3 DEF MonitorStatus, SourceInv
<1>4. ASSUME NEW n \in Nodes, MonitorAsk(n) \/ MonitorFailed(n) PROVE SourceInv'
    BY <1>1, <1>4 DEF MonitorAsk, MonitorFailed, SourceInv
<1>5. ASSUME NEW n \in Nodes, SetLatestRound(n) PROVE SourceInv'
    BY <1>1, <1>5 DEF SetLatestRound, ReachedInv, SourceInv
<1>6. CASE UNCHANGED clusterVars
    BY <1>6 DEF SourceInv
<1> QED BY <1>2, <1>3, <1>4, <1>5, <1>6, ClusterStays DEF NodeStep

\* The inductive invariant holds in every reachable state.
THEOREM StatusInvariant == Spec => []StatusInv
<1>1. StatusInv /\ [Next]_vars => StatusInv'
    BY TypeStep, ReachedStep, NeverNilStep, SourceStep DEF StatusInv
<1> QED BY <1>1, StatusInit, PTL DEF Spec

\* The rounds, the channel of announcements and the waits keep their types.
THEOREM StatusTypes == Spec => []TypeOK
<1>1. StatusInv => TypeOK
    BY DEF StatusInv
<1> QED BY <1>1, StatusInvariant, PTL

\* SetLatestRound never submits a nil status and WaitForStatusAfter never
\* returns that of a node without one.
THEOREM NoNilStatus == Spec => []StatusNeverNil
<1>1. StatusInv => StatusNeverNil
    BY DEF StatusInv
<1> QED BY <1>1, StatusInvariant, PTL

\* The status SetLatestRound submits is at least at the round it sets, so that
\* it wakes every waiter that the round should wake.
THEOREM RoundsAnnounced == Spec => AnnouncesRound
<1>1. ASSUME StatusInv, [Next]_vars
      PROVE  [(latestRound' > latestRound /\ input' # input)
                => input'[1] >= latestRound']_vars
    <2> SUFFICES ASSUME latestRound' > latestRound, input' # input
                 PROVE  input'[1] >= latestRound'
        OBVIOUS
    <2>1. latestRound' # latestRound
        <3>1. latestRound \in Int /\ latestRound' \in Int
            BY <1>1, TypeStep DEF StatusInv, TypeOK, Rounds
        <3> QED BY <3>1
    <2>2. ASSUME ~\E n \in Nodes : SetLatestRound(n) PROVE latestRound' = latestRound
        <3>1. ASSUME NEW n \in Nodes, NodeStep(n) PROVE latestRound' = latestRound
            BY <2>2, <3>1 DEF NodeStep, BootStatus, MonitorStatus, MonitorAsk,
                              MonitorFailed
        <3> QED BY <1>1, <3>1, ClusterStays
    <2>3. PICK n \in Nodes : SetLatestRound(n)
        BY <2>1, <2>2
    <2>4. latestRound' = reached[n] /\ input' = <<lastStatus[n]>>
        BY <2>1, <2>3 DEF SetLatestRound
    <2>5. lastStatus[n] >= reached[n]
        BY <1>1, <2>3 DEF SetLatestRound, StatusInv, ReachedInv
    <2> QED BY <2>4, <2>5
<1> QED BY <1>1, StatusInvariant, PTL DEF Spec, AnnouncesRound

\* The status that the fast path of WaitForStatusAfter answers with falls behind
\* the latest round only when the node that set the round boots again, for any
\* number of nodes that set rounds meanwhile.
THEOREM StaleNeedsReboot == Spec => StaleOnlyByReboot
<1> DEFINE Reboots == \E n \in Nodes, r \in Rounds : n = lastSrc /\ BootStatus(n, r)
           Keeps   == (lastSrc # Nobody /\ lastStatus[lastSrc] >= latestRound /\ ~Reboots)
                          => lastStatus'[lastSrc'] >= latestRound'
<1>1. ASSUME StatusInv, [Next]_vars PROVE Keeps
    <2> SUFFICES ASSUME lastSrc # Nobody, lastStatus[lastSrc] >= latestRound, ~Reboots
                 PROVE  lastStatus'[lastSrc'] >= latestRound'
        OBVIOUS
    <2>1. /\ lastSrc \in Nodes /\ latestRound \in Rounds
          /\ lastStatus \in [Nodes -> Rounds \cup {Nil}] /\ lr \in [Nodes -> Rounds \cup {Nil}]
          /\ \A r \in Rounds : r \in Int
        BY <1>1 DEF StatusInv, TypeOK, Rounds
    <2>2. ASSUME NEW n \in Nodes, NEW r \in Rounds, BootStatus(n, r)
          PROVE  lastStatus'[lastSrc'] >= latestRound'
        <3>1. n # lastSrc
            BY <2>2
        <3> QED BY <2>1, <2>2, <3>1 DEF BootStatus
    <2>3. ASSUME NEW n \in Nodes, NEW r \in Rounds, MonitorStatus(n, r)
          PROVE  lastStatus'[lastSrc'] >= latestRound'
        <3>1. CASE n = lastSrc
            <4>1. lr[n] = latestRound
                BY <1>1, <2>3, <3>1 DEF MonitorStatus, StatusInv, SourceInv
            <4>2. lastStatus'[lastSrc'] = r /\ latestRound' = latestRound /\ r > lr[n]
                BY <2>1, <2>3, <3>1 DEF MonitorStatus
            <4> QED BY <2>1, <4>1, <4>2
        <3>2. CASE n # lastSrc
            BY <2>1, <2>3, <3>2 DEF MonitorStatus
        <3> QED BY <3>1, <3>2
    <2>4. ASSUME NEW n \in Nodes, MonitorAsk(n) \/ MonitorFailed(n)
          PROVE  lastStatus'[lastSrc'] >= latestRound'
        BY <2>4 DEF MonitorAsk, MonitorFailed
    <2>5. ASSUME NEW n \in Nodes, SetLatestRound(n)
          PROVE  lastStatus'[lastSrc'] >= latestRound'
        BY <1>1, <2>5 DEF SetLatestRound, StatusInv, ReachedInv
    <2>6. CASE UNCHANGED clusterVars
        BY <2>6
    <2> QED BY <1>1, <2>2, <2>3, <2>4, <2>5, <2>6, ClusterStays DEF NodeStep
<1> QED BY <1>1, StatusInvariant, PTL DEF Spec, StaleOnlyByReboot

\* Once the broadcaster waits for a waiter that waits to be unregistered, no step
\* of anybody ends it: for any number of nodes, waiters and rounds.
THEOREM WedgeIsFinal == Spec => WedgedStays
<1> DEFINE Same == UNCHANGED <<outputs, msg, left, to>>
<1>1. ASSUME StatusInv, [Next]_vars, Wedged PROVE Wedged' /\ Same
    <2>1. PICK w \in Waiters : to = w /\ pc[w] = "unregister"
        BY <1>1 DEF Wedged
    <2>2. w \in Receivers /\ ~Idle /\ pc \in [Receivers -> {"idle", "register", "select", "unregister", "done"}]
        BY <1>1, <2>1, StatusAssumption DEF Idle, StatusInv, TypeOK, Receivers
    <2>3. pc'[w] = pc[w] /\ Same
        <3>1. ASSUME NEW n \in Nodes, NodeStep(n) PROVE pc'[w] = pc[w] /\ Same
            BY <3>1 DEF NodeStep, BootStatus, MonitorStatus, MonitorAsk, MonitorFailed,
                        SetLatestRound
        <3>2. ASSUME NEW v \in Receivers, ReceiverStep(v) PROVE FALSE
            BY <2>1, <2>2, <3>2 DEF ReceiverStep, Register, Receive
        <3>3. ASSUME NEW v \in Waiters, NEW r \in Rounds, StartWait(v, r)
              PROVE  pc'[w] = pc[w] /\ Same
            BY <2>1, <2>2, <3>3 DEF StartWait, Receivers
        <3>4. ASSUME NEW v \in Waiters, WaiterStep(v) \/ Deadline(v)
              PROVE  pc'[w] = pc[w] /\ Same
            BY <2>1, <2>2, <3>4 DEF WaiterStep, Leave, Unregister, Deadline, Receivers
        <3>5. ASSUME Broadcast \/ UNCHANGED vars PROVE pc'[w] = pc[w] /\ Same
            BY <2>2, <3>5 DEF Broadcast, vars
        <3> QED BY <1>1, <3>1, <3>2, <3>3, <3>4, <3>5 DEF Next
    <2> QED BY <2>1, <2>3 DEF Wedged
<1> QED BY <1>1, StatusInvariant, PTL DEF Spec, WedgedStays
=============================================================================
