---------------------------- MODULE GatewayProofs ----------------------------
(***************************************************************************)
(* Proofs about Gateway, for any finite set of nodes and any set of        *)
(* requests and loads: GatewayInv is inductive.                            *)
(***************************************************************************)
EXTENDS Gateway, FiniteSetTheorems, SequenceTheorems, TLAPS

-----------------------------------------------------------------------------
(* Sequences *)

\* The members of a list that is put together.
LEMMA MembersConcat ==
    ASSUME NEW S, NEW s \in Seq(S), NEW t \in Seq(S)
    PROVE  Members(s \o t) = Members(s) \cup Members(t)
<1>1. Members(s \o t) \subseteq Members(s) \cup Members(t)
    BY DEF Members
<1>2. ASSUME NEW i \in DOMAIN s PROVE s[i] \in Members(s \o t)
    <2>1. i \in DOMAIN (s \o t) /\ (s \o t)[i] = s[i]
        OBVIOUS
    <2> QED BY <2>1 DEF Members
<1>3. ASSUME NEW i \in DOMAIN t PROVE t[i] \in Members(s \o t)
    <2>1. Len(s) + i \in DOMAIN (s \o t) /\ (s \o t)[Len(s) + i] = t[i]
        OBVIOUS
    <2> QED BY <2>1 DEF Members
<1> QED BY <1>1, <1>2, <1>3 DEF Members

\* The members of a list are its first one and the rest.
LEMMA MembersTail ==
    ASSUME NEW S, NEW s \in Seq(S), s # <<>>
    PROVE  /\ Tail(s) \in Seq(S) /\ s[1] \in S
           /\ Members(s) = {s[1]} \cup Members(Tail(s))
<1>1. Tail(s) \in Seq(S) /\ 1 \in DOMAIN s /\ s[1] \in S
    OBVIOUS
<1>2. ASSUME NEW i \in DOMAIN s, i # 1 PROVE s[i] \in Members(Tail(s))
    <2>1. i - 1 \in DOMAIN Tail(s) /\ Tail(s)[i - 1] = s[i]
        BY <1>2
    <2> QED BY <2>1 DEF Members
<1>3. ASSUME NEW i \in DOMAIN Tail(s) PROVE Tail(s)[i] \in Members(s)
    <2>1. i + 1 \in DOMAIN s /\ Tail(s)[i] = s[i + 1]
        OBVIOUS
    <2> QED BY <2>1 DEF Members
<1> QED BY <1>1, <1>2, <1>3 DEF Members

\* A slice with its own length is the list; with another one it may have Junk.
LEMMA SliceFacts ==
    ASSUME NEW arr \in Seq(Nodes), NEW k \in Nat
    PROVE  /\ Slice(arr, k) \in Seq(Nodes \cup {Junk})
           /\ k = Len(arr) => Slice(arr, k) = arr
<1>1. \A i \in 1 .. k : (IF i <= Len(arr) THEN arr[i] ELSE Junk) \in Nodes \cup {Junk}
    OBVIOUS
<1> QED BY <1>1 DEF Slice

\* A list of a set of nodes is a sequence of its members.
LEMMA ListsOfFacts ==
    ASSUME NEW S, S \subseteq Nodes, NEW list \in ListsOf(S)
    PROVE  list \in Seq(Nodes) /\ Members(list) = S
<1>1. Cardinality(S) \in Nat
    BY GatewayAssumption, FS_Subset, FS_CardinalityType
<1>2. list \in [1 .. Cardinality(S) -> S] /\ Members(list) = S
    BY DEF ListsOf, Range, Members
<1> QED BY <1>1, <1>2

-----------------------------------------------------------------------------
(* The lists *)

LEMMA ListsStep ==
    ASSUME ListsTypeOK, ArchInv, ListsNext
    PROVE  ListsTypeOK' /\ ArchInv'
<1> USE DEF ListsTypeOK, ArchInv, nodeFlags, lists
<1>1. ASSUME NEW n \in Nodes, NodeChanges(n) PROVE ListsTypeOK' /\ ArchInv'
    BY <1>1 DEF NodeChanges, Sync, Unsync, TurnArchival
<1>2. ASSUME NEW n \in Nodes, ScanNode(n) PROVE ListsTypeOK' /\ ArchInv'
    BY <1>2 DEF ScanNode, KindOf
<1>3. CASE StartScan
    BY <1>3 DEF StartScan, NothingFound
<1>4. CASE StoreArch
    <2>1. archNodes' \in Seq(Nodes) /\ Members(archNodes') = FoundAs("arch")
        BY <1>4, ListsOfFacts DEF StoreArch, FoundAs
    <2> QED BY <1>4, <2>1 DEF StoreArch, FoundAs, Members
<1>5. CASE StoreCatchup
    <2>1. catchupNodes' \in Seq(Nodes)
        BY <1>5, ListsOfFacts DEF StoreCatchup, FoundAs
    <2>2. \A i \in DOMAIN archNodes : archNodes[i] \in Nodes
        OBVIOUS
    <2> QED BY <1>5, <2>1, <2>2 DEF StoreCatchup, NothingFound
<1> QED BY <1>1, <1>2, <1>3, <1>4, <1>5 DEF ListsNext

\* What a change of the lists does to a node that is in archNodes: it is not put
\* into catchupNodes.
LEMMA ListsKeep ==
    ASSUME ListsTypeOK, ArchInv, ListsNext
    PROVE  \A n \in Members(archNodes) :
              /\ n \in Members(catchupNodes') => n \in Members(catchupNodes)
              /\ n \in Members(archNodes') \/ UNCHANGED catchupNodes
<1>1. CASE UNCHANGED <<catchupNodes, archNodes>>
    BY <1>1 DEF Members
<1>2. CASE StoreArch
    BY <1>2 DEF StoreArch, Members
<1>3. CASE StoreCatchup
    <2>1. Members(catchupNodes') = FoundAs("catchup")
        BY <1>3, ListsOfFacts DEF StoreCatchup, FoundAs, ListsTypeOK
    <2> QED BY <1>3, <2>1 DEF StoreCatchup, ArchInv, FoundAs, Members
<1> QED
    BY <1>1, <1>2, <1>3 DEF ListsNext, NodeChanges, ScanNode, StartScan, lists

-----------------------------------------------------------------------------
(* The invariant *)

LEMMA GatewayInitially == GatewayInit => GatewayInv
<1> SUFFICES ASSUME GatewayInit PROVE GatewayInv
    OBVIOUS
<1>1. ListsTypeOK /\ ArchInv
    BY DEF GatewayInit, ListsInit, ListsTypeOK, ArchInv, NothingFound
<1>2. GatewayTypeOK
    <2>1. array \in [Tasks -> Seq(Nodes)] /\ nodes \in [Tasks -> Seq(Nodes \cup {Junk})]
        BY DEF GatewayInit
    <2>2. /\ kind \in [Tasks -> {"proxy", "recent", "old"}]
          /\ at \in [Tasks -> {"idle", "read", "length", "walk", "write", "done"}]
          /\ source \in [Tasks -> {"none", "catchup", "arch"}]
          /\ answer \in [Tasks -> Outcomes] /\ writes \in [Tasks -> Nat]
        BY DEF GatewayInit, Outcomes
    <2>3. /\ tried \in [Tasks -> SUBSET Nodes] /\ steady \in [Tasks -> SUBSET Nodes]
          /\ torn \in [Tasks -> BOOLEAN] /\ crashed \in BOOLEAN
        BY DEF GatewayInit
    <2> QED BY <1>1, <2>1, <2>2, <2>3 DEF GatewayTypeOK
<1>3. SteadyInv /\ ReadInv /\ OneAnswer /\ RefusedAfterAll
    BY DEF GatewayInit, SteadyInv, ReadInv, OneAnswer, RefusedAfterAll
<1> QED BY <1>1, <1>2, <1>3 DEF GatewayInv

\* A step of the cluster: what a task counts on stays where it was.
LEMMA ClusterStepKeeps == GatewayInv /\ ClusterStep => GatewayInv'
<1> SUFFICES ASSUME GatewayInv, ClusterStep PROVE GatewayInv'
    OBVIOUS
<1>1. /\ GatewayTypeOK /\ ListsTypeOK /\ ArchInv /\ SteadyInv /\ ReadInv
      /\ OneAnswer /\ RefusedAfterAll
    BY DEF GatewayInv, GatewayTypeOK
<1>2. /\ ListsNext
      /\ UNCHANGED <<kind, at, source, array, nodes, tried, torn, answer, writes, crashed>>
    BY DEF ClusterStep
<1>3. ListsTypeOK' /\ ArchInv'
    BY <1>1, <1>2, ListsStep
<1>4. \A w \in Tasks : /\ steady'[w] \subseteq steady[w]
                       /\ source[w] # "none" => steady'[w] \subseteq AllListed'
                       /\ (source[w] # "none" /\ kind[w] = "old")
                             => steady'[w] \subseteq Members(archNodes')
    BY DEF ClusterStep, AllListed
<1>5. steady' \in [Tasks -> SUBSET Nodes]
    <2>1. steady' = [w \in Tasks |-> steady'[w]]
        BY DEF ClusterStep
    <2> QED BY <1>1, <1>4, <2>1 DEF GatewayTypeOK
<1>6. GatewayTypeOK'
    BY <1>1, <1>2, <1>3, <1>5 DEF GatewayTypeOK
<1>7. ASSUME NEW w \in Tasks, NEW n \in steady'[w], source[w] # "none", Ahead(w, n)
      PROVE  Ahead(w, n)'
    <2>1. n \in Members(archNodes)
        BY <1>7 DEF Ahead
    <2>2. /\ n \in Members(catchupNodes') => n \in Members(catchupNodes)
          /\ n \in Members(archNodes') \/ UNCHANGED catchupNodes
        BY <1>1, <1>2, <2>1, ListsKeep
    <2>3. n \in AllListed'
        BY <1>4, <1>7
    <2> QED BY <1>2, <1>4, <1>7, <2>2, <2>3 DEF Ahead, AllListed
<1>8. SteadyInv'
    BY <1>1, <1>2, <1>4, <1>7 DEF SteadyInv, ReadInv
<1>9. RefusedAfterAll'
    BY <1>1, <1>2, <1>4 DEF RefusedAfterAll
<1>10. ReadInv' /\ OneAnswer'
    BY <1>1, <1>2 DEF ReadInv, OneAnswer
<1> QED BY <1>3, <1>6, <1>8, <1>9, <1>10 DEF GatewayInv

\* What GatewayInv says of one task.
TaskInv(w) ==
    /\ ~torn[w] => \A n \in steady[w] :
          /\ source[w] = "catchup" =>
                /\ n \in AllListed
                /\ at[w] = "length" => n \in Members(array[w]) \/ Ahead(w, n)
          /\ source[w] = "arch" =>
                \/ n \in tried[w] \cup Members(nodes[w])
                \/ Ahead(w, n) /\ (at[w] = "length" => n \in Members(array[w]))
          /\ at[w] = "walk" /\ source[w] = "none" => n \in tried[w] \cup Members(nodes[w])
    /\ at[w] \in {"idle", "write", "done"} => source[w] = "none"
    /\ at[w] \in {"read", "length"} => source[w] # "none"
    /\ at[w] = "walk" => source[w] # "catchup"
    /\ at[w] = "walk" /\ kind[w] = "proxy" => source[w] = "none"
    /\ kind[w] = "old" => source[w] # "catchup"
    /\ answer[w] # "none" => at[w] \in {"write", "done"}
    /\ writes[w] = IF kind[w] = "proxy" /\ at[w] \in {"write", "done"} THEN 1 ELSE 0
    /\ (answer[w] \in {"gaveup", "upstream"} /\ ~torn[w]) => steady[w] \subseteq tried[w]

LEMMA ByTask ==
    GatewayInv <=> GatewayTypeOK /\ ArchInv /\ \A w \in Tasks : TaskInv(w)
<1> QED BY DEF GatewayInv, TaskInv, SteadyInv, ReadInv, OneAnswer, RefusedAfterAll

\* Only w does a step.
Alone(w) ==
    /\ UNCHANGED listsVars
    /\ \A v \in Tasks \ {w} :
          /\ kind'[v] = kind[v] /\ at'[v] = at[v] /\ source'[v] = source[v]
          /\ array'[v] = array[v] /\ nodes'[v] = nodes[v] /\ tried'[v] = tried[v]
          /\ steady'[v] = steady[v] /\ torn'[v] = torn[v] /\ answer'[v] = answer[v]
          /\ writes'[v] = writes[v]

\* It is enough to look at the task that does the step.
LEMMA OneTask ==
    ASSUME GatewayInv, NEW w \in Tasks, Alone(w), GatewayTypeOK', TaskInv(w)'
    PROVE  GatewayInv'
<1>1. GatewayTypeOK /\ ArchInv /\ \A v \in Tasks : TaskInv(v)
    BY ByTask
<1>2. UNCHANGED <<catchupNodes, archNodes, found, archival>>
    BY DEF Alone, listsVars, lists, nodeFlags
<1>3. ASSUME NEW v \in Tasks \ {w} PROVE TaskInv(v)'
    <2>1. TaskInv(v)
        BY <1>1
    <2> QED BY <1>2, <1>3, <2>1 DEF Alone, TaskInv, Ahead, AllListed, Members
<1>4. ArchInv'
    BY <1>1, <1>2 DEF ArchInv
<1>5. \A v \in Tasks : TaskInv(v)'
    BY <1>3
<1> QED
    BY <1>4, <1>5 DEF GatewayInv, TaskInv, SteadyInv, ReadInv, OneAnswer, RefusedAfterAll

-----------------------------------------------------------------------------
(* The steps of a task *)

\* A task starts to read: all that is listed now is before it.
LEMMA StartKeeps ==
    ASSUME GatewayInv, NEW w \in Tasks,
           AnswerHere(w) \/ \E k \in {"proxy", "recent", "old"} : Start(w, k)
    PROVE  GatewayInv'
<1>1. GatewayTypeOK /\ ListsTypeOK /\ TaskInv(w)
    BY ByTask DEF GatewayTypeOK
<1>2. Members(catchupNodes) \subseteq Nodes /\ Members(archNodes) \subseteq Nodes
    BY <1>1 DEF ListsTypeOK, Members
<1>3. CASE AnswerHere(w)
    <2>1. PICK s \in {"200", "204", "400", "401", "404", "405", "429", "500", "503"} : Finish(w, "proxy", s)
        BY <1>3 DEF AnswerHere, Answers, HandlerAnswers
    <2>2. Alone(w) /\ at[w] = "idle" /\ ~crashed
        BY <1>1, <1>3, <2>1 DEF AnswerHere, Finish, Alone, GatewayTypeOK
    <2>3. GatewayTypeOK'
        BY <1>1, <1>3, <2>1
           DEF AnswerHere, Finish, Handled, GatewayTypeOK, ListsTypeOK, listsVars, lists,
               nodeFlags, Outcomes
    <2>4. TaskInv(w)'
        BY <1>1, <1>3, <2>1 DEF AnswerHere, Finish, Handled, TaskInv, GatewayTypeOK
    <2> QED BY <1>3, <2>2, <2>3, <2>4, OneTask DEF AnswerHere
<1>4. ASSUME NEW k \in {"proxy", "recent", "old"}, Start(w, k) PROVE GatewayInv'
    <2>1. Alone(w) /\ at[w] = "idle" /\ ~crashed
        BY <1>1, <1>4 DEF Start, Alone, GatewayTypeOK
    <2>2. GatewayTypeOK'
        BY <1>1, <1>2, <1>4
           DEF Start, AllListed, GatewayTypeOK, ListsTypeOK, listsVars, lists, nodeFlags
    <2>3. UNCHANGED <<catchupNodes, archNodes, torn, crashed, nodes, writes, answer>>
        BY <1>4 DEF Start, listsVars, lists
    <2>4. /\ kind'[w] = k /\ at'[w] = "read"
          /\ source'[w] = IF k = "old" THEN "arch" ELSE "catchup"
          /\ steady'[w] = IF k = "old" THEN Members(archNodes) ELSE AllListed
        BY <1>1, <1>4 DEF Start, GatewayTypeOK
    <2>5. TaskInv(w)'
        BY <1>1, <2>1, <2>3, <2>4 DEF TaskInv, Ahead, AllListed
    <2> QED BY <2>1, <2>2, <2>3, <2>5, OneTask
<1> QED BY <1>3, <1>4

LEMMA ReadArrayKeeps ==
    ASSUME GatewayInv, NEW w \in Tasks, ReadArray(w)
    PROVE  GatewayInv'
<1>1. GatewayTypeOK /\ ListsTypeOK /\ TaskInv(w)
    BY ByTask DEF GatewayTypeOK
<1>2. /\ UNCHANGED <<listsVars, kind, source, nodes, tried, steady, torn, answer, writes,
                      crashed>>
      /\ at[w] = "read" /\ at' = [at EXCEPT ![w] = "length"]
      /\ array' = [array EXCEPT ![w] = ListAt(w)]
    BY DEF ReadArray
<1>3. UNCHANGED <<catchupNodes, archNodes>>
    BY <1>2 DEF listsVars, lists
<1>4. Alone(w)
    BY <1>1, <1>2 DEF Alone, GatewayTypeOK
<1>5. GatewayTypeOK'
    BY <1>1, <1>2 DEF GatewayTypeOK, ListsTypeOK, listsVars, lists, nodeFlags, ListAt
<1>6. array'[w] = ListAt(w) /\ at'[w] = "length"
    BY <1>1, <1>2 DEF GatewayTypeOK
<1>7. TaskInv(w)'
    BY <1>1, <1>2, <1>3, <1>6 DEF TaskInv, ListAt, Ahead, AllListed
<1> QED BY <1>2, <1>4, <1>5, <1>7, OneTask

\* The length is read.  If it is that of the array, no node is missed: one that
\* is not in the list just read is in archNodes and stays there.
LEMMA ReadLengthKeeps ==
    ASSUME GatewayInv, NEW w \in Tasks, ReadLength(w)
    PROVE  GatewayInv'
<1> DEFINE now == ListAt(w)
           arr == array[w]
<1>1. GatewayTypeOK /\ ListsTypeOK /\ TaskInv(w)
    BY ByTask DEF GatewayTypeOK
<1>2. now \in Seq(Nodes) /\ arr \in Seq(Nodes) /\ nodes[w] \in Seq(Nodes \cup {Junk})
    BY <1>1 DEF GatewayTypeOK, ListsTypeOK, ListAt
<1>3. PICK slice \in {Slice(arr, Len(now)), Slice(now, Len(arr))} :
         nodes' = [nodes EXCEPT ![w] = @ \o slice]
    BY DEF ReadLength
<1>4. /\ slice \in Seq(Nodes \cup {Junk})
      /\ Len(arr) = Len(now) => slice \in {arr, now}
    <2>1. Len(arr) \in Nat /\ Len(now) \in Nat
        BY <1>2
    <2>2. /\ Slice(arr, Len(now)) \in Seq(Nodes \cup {Junk})
          /\ Len(now) = Len(arr) => Slice(arr, Len(now)) = arr
        BY <1>2, <2>1, SliceFacts
    <2>3. /\ Slice(now, Len(arr)) \in Seq(Nodes \cup {Junk})
          /\ Len(arr) = Len(now) => Slice(now, Len(arr)) = now
        BY <1>2, <2>1, SliceFacts
    <2> QED BY <1>3, <2>2, <2>3
<1>5. /\ nodes[w] \o slice \in Seq(Nodes \cup {Junk})
      /\ Members(nodes[w] \o slice) = Members(nodes[w]) \cup Members(slice)
    BY <1>2, <1>4, MembersConcat
<1>6. /\ UNCHANGED <<listsVars, kind, tried, steady, answer, writes, crashed>>
      /\ ~crashed /\ at[w] = "length"
      /\ torn' = [torn EXCEPT ![w] = @ \/ Len(arr) # Len(now)]
      /\ source' = [source EXCEPT ![w] = After(@)]
      /\ at' = [at EXCEPT ![w] =
                  IF kind[w] = "proxy" /\ source[w] = "catchup" THEN "read" ELSE "walk"]
      /\ array' = [array EXCEPT ![w] = <<>>]
    BY DEF ReadLength
<1>7. UNCHANGED <<catchupNodes, archNodes>>
    BY <1>6 DEF listsVars, lists
<1>8. Alone(w)
    BY <1>1, <1>3, <1>6 DEF Alone, GatewayTypeOK
<1>9. GatewayTypeOK'
    <2>1. nodes' \in [Tasks -> Seq(Nodes \cup {Junk})] /\ array' \in [Tasks -> Seq(Nodes)]
        BY <1>1, <1>3, <1>5, <1>6 DEF GatewayTypeOK
    <2>2. torn' \in [Tasks -> BOOLEAN]
        BY <1>1, <1>6, Zenon DEF GatewayTypeOK
    <2> QED BY <1>1, <1>6, <2>1, <2>2
            DEF GatewayTypeOK, ListsTypeOK, listsVars, lists, nodeFlags, After
<1>10. /\ Members(nodes'[w]) = Members(nodes[w]) \cup Members(slice)
       /\ torn'[w] <=> torn[w] \/ Len(arr) # Len(now)
       /\ source'[w] = After(source[w])
       /\ at'[w] = IF kind[w] = "proxy" /\ source[w] = "catchup" THEN "read" ELSE "walk"
    BY <1>1, <1>3, <1>5, <1>6 DEF GatewayTypeOK
<1>11. TaskInv(w)'
    <2>1. ASSUME ~torn'[w], NEW n \in steady'[w], source[w] = "catchup"
          PROVE  /\ source'[w] = "arch"
                 /\ n \in Members(nodes'[w]) \/ Ahead(w, n)'
        <3>1. n \in AllListed /\ (n \in Members(arr) \/ Ahead(w, n)) /\ slice \in {arr, now}
            BY <1>1, <1>4, <1>6, <1>10, <2>1 DEF TaskInv
        <3>2. Ahead(w, n)' <=> Ahead(w, n)
            BY <1>6, <1>7 DEF Ahead
        <3> QED BY <1>10, <2>1, <3>1, <3>2 DEF After, Ahead, AllListed, ListAt
    <2>2. ASSUME ~torn'[w], NEW n \in steady'[w], source[w] = "arch"
          PROVE  source'[w] = "none" /\ n \in tried'[w] \cup Members(nodes'[w])
        <3>1. /\ n \in tried[w] \cup Members(nodes[w])
                 \/ (Ahead(w, n) /\ n \in Members(arr))
              /\ slice \in {arr, now}
            BY <1>1, <1>4, <1>6, <1>10, <2>2 DEF TaskInv
        <3> QED BY <1>6, <1>10, <2>2, <3>1 DEF After, Ahead, ListAt
    <2>3. source[w] \in {"catchup", "arch"}
        BY <1>1, <1>6 DEF TaskInv, GatewayTypeOK
    <2> QED BY <1>1, <1>6, <1>10, <2>1, <2>2, <2>3 DEF TaskInv, After
<1> QED BY <1>6, <1>8, <1>9, <1>10, <1>11, OneTask

\* A node is tried: it was in the task's hands and counts as tried now.
LEMMA TriedFacts ==
    ASSUME GatewayTypeOK, NEW w \in Tasks, Tried(w)
    PROVE  /\ nodes' \in [Tasks -> Seq(Nodes \cup {Junk})]
           /\ tried' \in [Tasks -> SUBSET Nodes]
           /\ tried'[w] \cup Members(nodes'[w]) = tried[w] \cup Members(nodes[w])
           /\ Members(nodes'[w]) \subseteq Members(nodes[w])
           /\ Len(nodes[w]) = 1 => tried'[w] = tried[w] \cup Members(nodes[w])
           /\ \A v \in Tasks \ {w} : nodes'[v] = nodes[v] /\ tried'[v] = tried[v]
<1>1. nodes[w] \in Seq(Nodes \cup {Junk}) /\ nodes[w] # <<>>
    BY DEF GatewayTypeOK, Tried
<1>2. /\ Tail(nodes[w]) \in Seq(Nodes \cup {Junk}) /\ NextNode(w) \in Nodes \cup {Junk}
      /\ Members(nodes[w]) = {NextNode(w)} \cup Members(Tail(nodes[w]))
    BY <1>1, MembersTail DEF NextNode
<1>3. /\ nodes' = [nodes EXCEPT ![w] = Tail(@)]
      /\ tried' = [tried EXCEPT ![w] = @ \cup {NextNode(w)}]
      /\ NextNode(w) \in Nodes
    BY <1>2 DEF Tried
<1>4. nodes'[w] = Tail(nodes[w]) /\ tried'[w] = tried[w] \cup {NextNode(w)}
    BY <1>3 DEF GatewayTypeOK
<1>5. Len(nodes[w]) = 1 => Members(Tail(nodes[w])) = {}
    BY <1>1 DEF Members
<1> QED BY <1>2, <1>3, <1>4, <1>5 DEF GatewayTypeOK

\* A task that tries a node and goes on, or ends with it.
LEMMA TryKeeps ==
    ASSUME GatewayInv, NEW w \in Tasks, Forward(w) \/ Loaded(w) \/ TryNext(w)
    PROVE  GatewayInv'
<1>1. GatewayTypeOK /\ ListsTypeOK /\ TaskInv(w)
    BY ByTask DEF GatewayTypeOK
<1>2. /\ at[w] = "walk" /\ ~crashed /\ Tried(w)
      /\ UNCHANGED <<listsVars, kind, array, steady, torn, crashed>>
    BY DEF Forward, ProxyHTTP, Loaded, TryNext, Walks
<1>3. /\ nodes' \in [Tasks -> Seq(Nodes \cup {Junk})]
      /\ tried' \in [Tasks -> SUBSET Nodes]
      /\ tried'[w] \cup Members(nodes'[w]) = tried[w] \cup Members(nodes[w])
      /\ Members(nodes'[w]) \subseteq Members(nodes[w])
      /\ Len(nodes[w]) = 1 => tried'[w] = tried[w] \cup Members(nodes[w])
      /\ \A v \in Tasks \ {w} : nodes'[v] = nodes[v] /\ tried'[v] = tried[v]
    BY <1>1, <1>2, TriedFacts
<1>4. UNCHANGED <<catchupNodes, archNodes>>
    BY <1>2 DEF listsVars, lists
<1>5. CASE TryNext(w)
    <2>1. UNCHANGED <<at, source, answer, writes>>
        BY <1>5 DEF TryNext
    <2>2. Alone(w)
        BY <1>2, <1>3, <2>1 DEF Alone
    <2>3. GatewayTypeOK'
        BY <1>1, <1>2, <1>3, <2>1 DEF GatewayTypeOK, ListsTypeOK, listsVars, lists, nodeFlags
    <2>4. TaskInv(w)'
        BY <1>1, <1>2, <1>3, <1>4, <2>1 DEF TaskInv, Ahead, AllListed
    <2> QED BY <1>2, <2>2, <2>3, <2>4, OneTask
<1>6. ASSUME NEW how \in Outcomes, Finish(w, kind[w], how), how # "gaveup",
             how = "upstream" => Len(nodes[w]) = 1 /\ kind[w] = "proxy",
             writes' = [writes EXCEPT ![w] = IF kind[w] = "proxy" THEN 1 ELSE 0]
      PROVE  GatewayInv'
    <2>1. /\ at' = [at EXCEPT ![w] = IF kind[w] = "proxy" THEN "write" ELSE "done"]
          /\ source' = [source EXCEPT ![w] = "none"]
          /\ answer' = [answer EXCEPT ![w] = how]
        BY <1>6 DEF Finish
    <2>2. Alone(w)
        BY <1>1, <1>2, <1>3, <1>6, <2>1 DEF Alone, GatewayTypeOK
    <2>3. GatewayTypeOK'
        BY <1>1, <1>2, <1>3, <1>6, <2>1
           DEF GatewayTypeOK, ListsTypeOK, listsVars, lists, nodeFlags
    <2>4. /\ at'[w] = IF kind[w] = "proxy" THEN "write" ELSE "done"
          /\ source'[w] = "none" /\ answer'[w] = how
          /\ writes'[w] = IF kind[w] = "proxy" THEN 1 ELSE 0
        BY <1>1, <1>6, <2>1 DEF GatewayTypeOK
    <2>5. (how = "upstream" /\ ~torn[w]) => steady[w] \subseteq tried'[w]
        BY <1>1, <1>2, <1>3, <1>6 DEF TaskInv
    <2>6. TaskInv(w)'
        BY <1>2, <1>6, <2>4, <2>5 DEF TaskInv
    <2> QED BY <1>2, <2>2, <2>3, <2>6, OneTask
<1>7. writes[w] = 0
    BY <1>1, <1>2 DEF TaskInv
<1>8. CASE Forward(w)
    <2>1. PICK how \in {"accepted", "upstream"} :
             (how = "upstream" => Len(nodes[w]) = 1) /\ ProxyHTTP(w, how)
        BY <1>8 DEF Forward
    <2>2. kind[w] = "proxy" /\ Finish(w, kind[w], how)
        BY <1>8, <2>1 DEF Forward, ProxyHTTP
    <2>3. writes' = [writes EXCEPT ![w] = 1]
        BY <1>7, <2>1 DEF ProxyHTTP
    <2> QED BY <1>6, <2>1, <2>2, <2>3 DEF Outcomes
<1>9. CASE Loaded(w)
    <2>1. writes' = [writes EXCEPT ![w] = 0]
        BY <1>1, <1>7, <1>9 DEF Loaded, GatewayTypeOK
    <2> QED BY <1>6, <1>9, <2>1 DEF Loaded, Outcomes
<1> QED BY <1>5, <1>8, <1>9

\* A load turns to the archival nodes: it goes on counting on archNodes.
LEMMA FallBackKeeps ==
    ASSUME GatewayInv, NEW w \in Tasks, FallBack(w)
    PROVE  GatewayInv'
<1>1. GatewayTypeOK /\ ListsTypeOK /\ TaskInv(w)
    BY ByTask DEF GatewayTypeOK
<1>2. /\ at[w] = "walk" /\ source[w] = "arch" /\ at' = [at EXCEPT ![w] = "read"]
      /\ UNCHANGED <<listsVars, kind, source, array, nodes, tried, steady, torn, answer,
                     writes, crashed>>
    BY DEF FallBack, Walks
<1>3. Alone(w) /\ at'[w] = "read"
    BY <1>1, <1>2 DEF Alone, GatewayTypeOK
<1>4. GatewayTypeOK'
    BY <1>1, <1>2 DEF GatewayTypeOK, ListsTypeOK, listsVars, lists, nodeFlags
<1>5. UNCHANGED <<catchupNodes, archNodes>>
    BY <1>2 DEF listsVars, lists
<1>6. TaskInv(w)'
    BY <1>1, <1>2, <1>3, <1>5 DEF TaskInv, Ahead, AllListed
<1> QED BY <1>2, <1>3, <1>4, <1>6, OneTask

\* A task ends without an answer from a node: it has tried all there were, or it
\* panics.
LEMMA EndKeeps ==
    ASSUME GatewayInv, NEW w \in Tasks, GiveUp(w) \/ Panic(w) \/ LoadPanics(w)
    PROVE  GatewayInv'
<1>1. GatewayTypeOK /\ ListsTypeOK /\ TaskInv(w)
    BY ByTask DEF GatewayTypeOK
<1>2. writes[w] = 0 /\ at[w] = "walk" /\ ~crashed
    BY <1>1 DEF TaskInv, GiveUp, Panic, LoadPanics, Walks
<1>3. UNCHANGED <<listsVars, kind, array, steady, torn>>
    BY DEF GiveUp, Panic, LoadPanics, Panics
<1>4. PICK how \in {"gaveup", "500"} :
         /\ Finish(w, kind[w], how)
         /\ how = "gaveup" => GiveUp(w)
    BY DEF GiveUp, Panic, LoadPanics, Panics
<1>5. /\ at' = [at EXCEPT ![w] = IF kind[w] = "proxy" THEN "write" ELSE "done"]
      /\ source' = [source EXCEPT ![w] = "none"]
      /\ answer' = [answer EXCEPT ![w] = how]
    BY <1>4 DEF Finish
<1>6. writes' = [writes EXCEPT ![w] = IF kind[w] = "proxy" THEN 1 ELSE 0]
    BY <1>1, <1>2 DEF GiveUp, Panic, LoadPanics, Panics, Handled, GatewayTypeOK
<1>7. crashed' \in BOOLEAN
    BY <1>1 DEF GiveUp, Panic, LoadPanics, Panics, GatewayTypeOK
<1>8. /\ nodes' \in [Tasks -> Seq(Nodes \cup {Junk})] /\ tried' \in [Tasks -> SUBSET Nodes]
      /\ \A v \in Tasks \ {w} : nodes'[v] = nodes[v] /\ tried'[v] = tried[v]
      /\ GiveUp(w) => tried' = tried
    <2>1. CASE GiveUp(w) \/ Panic(w)
        BY <1>1, <2>1 DEF GiveUp, Panic, GatewayTypeOK
    <2>2. CASE LoadPanics(w)
        <3>1. ~GiveUp(w)
            BY <2>2 DEF LoadPanics, GiveUp, Tried
        <3> QED BY <1>1, <2>2, <3>1, TriedFacts DEF LoadPanics
    <2> QED BY <2>1, <2>2
<1>9. Alone(w)
    BY <1>1, <1>3, <1>5, <1>6, <1>8 DEF Alone, GatewayTypeOK
<1>10. GatewayTypeOK'
    BY <1>1, <1>3, <1>5, <1>6, <1>7, <1>8
       DEF GatewayTypeOK, ListsTypeOK, listsVars, lists, nodeFlags, Outcomes
<1>11. /\ at'[w] = IF kind[w] = "proxy" THEN "write" ELSE "done"
       /\ source'[w] = "none" /\ answer'[w] = how
       /\ writes'[w] = IF kind[w] = "proxy" THEN 1 ELSE 0
    BY <1>1, <1>5, <1>6 DEF GatewayTypeOK
<1>12. (how = "gaveup" /\ ~torn[w]) => steady[w] \subseteq tried'[w]
    <2>1. nodes[w] = <<>> => Members(nodes[w]) = {}
        BY DEF Members
    <2> QED BY <1>1, <1>2, <1>4, <1>8, <2>1 DEF TaskInv, GiveUp
<1>13. TaskInv(w)'
    BY <1>1, <1>3, <1>11, <1>12 DEF TaskInv
<1> QED BY <1>3, <1>9, <1>10, <1>13, OneTask

\* The client takes an answer.
LEMMA WrittenKeeps ==
    ASSUME GatewayInv, NEW w \in Tasks, Written(w)
    PROVE  GatewayInv'
<1>1. GatewayTypeOK /\ ListsTypeOK /\ TaskInv(w)
    BY ByTask DEF GatewayTypeOK
<1>2. /\ at[w] = "write" /\ at' = [at EXCEPT ![w] = "done"]
      /\ UNCHANGED <<listsVars, kind, source, array, nodes, tried, steady, torn, answer,
                     writes, crashed>>
    BY DEF Written
<1>3. Alone(w) /\ at'[w] = "done"
    BY <1>1, <1>2 DEF Alone, GatewayTypeOK
<1>4. GatewayTypeOK'
    BY <1>1, <1>2 DEF GatewayTypeOK, ListsTypeOK, listsVars, lists, nodeFlags
<1>5. TaskInv(w)'
    BY <1>1, <1>2, <1>3 DEF TaskInv
<1> QED BY <1>3, <1>4, <1>5, OneTask

LEMMA GatewayStep == GatewayInv /\ [GatewayNext]_gatewayVars => GatewayInv'
<1> SUFFICES ASSUME GatewayInv, [GatewayNext]_gatewayVars PROVE GatewayInv'
    OBVIOUS
<1>1. CASE ClusterStep
    BY <1>1, ClusterStepKeeps
<1>2. ASSUME NEW w \in Tasks,
             AnswerHere(w) \/ \E k \in {"proxy", "recent", "old"} : Start(w, k)
      PROVE  GatewayInv'
    BY <1>2, StartKeeps
<1>3. ASSUME NEW w \in Tasks, Serve(w) PROVE GatewayInv'
    BY <1>3, ReadArrayKeeps, ReadLengthKeeps, TryKeeps, FallBackKeeps, EndKeeps,
       WrittenKeeps DEF Serve, Seek
<1>4. CASE UNCHANGED gatewayVars
    <2>1. UNCHANGED <<catchupNodes, archNodes, archival, found, kind, at, source, array,
                      nodes, tried, steady, torn, answer, writes, crashed>>
        BY <1>4 DEF gatewayVars, taskVars, listsVars, lists, nodeFlags
    <2>2. GatewayTypeOK'
        BY <1>4 DEF gatewayVars, taskVars, listsVars, lists, nodeFlags, GatewayInv,
                    GatewayTypeOK, ListsTypeOK
    <2> QED BY <2>1, <2>2
            DEF GatewayInv, ArchInv, SteadyInv, ReadInv, OneAnswer, Ahead, RefusedAfterAll,
                AllListed
<1> QED BY <1>1, <1>2, <1>3, <1>4 DEF GatewayNext

-----------------------------------------------------------------------------
(* The theorems *)

\* The invariant of the readers of the lists: a task has every steady node in its
\* hands or before it, is answered once, and is turned away after all of them.
THEOREM GatewayInvariant == GatewaySpec => []GatewayInv
<1> QED BY GatewayInitially, GatewayStep, PTL DEF GatewaySpec

\* A request is answered exactly once, however its tries go (proxy.go,
\* handlers.go), for any number of nodes and of requests.
THEOREM AnsweredOnce == GatewaySpec => []OneAnswer
<1>1. GatewayInv => OneAnswer
    BY DEF GatewayInv
<1> QED BY <1>1, GatewayInvariant, PTL

\* A request is refused, and a load given up, only after every node that was
\* listed all the while was tried, though the lists are read without the lock.
THEOREM NobodyTurnedAway == GatewaySpec => []RefusedAfterAll
<1>1. GatewayInv => RefusedAfterAll
    BY DEF GatewayInv
<1> QED BY <1>1, GatewayInvariant, PTL

-----------------------------------------------------------------------------
(* Every task comes nearer to its end *)

LEMMA NodesCounted == Cardinality(Nodes) \in Nat
<1> QED BY GatewayAssumption, FS_CardinalityType

\* A list of a set of nodes has no more entries than there are nodes.
LEMMA ListsOfShort ==
    ASSUME NEW S, S \subseteq Nodes, NEW list \in ListsOf(S)
    PROVE  Len(list) <= Cardinality(Nodes)
<1>1. Cardinality(S) \in Nat /\ Cardinality(S) <= Cardinality(Nodes)
    BY GatewayAssumption, FS_Subset, FS_CardinalityType
<1>2. list \in [1 .. Cardinality(S) -> S]
    BY DEF ListsOf
<1>3. Len(list) = Cardinality(S)
    BY <1>1, <1>2
<1> QED BY <1>1, <1>3

\* updateNodeLists stores short lists only.
LEMMA ShortLists ==
    ASSUME ShortInv, ListsNext
    PROVE  Len(catchupNodes') <= Cardinality(Nodes) /\ Len(archNodes') <= Cardinality(Nodes)
<1>1. FoundAs("arch") \subseteq Nodes /\ FoundAs("catchup") \subseteq Nodes
    BY DEF FoundAs
<1>2. CASE StoreArch
    BY <1>1, <1>2, ListsOfShort DEF StoreArch, ShortInv
<1>3. CASE StoreCatchup
    BY <1>1, <1>3, ListsOfShort DEF StoreCatchup, ShortInv
<1>4. CASE UNCHANGED <<catchupNodes, archNodes>>
    BY <1>4 DEF ShortInv
<1> QED
    BY <1>2, <1>3, <1>4 DEF ListsNext, NodeChanges, ScanNode, StartScan, lists

LEMMA ShortStep == GatewayInv /\ ShortInv /\ [GatewayNext]_gatewayVars => ShortInv'
<1> SUFFICES ASSUME GatewayInv, ShortInv, [GatewayNext]_gatewayVars PROVE ShortInv'
    OBVIOUS
<1>1. GatewayTypeOK /\ array \in [Tasks -> Seq(Nodes)]
    BY DEF GatewayInv, GatewayTypeOK
<1>2. CASE ClusterStep
    BY <1>2, ShortLists DEF ClusterStep, ShortInv
<1>3. ASSUME UNCHANGED <<catchupNodes, archNodes>>,
             \A w \in Tasks : Len(array'[w]) <= Cardinality(Nodes)
      PROVE  ShortInv'
    BY <1>3 DEF ShortInv
<1> USE DEF listsVars, lists
<1>4. ASSUME NEW w \in Tasks, ReadArray(w) PROVE ShortInv'
    <2>1. \A v \in Tasks : array'[v] = IF v = w THEN ListAt(w) ELSE array[v]
        BY <1>1, <1>4 DEF ReadArray
    <2>2. Len(ListAt(w)) <= Cardinality(Nodes)
        BY DEF ListAt, ShortInv
    <2>3. UNCHANGED <<catchupNodes, archNodes>>
        BY <1>4 DEF ReadArray
    <2> QED BY <1>3, <2>1, <2>2, <2>3 DEF ShortInv
<1>5. ASSUME NEW w \in Tasks, ReadLength(w) PROVE ShortInv'
    <2>1. \A v \in Tasks : array'[v] = IF v = w THEN <<>> ELSE array[v]
        BY <1>1, <1>5 DEF ReadLength
    <2>2. UNCHANGED <<catchupNodes, archNodes>>
        BY <1>5 DEF ReadLength
    <2>3. Len(<<>>) <= Cardinality(Nodes)
        BY NodesCounted
    <2> QED BY <1>3, <2>1, <2>2, <2>3 DEF ShortInv
<1>6. ASSUME UNCHANGED <<catchupNodes, archNodes, array>> PROVE ShortInv'
    BY <1>6 DEF ShortInv
<1>7. ASSUME NEW w \in Tasks, AnswerHere(w) \/ \E k \in {"proxy", "recent", "old"} : Start(w, k)
      PROVE  ShortInv'
    BY <1>6, <1>7 DEF AnswerHere, Start
<1>8. ASSUME NEW w \in Tasks, \/ Forward(w) \/ Loaded(w) \/ TryNext(w)
                              \/ FallBack(w) \/ GiveUp(w) \/ Panic(w) \/ LoadPanics(w)
                              \/ Written(w)
      PROVE  ShortInv'
    BY <1>6, <1>8 DEF Forward, ProxyHTTP, Loaded, TryNext, FallBack, GiveUp, Panic,
                      LoadPanics, Panics, Written
<1>9. CASE UNCHANGED gatewayVars
    BY <1>6, <1>9 DEF gatewayVars, taskVars
<1> QED BY <1>2, <1>4, <1>5, <1>7, <1>8, <1>9 DEF GatewayNext, Serve, Seek

LEMMA ShortInvariant == GatewaySpec => []ShortInv
<1>1. GatewayInit => ShortInv
    BY NodesCounted DEF GatewayInit, ListsInit, ShortInv
<1> QED BY <1>1, ShortStep, GatewayInvariant, PTL DEF GatewaySpec

\* A step of a task leaves the others alone and lowers its own effort: a list that
\* is read costs less than was set aside for it, torn or not.
LEMMA ServeShortens ==
    ASSUME GatewayInv, ShortInv, NEW w \in Tasks, Serve(w)
    PROVE  /\ Effort(w)' < Effort(w)
           /\ \A v \in Tasks \ {w} : UNCHANGED <<at[v], source[v], array[v], nodes[v]>>
<1> DEFINE Goal == /\ Effort(w)' < Effort(w)
                   /\ \A v \in Tasks \ {w} : UNCHANGED <<at[v], source[v], array[v], nodes[v]>>
           size == Cardinality(Nodes)
<1>1. /\ GatewayTypeOK /\ ListsTypeOK /\ size \in Nat
      /\ at \in [Tasks -> {"idle", "read", "length", "walk", "write", "done"}]
      /\ source \in [Tasks -> {"none", "catchup", "arch"}]
      /\ array \in [Tasks -> Seq(Nodes)]
      /\ nodes \in [Tasks -> Seq(Nodes \cup {Junk})] /\ Len(nodes[w]) \in Nat
    BY NodesCounted DEF GatewayInv, GatewayTypeOK
<1>2. CASE ReadArray(w)
    <2>1. /\ array' = [array EXCEPT ![w] = ListAt(w)] /\ at[w] = "read"
          /\ at' = [at EXCEPT ![w] = "length"] /\ UNCHANGED <<source, nodes>>
        BY <1>2 DEF ReadArray
    <2> QED BY <1>1, <2>1 DEF Effort
<1>3. CASE ReadLength(w)
    <2>1. PICK slice \in {Slice(array[w], Len(ListAt(w))), Slice(ListAt(w), Len(array[w]))} :
             nodes' = [nodes EXCEPT ![w] = @ \o slice]
        BY <1>3 DEF ReadLength
    <2>2. /\ ListAt(w) \in Seq(Nodes) /\ array[w] \in Seq(Nodes)
          /\ Len(ListAt(w)) \in Nat /\ Len(ListAt(w)) <= size
          /\ Len(array[w]) \in Nat /\ Len(array[w]) <= size
        BY <1>1 DEF ListAt, ListsTypeOK, ShortInv
    <2>3. \A arr \in Seq(Nodes), k \in Nat :
             Slice(arr, k) \in Seq(Nodes \cup {Junk}) /\ Len(Slice(arr, k)) = k
        BY SliceFacts DEF Slice
    <2>4. slice \in Seq(Nodes \cup {Junk}) /\ Len(slice) \in Nat /\ Len(slice) <= size
        BY <2>1, <2>2, <2>3
    <2>5. /\ at[w] = "length" /\ source' = [source EXCEPT ![w] = After(source[w])]
          /\ at' = [at EXCEPT ![w] = IF kind[w] = "proxy" /\ source[w] = "catchup"
                                     THEN "read" ELSE "walk"]
          /\ array' = [array EXCEPT ![w] = <<>>]
        BY <1>3 DEF ReadLength
    <2>6. Len(nodes'[w]) = Len(nodes[w]) + Len(slice)
        BY <1>1, <2>1, <2>4
    <2>7. source[w] # "none"
        BY <2>5 DEF GatewayInv, ReadInv
    <2>8. /\ source'[w] = After(source[w]) /\ at'[w] \in {"read", "walk"}
        BY <1>1, <2>5
    <2>9. Effort(w)' < Effort(w)
        <3>1. CASE source[w] = "catchup"
            BY <1>1, <2>4, <2>5, <2>6, <2>8, <3>1 DEF Effort, After
        <3>2. CASE source[w] = "arch"
            BY <1>1, <2>4, <2>5, <2>6, <2>8, <3>2 DEF Effort, After
        <3> QED BY <1>1, <2>7, <3>1, <3>2
    <2>10. \A v \in Tasks \ {w} : UNCHANGED <<at[v], source[v], array[v], nodes[v]>>
        BY <1>1, <2>1, <2>5
    <2> QED BY <2>9, <2>10
<1>4. ASSUME NEW how, Finish(w, kind[w], how), at[w] = "walk", UNCHANGED array,
             nodes' = nodes \/ (nodes[w] # <<>> /\ nodes' = [nodes EXCEPT ![w] = Tail(@)])
      PROVE  Goal
    <2>1. /\ at' = [at EXCEPT ![w] = IF kind[w] = "proxy" THEN "write" ELSE "done"]
          /\ source' = [source EXCEPT ![w] = "none"]
        BY <1>4 DEF Finish
    <2>2. Len(nodes'[w]) \in Nat /\ Len(nodes'[w]) <= Len(nodes[w])
        BY <1>1, <1>4
    <2>3. Effort(w)' < Effort(w)
        <3>1. at'[w] \in {"write", "done"} /\ source'[w] = "none"
            BY <1>1, <2>1
        <3>2. Effort(w)' <= Len(nodes'[w]) + 1
            <4>1. CASE at'[w] = "write"
                BY <2>2, <3>1, <4>1 DEF Effort
            <4>2. CASE at'[w] = "done"
                BY <2>2, <3>1, <4>2 DEF Effort
            <4> QED BY <3>1, <4>1, <4>2
        <3>3. Effort(w) >= Len(nodes[w]) + 3
            <4>1. CASE source[w] = "catchup"
                BY <1>1, <1>4, <4>1 DEF Effort
            <4>2. CASE source[w] = "arch"
                BY <1>1, <1>4, <4>2 DEF Effort
            <4>3. CASE source[w] = "none"
                BY <1>1, <1>4, <4>3 DEF Effort
            <4> QED BY <1>1, <4>1, <4>2, <4>3
        <3>4. Effort(w) \in Int /\ Effort(w)' \in Int
            <4>1. at[w] = "walk"
                BY <1>4
            <4> QED BY <1>1, <2>2, <3>1, <4>1 DEF Effort
        <3> QED BY <1>1, <2>2, <3>2, <3>3, <3>4
    <2>4. \A v \in Tasks \ {w} : UNCHANGED <<at[v], source[v], array[v], nodes[v]>>
        BY <1>1, <1>4, <2>1
    <2> QED BY <2>3, <2>4
<1>5. CASE Forward(w) \/ Loaded(w) \/ LoadPanics(w)
    <2>1. /\ at[w] = "walk" /\ UNCHANGED array
          /\ nodes[w] # <<>> /\ nodes' = [nodes EXCEPT ![w] = Tail(@)]
          /\ \E how : Finish(w, kind[w], how)
        BY <1>5 DEF Forward, ProxyHTTP, Loaded, LoadPanics, Panics, Walks, Tried
    <2> QED BY <1>4, <2>1
<1>6. CASE GiveUp(w) \/ Panic(w)
    <2>1. at[w] = "walk" /\ UNCHANGED <<array, nodes>> /\ \E how : Finish(w, kind[w], how)
        BY <1>6 DEF GiveUp, Panic, Panics, Walks
    <2> QED BY <1>4, <2>1
<1>7. CASE TryNext(w)
    <2>1. /\ nodes[w] # <<>> /\ nodes' = [nodes EXCEPT ![w] = Tail(@)]
          /\ UNCHANGED <<at, source, array>>
        BY <1>7 DEF TryNext, Tried
    <2>2. Len(nodes'[w]) = Len(nodes[w]) - 1
        BY <1>1, <2>1
    <2>3. Effort(w)' < Effort(w)
        BY <1>1, <2>1, <2>2 DEF Effort
    <2> QED BY <1>1, <2>1, <2>3
<1>8. CASE FallBack(w)
    <2>1. at[w] = "walk" /\ at' = [at EXCEPT ![w] = "read"] /\ UNCHANGED <<source, array, nodes>>
        BY <1>8 DEF FallBack, Walks
    <2>2. Effort(w)' < Effort(w)
        BY <1>1, <2>1 DEF Effort
    <2> QED BY <1>1, <2>1, <2>2
<1>9. CASE Written(w)
    <2>1. at[w] = "write" /\ at' = [at EXCEPT ![w] = "done"] /\ UNCHANGED <<source, array, nodes>>
        BY <1>9 DEF Written
    <2>2. Effort(w)' < Effort(w)
        BY <1>1, <2>1 DEF Effort
    <2> QED BY <1>1, <2>1, <2>2
<1> QED BY <1>2, <1>3, <1>5, <1>6, <1>7, <1>8, <1>9 DEF Serve, Seek

\* Each step of a request or a load takes it nearer to its end, for any number of
\* nodes and however the lists change (handlers.go:67-87, LoadBlockSync): the part
\* of RequestsAnswered that needs no fairness.
THEOREM TasksRunDown == GatewaySpec => EffortFalls
<1> DEFINE Falls == \A w \in Tasks : at[w] # "idle" =>
                       \/ Effort(w)' < Effort(w)
                       \/ UNCHANGED <<at[w], source[w], array[w], nodes[w]>>
<1>1. ASSUME GatewayInv, ShortInv, [GatewayNext]_gatewayVars PROVE Falls
    <2>1. at \in [Tasks -> {"idle", "read", "length", "walk", "write", "done"}]
          /\ source \in [Tasks -> {"none", "catchup", "arch"}]
        BY <1>1 DEF GatewayInv, GatewayTypeOK
    <2>2. CASE ClusterStep
        BY <2>2 DEF ClusterStep
    <2>3. ASSUME NEW v \in Tasks, AnswerHere(v) PROVE Falls
        BY <2>1, <2>3 DEF AnswerHere, Finish
    <2>4. ASSUME NEW v \in Tasks, NEW k \in {"proxy", "recent", "old"}, Start(v, k) PROVE Falls
        BY <2>1, <2>4 DEF Start
    <2>5. ASSUME NEW v \in Tasks, Serve(v) PROVE Falls
        BY <1>1, <2>5, ServeShortens
    <2>6. CASE UNCHANGED gatewayVars
        BY <2>6 DEF gatewayVars, taskVars
    <2> QED BY <1>1, <2>2, <2>3, <2>4, <2>5, <2>6 DEF GatewayNext
<1> QED BY <1>1, GatewayInvariant, ShortInvariant, PTL DEF GatewaySpec, EffortFalls
=============================================================================
