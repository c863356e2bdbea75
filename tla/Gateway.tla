------------------------------- MODULE Gateway -------------------------------
(***************************************************************************)
(* Who reads the lists of synced nodes: requests that are passed on to the *)
(* nodes (internal/httpsrv, internal/algod/proxy.go) and the loads of the  *)
(* block cache (LoadBlockSync).  Both read catchupNodes and archNodes      *)
(* without the cluster's lock and try node after node.                     *)
(*                                                                         *)
(* A slice header is an array and a length.  They are read in two steps    *)
(* while the lists change as NodeLists says, so the array of one list may  *)
(* come with the length of another: entries beyond the array are Junk.     *)
(***************************************************************************)
EXTENDS NodeLists

CONSTANTS
    Tasks,   \* requests and loads
    AuthOn,  \* cfg.Tokens is not empty
    Junk     \* what is read beyond the end of an array

ASSUME GatewayAssumption == IsFiniteSet(Nodes) /\ AuthOn \in BOOLEAN /\ Junk \notin Nodes

VARIABLES
    kind,     \* "proxy", or a load of a "recent" or "old" round
    at,       \* "idle", "read", "length", "walk", "write", "done"
    source,   \* the list to be read next: "catchup", "arch", "none"
    array,    \* the array that was read
    nodes,    \* the nodes still to try
    tried,    \* history: those tried
    steady,   \* history: nodes listed at every moment while the task reads
    torn,     \* history: an array was read with another list's length
    answer,   \* how the task ended
    writes,   \* responses written to the client
    crashed   \* a panic outside a handler ends the process

taskVars == <<kind, at, source, array, nodes, tried, steady, torn, answer, writes>>
gatewayVars == <<listsVars, taskVars, crashed>>

Members(list) == {list[i] : i \in DOMAIN list}
AllListed     == Members(catchupNodes) \cup Members(archNodes)

-----------------------------------------------------------------------------
(* Routing and authentication *)

\* The X-Algo-API-Token header, or else the bearer token.
Provided(r) == IF r.header # "none" THEN r.header ELSE r.bearer

\* CORS answers OPTIONS itself, and /health is registered without middleware.
Authorised(r) == ~AuthOn \/ r.path = "health" \/ Provided(r) = "valid"

Tokens == {"none", "valid", "invalid"}
Routes == [path : {"wait", "block", "health", "any", "unrouted"}, method : {"OPTIONS", "other"},
           header : Tokens, bearer : Tokens]

\* The routes with a handler of their own; every other one goes to a node.
OwnHandler(r) == r.path \in {"wait", "block"}

\* An error that a handler returns reaches echo's error handler twice, from the
\* logger and from echo, and is only written if nothing was before.
Handled(count) == IF count = 0 THEN 1 ELSE count

\* A load is done, an answer is still to be taken by the client.
Finish(w, k, how) ==
    /\ at' = [at EXCEPT ![w] = IF k = "proxy" THEN "write" ELSE "done"]
    /\ source' = [source EXCEPT ![w] = "none"]
    /\ answer' = [answer EXCEPT ![w] = how]

\* How waitHandler and blockHandlerWrap answer, a round or a format they cannot
\* read included; StatusWait and UnifiedCache say when.
HandlerAnswers == {"200", "204", "400", "500", "503"}

\* A path or method without a route never gets to the authentication.
Answers(r) == IF r.method = "OPTIONS" THEN {"204"}
              ELSE IF r.path = "unrouted" THEN {"404", "405"}
              ELSE IF ~Authorised(r) THEN {"401"}
              ELSE IF OwnHandler(r) THEN HandlerAnswers
              ELSE {}

\* A request that is not passed on is answered at once, by the rate limiter too.
AnswerHere(w) ==
    /\ ~crashed /\ at[w] = "idle"
    /\ \E r \in Routes : \E s \in Answers(r) \cup {"429"} : Finish(w, "proxy", s)
    /\ kind' = [kind EXCEPT ![w] = "proxy"]
    /\ writes' = [writes EXCEPT ![w] = Handled(0)]
    /\ UNCHANGED <<listsVars, array, nodes, tried, steady, torn, crashed>>

\* defaultHandler starts, or LoadBlockSync: it reads catchupNodes first unless
\* the round is so old that only archival nodes have it.
Start(w, k) ==
    /\ ~crashed /\ at[w] = "idle"
    /\ k = "proxy" => \E r \in Routes : Answers(r) = {}
    /\ kind' = [kind EXCEPT ![w] = k]
    /\ at' = [at EXCEPT ![w] = "read"]
    /\ source' = [source EXCEPT ![w] = IF k = "old" THEN "arch" ELSE "catchup"]
    /\ steady' = [steady EXCEPT ![w] = IF k = "old" THEN Members(archNodes)
                                                    ELSE AllListed]
    /\ UNCHANGED <<listsVars, array, nodes, tried, torn, answer, writes, crashed>>

-----------------------------------------------------------------------------
(* Reading the lists *)

\* Mutant: archNodes is read before catchupNodes.
ListAtSwapped(w) ==
    IF kind[w] # "old" /\ source[w] = "arch" THEN catchupNodes ELSE archNodes

ListAt(w) == IF source[w] = "catchup" THEN catchupNodes ELSE archNodes
After(s)  == IF s = "catchup" THEN "arch" ELSE "none"

\* An array with a length that may be another's.
Slice(arr, n) == [i \in 1 .. n |-> IF i <= Len(arr) THEN arr[i] ELSE Junk]

ReadArray(w) ==
    /\ ~crashed /\ at[w] = "read"
    /\ array' = [array EXCEPT ![w] = ListAt(w)]
    /\ at' = [at EXCEPT ![w] = "length"]
    /\ UNCHANGED <<listsVars, kind, source, nodes, tried, steady, torn, answer,
                   writes, crashed>>

\* The length, or the two words in the other order.  GetSyncedNodesByRTT reads
\* both lists and puts one after the other; LoadBlockSync walks the first one
\* before it reads the second.
ReadLength(w) ==
    LET now == ListAt(w)
    IN  /\ ~crashed /\ at[w] = "length"
        /\ \E slice \in {Slice(array[w], Len(now)), Slice(now, Len(array[w]))} :
              nodes' = [nodes EXCEPT ![w] = @ \o slice]
        /\ torn' = [torn EXCEPT ![w] = @ \/ Len(array[w]) # Len(now)]
        /\ source' = [source EXCEPT ![w] = After(@)]
        /\ at' = [at EXCEPT ![w] =
                    IF kind[w] = "proxy" /\ source[w] = "catchup" THEN "read" ELSE "walk"]
        /\ array' = [array EXCEPT ![w] = <<>>]
        /\ UNCHANGED <<listsVars, kind, tried, steady, answer, writes, crashed>>

-----------------------------------------------------------------------------
(* Trying the nodes *)

Walks(w)   == ~crashed /\ at[w] = "walk"
NextNode(w) == nodes[w][1]

Tried(w) ==
    /\ nodes[w] # <<>> /\ NextNode(w) # Junk
    /\ nodes' = [nodes EXCEPT ![w] = Tail(@)]
    /\ tried' = [tried EXCEPT ![w] = @ \cup {NextNode(w)}]

\* The node answered and its status is passed on; the body follows, though it may
\* break off.
ProxyHTTP(w, how) ==
    /\ Walks(w) /\ Tried(w)
    /\ Finish(w, kind[w], how)
    /\ writes' = [writes EXCEPT ![w] = @ + 1]
    /\ UNCHANGED <<listsVars, kind, array, steady, torn, crashed>>

\* A status of proxy404, or any status from the last node.
Forward(w) ==
    /\ kind[w] = "proxy"
    /\ ProxyHTTP(w, "accepted") \/ (Len(nodes[w]) = 1 /\ ProxyHTTP(w, "upstream"))

\* The block is fetched.
Loaded(w) ==
    /\ kind[w] # "proxy" /\ Walks(w) /\ Tried(w)
    /\ Finish(w, kind[w], "loaded")
    /\ UNCHANGED <<listsVars, kind, array, steady, torn, writes, crashed>>

\* Mutant: a body that breaks off is taken for a failure of the node.
TryNextWritten(w) ==
    /\ Walks(w) /\ Tried(w)
    /\ writes' = [writes EXCEPT ![w] = @ + 1]
    /\ UNCHANGED <<listsVars, kind, at, source, array, steady, torn, answer, crashed>>

\* Mutant: a node that failed is put at the end of the list.
TryNextAgain(w) ==
    /\ Walks(w) /\ nodes[w] # <<>>
    /\ nodes' = [nodes EXCEPT ![w] = Append(Tail(@), Head(@))]
    /\ UNCHANGED <<listsVars, kind, at, source, array, tried, steady, torn, answer,
                   writes, crashed>>

\* No answer in time, or a status that is not accepted from one but the last:
\* the next node.
TryNext(w) ==
    /\ Walks(w) /\ Tried(w)
    /\ UNCHANGED <<listsVars, kind, at, source, array, steady, torn, answer, writes,
                   crashed>>

\* Catchup nodes did not have the block: "falling back to archive nodes".
FallBack(w) ==
    /\ Walks(w) /\ nodes[w] = <<>> /\ source[w] = "arch"
    /\ at' = [at EXCEPT ![w] = "read"]
    /\ UNCHANGED <<listsVars, kind, source, array, nodes, tried, steady, torn, answer,
                   writes, crashed>>

\* Mutant: no "falling back to archive nodes".
GiveUpEarly(w) ==
    /\ Walks(w) /\ nodes[w] = <<>>
    /\ Finish(w, kind[w], "gaveup")
    /\ writes' = [writes EXCEPT ![w] = IF kind[w] = "proxy" THEN Handled(@ + 1) ELSE @]
    /\ UNCHANGED <<listsVars, kind, array, nodes, tried, steady, torn, crashed>>

\* "No synced upstream nodes available" is written as 502 and returned as an
\* error too; a load is given up.
GiveUp(w) ==
    /\ Walks(w) /\ nodes[w] = <<>> /\ source[w] = "none"
    /\ Finish(w, kind[w], "gaveup")
    /\ writes' = [writes EXCEPT ![w] = IF kind[w] = "proxy" THEN Handled(@ + 1) ELSE @]
    /\ UNCHANGED <<listsVars, kind, array, nodes, tried, steady, torn, crashed>>

\* Recover answers a request that panics with 500; the goroutine of a load has no
\* Recover, and the process ends.
Panics(w) ==
    /\ Finish(w, kind[w], "500")
    /\ crashed' = (kind[w] # "proxy")
    /\ writes' = [writes EXCEPT ![w] = IF kind[w] = "proxy" THEN Handled(@) ELSE @]
    /\ UNCHANGED <<listsVars, kind, array, steady, torn>>

\* A method call on Junk.
Panic(w) ==
    /\ Walks(w) /\ nodes[w] # <<>> /\ NextNode(w) = Junk
    /\ Panics(w) /\ UNCHANGED <<nodes, tried>>

\* A load has its block and cannot convert it: an account index out of range, say.
LoadPanics(w) == kind[w] # "proxy" /\ Walks(w) /\ Tried(w) /\ Panics(w)

\* The client has taken the answer, or is gone.
Written(w) ==
    /\ ~crashed /\ at[w] = "write"
    /\ at' = [at EXCEPT ![w] = "done"]
    /\ UNCHANGED <<listsVars, kind, source, array, nodes, tried, steady, torn, answer,
                   writes, crashed>>

-----------------------------------------------------------------------------
GatewayInit ==
    /\ ListsInit
    /\ kind = [w \in Tasks |-> "proxy"] /\ at = [w \in Tasks |-> "idle"]
    /\ source = [w \in Tasks |-> "none"] /\ array = [w \in Tasks |-> <<>>]
    /\ nodes = [w \in Tasks |-> <<>>] /\ tried = [w \in Tasks |-> {}]
    /\ steady = [w \in Tasks |-> {}] /\ torn = [w \in Tasks |-> FALSE]
    /\ answer = [w \in Tasks |-> "none"] /\ writes = [w \in Tasks |-> 0]
    /\ crashed = FALSE

\* The cluster's own steps; what was steady may not be any longer.
ClusterStep ==
    /\ ~crashed /\ ListsNext
    /\ steady' = [w \in Tasks |->
                    IF source[w] = "none" THEN steady[w]
                    ELSE IF kind[w] = "old" THEN steady[w] \cap Members(archNodes')
                    ELSE steady[w] \cap (Members(catchupNodes') \cup Members(archNodes'))]
    /\ UNCHANGED <<kind, at, source, array, nodes, tried, torn, answer, writes, crashed>>

\* The steps to an answer.
Seek(w) ==
    \/ ReadArray(w) \/ ReadLength(w) \/ Forward(w) \/ Loaded(w) \/ TryNext(w)
    \/ FallBack(w) \/ GiveUp(w) \/ Panic(w) \/ LoadPanics(w)

Serve(w) == Seek(w) \/ Written(w)

GatewayNext ==
    \/ ClusterStep
    \/ \E w \in Tasks : \/ AnswerHere(w)
                        \/ \E k \in {"proxy", "recent", "old"} : Start(w, k)
                        \/ Serve(w)

GatewaySpec == GatewayInit /\ [][GatewayNext]_gatewayVars

\* The runtime runs every goroutine, and what ProxyHTTP asks a node for ends: its
\* context and its client have timeouts.  Nothing bounds BlockRaw in a load, which
\* may hang, nor the client that is to take the answer: the servers have no
\* WriteTimeout.
FairGatewaySpec ==
    GatewaySpec /\ \A w \in Tasks : WF_gatewayVars(kind[w] = "proxy" /\ Seek(w))

-----------------------------------------------------------------------------
(* Properties *)

Outcomes == {"none", "200", "204", "400", "401", "404", "405", "429", "500", "503", "accepted",
             "upstream", "loaded", "gaveup"}

GatewayTypeOK ==
    /\ ListsTypeOK
    /\ kind \in [Tasks -> {"proxy", "recent", "old"}]
    /\ at \in [Tasks -> {"idle", "read", "length", "walk", "write", "done"}]
    /\ source \in [Tasks -> {"none", "catchup", "arch"}]
    /\ array \in [Tasks -> Seq(Nodes)]
    /\ nodes \in [Tasks -> Seq(Nodes \cup {Junk})]
    /\ tried \in [Tasks -> SUBSET Nodes] /\ steady \in [Tasks -> SUBSET Nodes]
    /\ torn \in [Tasks -> BOOLEAN] /\ crashed \in BOOLEAN
    /\ answer \in [Tasks -> Outcomes] /\ writes \in [Tasks -> Nat]

\* However the tries go, whatever panics and although a refusal is both written
\* and returned as an error, a request is answered exactly once.
OneAnswer ==
    \A w \in Tasks :
        writes[w] = IF kind[w] = "proxy" /\ at[w] \in {"write", "done"} THEN 1 ELSE 0

\* Nobody is turned away while there is a node to ask: a request that is
\* refused or gets a node's error, and a load that is given up, has tried every
\* node that was in the lists all the while, even one that moved from one list
\* to the other between the two reads.
RefusedAfterAll ==
    \A w \in Tasks :
        (answer[w] \in {"gaveup", "upstream"} /\ ~torn[w]) => steady[w] \subseteq tried[w]

\* What this rests on: a task that reads has every steady node in its hands, or
\* will find it in archNodes: a node that is only there stays there, because it can
\* not turn into a catchup node.
Ahead(w, n) ==
    n \in Members(archNodes) /\ (kind[w] = "old" \/ n \notin Members(catchupNodes))

SteadyInv ==
    \A w \in Tasks : ~torn[w] => \A n \in steady[w] :
        LET held == n \in tried[w] \cup Members(nodes[w])
            read == n \in Members(array[w])
        IN  /\ source[w] = "catchup" =>
                  n \in AllListed /\ (at[w] = "length" => read \/ Ahead(w, n))
            /\ source[w] = "arch" =>
                  held \/ (Ahead(w, n) /\ (at[w] = "length" => read))
            /\ at[w] = "walk" /\ source[w] = "none" => held

\* Which list a task reads at which moment.
ReadInv ==
    \A w \in Tasks :
        /\ at[w] \in {"idle", "write", "done"} => source[w] = "none"
        /\ at[w] \in {"read", "length"} => source[w] # "none"
        /\ at[w] = "walk" => source[w] # "catchup"
        /\ at[w] = "walk" /\ kind[w] = "proxy" => source[w] = "none"
        /\ kind[w] = "old" => source[w] # "catchup"
        /\ answer[w] # "none" => at[w] \in {"write", "done"}

GatewayInv ==
    GatewayTypeOK /\ ArchInv /\ SteadyInv /\ ReadInv /\ OneAnswer /\ RefusedAfterAll

\* What a task has ahead of it: the nodes in its hands, the lists it has not read
\* yet, each with all nodes at most, and where it is.
Effort(w) ==
    Len(nodes[w])
    + (CASE source[w] = "catchup" -> 2 * (Cardinality(Nodes) + 4)
         [] source[w] = "arch"    -> Cardinality(Nodes) + 4
         [] OTHER                 -> 0)
    + (CASE at[w] = "walk" -> 3 [] at[w] = "read" -> 2
         [] at[w] \in {"length", "write"} -> 1 [] OTHER -> 0)

\* No request and no load goes round in circles: whatever the lists turn into while it
\* reads them, and however they are torn, each step of a task that has started
\* takes it nearer to its end, and the steps of the cluster and of other tasks
\* never throw it back.
EffortFalls ==
    [][\A w \in Tasks : at[w] # "idle" =>
          \/ Effort(w)' < Effort(w)
          \/ UNCHANGED <<at[w], source[w], array[w], nodes[w]>>]_gatewayVars

\* What this rests on: no list has more entries than there are nodes.
ShortInv ==
    /\ Len(catchupNodes) <= Cardinality(Nodes) /\ Len(archNodes) <= Cardinality(Nodes)
    /\ \A w \in Tasks : Len(array[w]) <= Cardinality(Nodes)

\* Every request that is passed on gets an answer, although nodes come and go,
\* unless a load has ended the process.  When the client takes it is not said.
RequestsAnswered ==
    \A w \in Tasks :
        (kind[w] = "proxy" /\ at[w] \in {"read", "length", "walk"})
            ~> (at[w] \in {"write", "done"} \/ crashed)
=============================================================================
