---------------------------- MODULE BlockService ----------------------------
(***************************************************************************)
(* What the block cache promises to an HTTP client, without caches,        *)
(* entries, channels or loads: a request names a round and gets one final  *)
(* answer; a block is only served once some node has delivered it; a round *)
(* that is refused outright is one the cluster has not reached.            *)
(***************************************************************************)
EXTENDS Integers

CONSTANTS
    Requests,   \* the clients' requests
    Rounds,     \* the rounds that may be asked for
    NoRound     \* a request that has not been made yet

VARIABLES
    asked,      \* the round of each request, or NoRound
    answer,     \* "none", "block", "error" or "timeout"
    delivered,  \* the rounds whose block some node has delivered
    latest      \* the cluster's latest round

serviceVars == <<asked, answer, delivered, latest>>

ServiceInit ==
    /\ asked = [q \in Requests |-> NoRound]
    /\ answer = [q \in Requests |-> "none"]
    /\ delivered = {}
    /\ latest = 0

Request(q, r) ==
    /\ asked[q] = NoRound
    /\ r <= latest
    /\ asked' = [asked EXCEPT ![q] = r]
    /\ UNCHANGED <<answer, delivered, latest>>

\* A round in the future is refused at once.
Refuse(q, r) ==
    /\ asked[q] = NoRound
    /\ r > latest
    /\ asked' = [asked EXCEPT ![q] = r]
    /\ answer' = [answer EXCEPT ![q] = "error"]
    /\ UNCHANGED <<delivered, latest>>

Serve(q) ==
    /\ asked[q] # NoRound
    /\ answer[q] = "none"
    /\ asked[q] \in delivered
    /\ answer' = [answer EXCEPT ![q] = "block"]
    /\ UNCHANGED <<asked, delivered, latest>>

GiveUp(q) ==
    /\ asked[q] # NoRound
    /\ answer[q] = "none"
    /\ \E out \in {"error", "timeout"} : answer' = [answer EXCEPT ![q] = out]
    /\ UNCHANGED <<asked, delivered, latest>>

\* A node reports a later round; its block need not be here yet.
Advance ==
    /\ \E r \in Rounds : r > latest /\ latest' = r
    /\ UNCHANGED <<asked, answer, delivered>>

\* A node delivers a block, at most one the cluster now knows to exist.
Deliver ==
    /\ \E r \in Rounds :
         /\ delivered' = delivered \cup {r}
         /\ latest' = IF r > latest THEN r ELSE latest
    /\ UNCHANGED <<asked, answer>>

ServiceNext ==
    \/ \E q \in Requests : \/ \E r \in Rounds : Request(q, r) \/ Refuse(q, r)
                           \/ Serve(q) \/ GiveUp(q)
    \/ Advance
    \/ Deliver

ServiceSpec == ServiceInit /\ [][ServiceNext]_serviceVars
=============================================================================
