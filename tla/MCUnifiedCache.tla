--------------------------- MODULE MCUnifiedCache ---------------------------
(* Small instances of UnifiedCache. *)
EXTENDS UnifiedCache, TLC

CONSTANTS q1, q2, p1, n1

\* Nothing tells one request from another.
Alike == Permutations(Requests)

\* Bound: a prefetch runs along only while round 2 is not in play.  It is there
\* to share a promise with the request, for which rounds 0 and 1 are enough;
\* round 2 is there to evict and to re-route under the request.
PrefetchBound ==
    (\E p \in Prefetches : pc[p] # "idle") =>
        /\ latestRound < 2
        /\ \A t \in Threads : rnd[t] < 2
        /\ \A n \in Nodes : feed[n] < 2
        /\ \A e \in Entries : heap[e].Round < 2

\* make() never fails: there is an entry and a channel for everything that
\* can hold one.
ASSUME PoolAssumption ==
    /\ Cardinality(Entries) > CatchupSize + ArchSize + Cardinality(Threads)
    /\ Cardinality(Chans) > Cardinality(Entries) + Cardinality(Threads)
=============================================================================
