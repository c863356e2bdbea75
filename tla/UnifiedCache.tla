---------------------------- MODULE UnifiedCache ----------------------------
(***************************************************************************)
(* The unified block cache (internal/blockcache) and the goroutines that   *)
(* use it: GetBlock calls of HTTP requests, PromiseBlock calls of the      *)
(* prefetcher, the LoadBlockSync goroutine each promise starts, and the    *)
(* node monitors that feed new blocks (BlockSink).                         *)
(*                                                                         *)
(* A *BlockEntry and a WaitFor channel are pointers in the code: they are  *)
(* numbers here, 0 is nil, and make() takes the lowest number nothing      *)
(* refers to.  One step is one critical section.  The LRU operation that   *)
(* finds an entry and the critical section on that entry which follows it  *)
(* at once are one step: what lies between changes the recency order at    *)
(* most, on which the entry does not depend.  What the code does without a *)
(* lock between two critical sections may interleave: choosing a cache and *)
(* promising, waiting and reading again, SetLatestRound and AddBlock,      *)
(* isBlockCached and AddBlock.                                             *)
(***************************************************************************)
EXTENDS Integers, Sequences, FiniteSets

CONSTANTS
    Requests,     \* GetBlock calls of the HTTP handlers
    Prefetches,   \* PromiseBlock calls of the prefetcher
    Nodes,        \* upstream nodes, each with its monitor goroutine
    MaxRound,     \* bound: rounds are 0 .. MaxRound
    MaxSynced,    \* bound: synced nodes of each kind
    Word,         \* rounds are uint64: Word stands for 2^64
    CatchupSize,  \* CatchupSize (1000)
    ArchSize,     \* ArchSize (1000)
    Slack,        \* the 4 of LoadBlockSync
    Entries,      \* pool of entry identities
    Chans         \* pool of channel identities

Threads == Requests \cup Prefetches
Rounds  == 0 .. MaxRound
Caches  == {"catchup", "arch"}
Errors  == {"none", "load", "timeout"}
NoBlock == -1                       \* BlockEntry.B = nil
Size(c) == IF c = "catchup" THEN CatchupSize ELSE ArchSize

ASSUME CacheAssumption ==
    /\ Requests \cap Prefetches = {}
    /\ MaxRound \in Nat
    /\ MaxSynced \in Nat
    /\ Word \in Nat /\ Word > MaxRound
    /\ CatchupSize \in Nat \ {0}
    /\ ArchSize \in Nat \ {0}
    /\ Slack \in Nat
    /\ Entries \subseteq Nat \ {0}
    /\ Chans \subseteq Nat \ {0}

VARIABLES
    heap,         \* every BlockEntry ever made
    closed,       \* the closed channels
    lru,          \* each cache's entries, least recently used first
    last,         \* catchupCache.last
    latestRound,  \* NodeCluster.latestRound
    pc, rnd,      \* where each thread is, and the round it is after
    phase,        \* the five statements of GetBlock
    at,           \* the cache PromiseBlock chose
    be, wf,       \* the entry and the channel a getBlock waits with
    expired,      \* requests whose context is done
    resp,         \* what the handler answers
    load, left,   \* LoadBlockSync of each thread, and the nodes it has left
    feed,         \* per node: the round its monitor has asked for, or NoBlock
    sunk,         \* nodes whose BlockSink is about to call AddBlock
    fetched       \* history: rounds some node has delivered

cacheVars  == <<heap, closed, lru, last>>
threadVars == <<pc, rnd, phase, at, be, wf, expired, resp>>
loadVars   == <<load, left>>
feedVars   == <<feed, sunk>>
vars == <<cacheVars, latestRound, threadVars, loadVars, feedVars, fetched>>

-----------------------------------------------------------------------------
(* The LRU (github.com/hashicorp/golang-lru) *)

Resident(c) == {lru[c][i] : i \in DOMAIN lru[c]}

\* Peek(round): the entry of a round, without touching the recency order.
Peek(c, r) == {e \in Resident(c) : heap[e].Round = r}

\* Get(round) also makes the entry the most recently used one.
Touch(s, e) ==
    LET i == CHOOSE i \in DOMAIN s : s[i] = e
    IN  [k \in DOMAIN s |->
            IF k < i THEN s[k] ELSE IF k < Len(s) THEN s[k + 1] ELSE e]

\* Add(round, e) evicts the least recently used entry of a full cache.
Add(s, e, size) == IF Len(s) < size THEN Append(s, e) ELSE Append(Tail(s), e)

\* make() and new() return what nothing refers to.
Lowest(S) == {x \in S : \A y \in S : x <= y}
NewEntry == Lowest({e \in Entries : /\ \A c \in Caches : e \notin Resident(c)
                                    /\ \A t \in Threads : be[t] # e})
NewChan == Lowest({ch \in Chans : /\ \A e \in Entries : heap[e].WaitFor # ch
                                  /\ \A t \in Threads : wf[t] # ch})

-----------------------------------------------------------------------------
(* BlockCache and UnifiedBlockCache *)

IsBlockPromised(c, r) == Peek(c, r) # {}

IsBlockCached(r) == \E c \in Caches : \E e \in Peek(c, r) : heap[e].B # NoBlock

\* uint64 subtraction: below CatchupSize rounds, last - CatchupSize wraps.
getCacheWithPeek(r) ==
    IF r = 0 \/ IsBlockPromised("arch", r) THEN "arch"
    ELSE IF last = 0 \/ r > (last - CatchupSize) % Word THEN "catchup"
    ELSE "arch"

\* Mutant: the channel is closed but not set to nil.
DeliveredKeepsChannel(e, err) ==
    [heap[e] EXCEPT !.B = IF err = "none" THEN heap[e].Round ELSE @,
                    !.Error = IF heap[e].B = NoBlock /\ @ = "none" THEN err ELSE @]

\* Mutant: the wrap is stored without looking at its error.
DeliveredUnchecked(e, err) ==
    [heap[e] EXCEPT !.B = heap[e].Round, !.WaitFor = 0]

\* Mutant: an error is stored although the block is there.
DeliveredLateError(e, err) ==
    [heap[e] EXCEPT !.B = IF err = "none" THEN heap[e].Round ELSE @,
                    !.Error = IF @ = "none" THEN err ELSE @,
                    !.WaitFor = 0]

\* What addBlock makes of the entry it finds: a block replaces nothing but nil,
\* an error neither a block nor an earlier error; the channel is let go.
Delivered(e, err) ==
    [Round   |-> heap[e].Round,
     B       |-> IF heap[e].B = NoBlock /\ err = "none" THEN heap[e].Round
                 ELSE heap[e].B,
     Error   |-> IF heap[e].B = NoBlock /\ heap[e].Error = "none" THEN err
                 ELSE heap[e].Error,
     WaitFor |-> 0]

\* bc.addBlock(&BlockWrap{Round: r, Error: err}); err = "none" carries a block.
addBlock(c, r, err) ==
    /\ \/ \E e \in Peek(c, r) :
            /\ heap' = [heap EXCEPT ![e] = Delivered(e, err)]
            /\ closed' = closed \cup ({heap[e].WaitFor} \ {0})
            /\ UNCHANGED lru
       \/ /\ Peek(c, r) = {}
          /\ \E e \in NewEntry :
               /\ heap' = [heap EXCEPT ![e] =
                    [Round |-> r, B |-> IF err = "none" THEN r ELSE NoBlock,
                     Error |-> err, WaitFor |-> 0]]
               /\ lru' = [lru EXCEPT ![c] = Add(@, e, Size(c))]
          /\ UNCHANGED closed
    /\ last' = IF c = "catchup" /\ err = "none" /\ last < r THEN r ELSE last

\* One step, under the unified lock.  A promise or an expired getBlock, which do
\* not take it, could come between the choice and the addBlock: that is as if it
\* came before the one or after the other, unless it evicts from archCache the
\* entry the choice rests on; the block is then one that arrives in archCache
\* after its promise was evicted.
AddBlock(r, err) == addBlock(getCacheWithPeek(r), r, err)

\* Mutant: every promise rearms the entry it finds.
MustRearmAlways(e) == TRUE

\* promiseBlock gives an entry that holds an error a new channel ("rearm").
MustRearm(e) == heap[e].Error # "none"

promiseBlock(c, r) ==
    /\ \/ /\ Peek(c, r) = {}
          /\ \E e \in NewEntry, ch \in NewChan :
               /\ heap' = [heap EXCEPT ![e] =
                    [Round |-> r, B |-> NoBlock, Error |-> "none", WaitFor |-> ch]]
               /\ lru' = [lru EXCEPT ![c] = Add(@, e, Size(c))]
               /\ closed' = closed \ {ch}
       \/ \E e \in Peek(c, r) :
            /\ MustRearm(e)
            /\ \E ch \in NewChan :
                 /\ heap' = [heap EXCEPT ![e] =
                      [Round |-> heap[e].Round, B |-> heap[e].B,
                       Error |-> "none", WaitFor |-> ch]]
                 /\ closed' = closed \ {ch}
            /\ UNCHANGED lru
       \/ \E e \in Peek(c, r) :
            /\ ~MustRearm(e)
            /\ UNCHANGED <<heap, closed, lru>>
    /\ UNCHANGED last

-----------------------------------------------------------------------------
(* GetBlock: a request's goroutine *)

CacheAt(q) == IF phase[q] \in {1, 4} THEN "catchup" ELSE "arch"

Answer(q, out) ==
    /\ pc' = [pc EXCEPT ![q] = "done"]
    /\ resp' = [resp EXCEPT ![q] = IF q \in expired THEN "timeout" ELSE out]
    /\ UNCHANGED phase

Proceed(q) ==
    /\ pc' = [pc EXCEPT ![q] = IF phase[q] = 2 THEN "route" ELSE "get"]
    /\ phase' = [phase EXCEPT ![q] = @ + 1]
    /\ UNCHANGED resp

\* What GetBlock does with the result (bw, err) of a getBlock: the first two
\* calls ignore the error, the last two return it.
Conclude(q, bw, err) ==
    /\ be' = [be EXCEPT ![q] = 0]
    /\ wf' = [wf EXCEPT ![q] = 0]
    /\ \/ bw # NoBlock /\ Answer(q, "block")
       \/ bw = NoBlock /\ phase[q] \in {1, 2} /\ Proceed(q)
       \/ bw = NoBlock /\ phase[q] = 4 /\ err = "none" /\ Proceed(q)
       \/ bw = NoBlock /\ phase[q] = 4 /\ err # "none" /\ Answer(q, "error")
       \/ bw = NoBlock /\ phase[q] = 5 /\ Answer(q, "error")

\* blocksHandler calls NodeCluster.GetBlock, which refuses future rounds.
StartGet(q, r) ==
    /\ pc[q] = "idle"
    /\ rnd' = [rnd EXCEPT ![q] = r]
    /\ IF r > latestRound
       THEN /\ pc' = [pc EXCEPT ![q] = "done"]
            /\ resp' = [resp EXCEPT ![q] = "error"]
       ELSE /\ pc' = [pc EXCEPT ![q] = "get"]
            /\ UNCHANGED resp
    /\ UNCHANGED <<cacheVars, latestRound, phase, at, be, wf, expired, loadVars,
                   feedVars, fetched>>

\* getBlock up to its return or its wait: the error is looked at first.
Get(q) ==
    LET c == CacheAt(q) IN
    /\ pc[q] = "get"
    /\ \/ Peek(c, rnd[q]) = {} /\ Conclude(q, NoBlock, "none") /\ UNCHANGED lru
       \/ \E e \in Peek(c, rnd[q]) :
            /\ lru' = [lru EXCEPT ![c] = Touch(@, e)]
            /\ \/ /\ heap[e].Error # "none"
                  /\ Conclude(q, NoBlock, heap[e].Error)
               \/ /\ heap[e].Error = "none" /\ heap[e].B # NoBlock
                  /\ Conclude(q, heap[e].B, "none")
               \/ /\ heap[e].Error = "none" /\ heap[e].B = NoBlock
                  /\ heap[e].WaitFor # 0
                  /\ be' = [be EXCEPT ![q] = e]
                  /\ wf' = [wf EXCEPT ![q] = heap[e].WaitFor]
                  /\ pc' = [pc EXCEPT ![q] = "wait"]
                  /\ UNCHANGED <<phase, resp>>
               \/ /\ heap[e].Error = "none" /\ heap[e].B = NoBlock
                  /\ heap[e].WaitFor = 0
                  /\ Conclude(q, NoBlock, "load")
    /\ UNCHANGED <<heap, closed, last, latestRound, rnd, at, expired, loadVars,
                   feedVars, fetched>>

\* <-wf
Wake(q) ==
    /\ pc[q] = "wait"
    /\ wf[q] \in closed
    /\ pc' = [pc EXCEPT ![q] = "woken"]
    /\ UNCHANGED <<cacheVars, latestRound, rnd, phase, at, be, wf, expired,
                   resp, loadVars, feedVars, fetched>>

\* The woken getBlock reads its entry again: it may have been rearmed since.
Reread(q) ==
    /\ pc[q] = "woken"
    /\ IF heap[be[q]].Error # "none"
       THEN Conclude(q, NoBlock, heap[be[q]].Error)
       ELSE Conclude(q, heap[be[q]].B, "none")
    /\ UNCHANGED <<cacheVars, latestRound, rnd, at, expired, loadVars,
                   feedVars, fetched>>

\* Mutant: the select has no ctx.Done() case.
ExpireNever(q) == pc[q] = "none" /\ UNCHANGED vars

\* <-ctx.Done(): the expired request puts an error into the shared cache.
Expire(q) ==
    /\ pc[q] = "wait"
    /\ q \in expired
    /\ addBlock(CacheAt(q), rnd[q], "timeout")
    /\ Conclude(q, NoBlock, "timeout")
    /\ UNCHANGED <<latestRound, rnd, at, expired, loadVars, feedVars, fetched>>

\* The ten seconds of the handler's context, or the client going away.
Deadline(q) ==
    /\ pc[q] \notin {"idle", "done"}
    /\ expired' = expired \cup {q}
    /\ UNCHANGED <<cacheVars, latestRound, pc, rnd, phase, at, be, wf, resp,
                   loadVars, feedVars, fetched>>

-----------------------------------------------------------------------------
(* PromiseBlock: called by GetBlock and by the prefetcher, never under the
   cache's lock, so the chosen cache may be out of date when it is used. *)

StartPrefetch(p, r) ==
    /\ pc[p] = "idle"
    /\ rnd' = [rnd EXCEPT ![p] = r]
    /\ pc' = [pc EXCEPT ![p] = "route"]
    /\ UNCHANGED <<cacheVars, latestRound, phase, at, be, wf, expired, resp,
                   loadVars, feedVars, fetched>>

Route(t) ==
    /\ pc[t] = "route"
    /\ at' = [at EXCEPT ![t] = getCacheWithPeek(rnd[t])]
    /\ pc' = [pc EXCEPT ![t] = "promise"]
    /\ UNCHANGED <<cacheVars, latestRound, rnd, phase, be, wf, expired, resp,
                   loadVars, feedVars, fetched>>

\* promiseBlock, then the LoadBlockSync goroutine is started.
Promise(t) ==
    /\ pc[t] = "promise"
    /\ promiseBlock(at[t], rnd[t])
    /\ load' = [load EXCEPT ![t] = "start"]
    /\ pc' = [pc EXCEPT ![t] = IF t \in Requests THEN "get" ELSE "done"]
    /\ phase' = [phase EXCEPT ![t] = 4]
    /\ at' = [at EXCEPT ![t] = "arch"]
    /\ UNCHANGED <<latestRound, rnd, be, wf, expired, resp, left,
                   feedVars, fetched>>

-----------------------------------------------------------------------------
(* LoadBlockSync and fetchBlockRaw *)

\* Recent rounds are asked of the catchup nodes, then of the archival ones.
NodesToTry(r, nc, na) ==
    IF r > (latestRound - CatchupSize + Slack) % Word THEN nc + na ELSE na

LoadFuture(t) ==
    /\ load[t] = "start"
    /\ rnd[t] > latestRound
    /\ AddBlock(rnd[t], "load")
    /\ load' = [load EXCEPT ![t] = "done"]
    /\ UNCHANGED <<latestRound, threadVars, left, feedVars, fetched>>

LoadStart(t) ==
    /\ load[t] = "start"
    /\ rnd[t] <= latestRound
    /\ \E nc, na \in 0 .. MaxSynced :
         left' = [left EXCEPT ![t] = NodesToTry(rnd[t], nc, na)]
    /\ load' = [load EXCEPT ![t] = "try"]
    /\ UNCHANGED <<cacheVars, latestRound, threadVars, feedVars, fetched>>

\* No node is left: the load ends and nobody is told.
LoadGiveUp(t) ==
    /\ load[t] = "try" /\ left[t] = 0
    /\ load' = [load EXCEPT ![t] = "done"]
    /\ UNCHANGED <<cacheVars, latestRound, threadVars, left, feedVars, fetched>>

\* Mutant: the node that failed is tried once more after the last one.
LoadFailAgain(t) ==
    /\ load[t] = "try" /\ left[t] >= 0
    /\ AddBlock(rnd[t], "load")
    /\ left' = [left EXCEPT ![t] = @ - 1]
    /\ UNCHANGED <<latestRound, threadVars, load, feedVars, fetched>>

\* fetchBlockRaw fails: BlockSinkError delivers the error of this one node.
LoadFail(t) ==
    /\ load[t] = "try" /\ left[t] > 0
    /\ AddBlock(rnd[t], "load")
    /\ left' = [left EXCEPT ![t] = @ - 1]
    /\ UNCHANGED <<latestRound, threadVars, load, feedVars, fetched>>

\* fetchBlockRaw succeeds: BlockSink drops the block when it is cached; it
\* cannot win SetLatestRound, for the round is not in the future.
LoadFetched(t) ==
    /\ load[t] = "try" /\ left[t] > 0
    /\ fetched' = fetched \cup {rnd[t]}
    /\ load' = [load EXCEPT ![t] = IF IsBlockCached(rnd[t]) THEN "done" ELSE "sink"]
    /\ UNCHANGED <<cacheVars, latestRound, threadVars, left, feedVars>>

\* MakeBlockWrap, then AddBlock.
LoadSink(t) ==
    /\ load[t] = "sink"
    /\ AddBlock(rnd[t], "none")
    /\ load' = [load EXCEPT ![t] = "done"]
    /\ UNCHANGED <<latestRound, threadVars, left, feedVars, fetched>>

\* MakeBlockWrap fails: the block is lost, fetchBlockRaw still returns true.
LoadWrapError(t) ==
    /\ load[t] = "sink"
    /\ load' = [load EXCEPT ![t] = "done"]
    /\ UNCHANGED <<cacheVars, latestRound, threadVars, left, feedVars, fetched>>

-----------------------------------------------------------------------------
(* A node's boot and monitor, as far as they touch the cache *)

\* updateStatus in boot: the cluster jumps to the round the node reports.
BootStatus(n, r) ==
    /\ feed[n] = NoBlock
    /\ r > latestRound
    /\ latestRound' = r
    /\ UNCHANGED <<cacheVars, threadVars, loadVars, feedVars, fetched>>

\* boot asks for block 0; Monitor for the one after the cluster's latest
\* (a latest round of 0 is taken for a failure and reboots the node).
Ask(n) ==
    /\ feed[n] = NoBlock
    /\ \/ feed' = [feed EXCEPT ![n] = 0]
       \/ /\ latestRound \in 1 .. MaxRound - 1
          /\ feed' = [feed EXCEPT ![n] = latestRound + 1]
    /\ UNCHANGED <<cacheVars, latestRound, threadVars, loadVars, sunk, fetched>>

AskFailed(n) ==
    /\ feed[n] # NoBlock /\ n \notin sunk
    /\ AddBlock(feed[n], "load")
    /\ feed' = [feed EXCEPT ![n] = NoBlock]
    /\ UNCHANGED <<latestRound, threadVars, loadVars, sunk, fetched>>

\* BlockSink: SetLatestRound, or the block of a lost race if it is not cached.
BlockSink(n) ==
    /\ feed[n] # NoBlock /\ n \notin sunk
    /\ fetched' = fetched \cup {feed[n]}
    /\ \/ /\ feed[n] > latestRound
          /\ latestRound' = feed[n]
          /\ sunk' = sunk \cup {n} /\ UNCHANGED feed
       \/ /\ feed[n] <= latestRound /\ ~IsBlockCached(feed[n])
          /\ sunk' = sunk \cup {n} /\ UNCHANGED <<feed, latestRound>>
       \/ /\ feed[n] <= latestRound /\ IsBlockCached(feed[n])
          /\ feed' = [feed EXCEPT ![n] = NoBlock] /\ UNCHANGED <<sunk, latestRound>>
    /\ UNCHANGED <<cacheVars, threadVars, loadVars>>

BlockSinkAdd(n) ==
    /\ n \in sunk
    /\ AddBlock(feed[n], "none")
    /\ sunk' = sunk \ {n}
    /\ feed' = [feed EXCEPT ![n] = NoBlock]
    /\ UNCHANGED <<latestRound, threadVars, loadVars, fetched>>

BlockSinkWrapError(n) ==
    /\ n \in sunk
    /\ sunk' = sunk \ {n}
    /\ feed' = [feed EXCEPT ![n] = NoBlock]
    /\ UNCHANGED <<cacheVars, latestRound, threadVars, loadVars, fetched>>

-----------------------------------------------------------------------------
Init ==
    /\ heap = [e \in Entries |->
                 [Round |-> 0, B |-> NoBlock, Error |-> "none", WaitFor |-> 0]]
    /\ closed = {}
    /\ lru = [c \in Caches |-> <<>>]
    /\ last = 0
    /\ latestRound = 0
    /\ pc = [t \in Threads |-> "idle"]
    /\ rnd = [t \in Threads |-> 0]
    /\ phase = [t \in Threads |-> 1]
    /\ at = [t \in Threads |-> "arch"]
    /\ be = [t \in Threads |-> 0]
    /\ wf = [t \in Threads |-> 0]
    /\ expired = {}
    /\ resp = [t \in Threads |-> "none"]
    /\ load = [t \in Threads |-> "none"]
    /\ left = [t \in Threads |-> 0]
    /\ feed = [n \in Nodes |-> NoBlock]
    /\ sunk = {}
    /\ fetched = {}

RequestStep(q) ==
    \/ Get(q) \/ Wake(q) \/ Reread(q) \/ Expire(q)

PromiseStep(t) == Route(t) \/ Promise(t)

LoadStep(t) ==
    \/ LoadFuture(t) \/ LoadStart(t) \/ LoadGiveUp(t) \/ LoadFail(t)
    \/ LoadFetched(t) \/ LoadSink(t) \/ LoadWrapError(t)

NodeStep(n) ==
    \/ \E r \in Rounds : BootStatus(n, r)
    \/ Ask(n) \/ AskFailed(n) \/ BlockSink(n) \/ BlockSinkAdd(n)
    \/ BlockSinkWrapError(n)

Next ==
    \/ \E q \in Requests : \/ \E r \in Rounds : StartGet(q, r)
                           \/ RequestStep(q)
                           \/ Deadline(q)
    \/ \E p \in Prefetches, r \in Rounds : StartPrefetch(p, r)
    \/ \E t \in Threads : PromiseStep(t) \/ LoadStep(t)
    \/ \E n \in Nodes : NodeStep(n)

Spec == Init /\ [][Next]_vars

\* The runtime schedules every runnable goroutine and fires every timer.  An
\* upstream call may hang for ever: BlockRaw runs without a timeout.
Fairness ==
    \A q \in Requests : /\ WF_vars(RequestStep(q))
                        /\ WF_vars(PromiseStep(q))
                        /\ WF_vars(Deadline(q))

FairSpec == Spec /\ Fairness

-----------------------------------------------------------------------------
(* Properties *)

TypeOK ==
    /\ heap \in [Entries -> [Round : Rounds, B : Rounds \cup {NoBlock},
                             Error : Errors, WaitFor : Chans \cup {0}]]
    /\ closed \subseteq Chans
    /\ lru \in [Caches -> Seq(Entries)]
    /\ last \in Rounds
    /\ latestRound \in Rounds
    /\ pc \in [Threads -> {"idle", "get", "wait", "woken", "route", "promise", "done"}]
    /\ rnd \in [Threads -> Rounds]
    /\ phase \in [Threads -> 1 .. 5]
    /\ at \in [Threads -> Caches]
    /\ be \in [Threads -> Entries \cup {0}]
    /\ wf \in [Threads -> Chans \cup {0}]
    /\ expired \subseteq Requests
    /\ resp \in [Threads -> {"none", "block", "error", "timeout"}]
    /\ load \in [Threads -> {"none", "start", "try", "sink", "done"}]
    /\ left \in [Threads -> Nat]
    /\ feed \in [Nodes -> Rounds \cup {NoBlock}]
    /\ sunk \subseteq Nodes
    /\ fetched \subseteq Rounds

\* Nobody sleeps through a delivery.  A getBlock that waits on a channel which
\* is still open waits on the channel its entry holds now, and that entry has
\* neither a block nor an error: addBlock closes what it resolves, and the
\* rearming in promiseBlock ("FIXME: danger") never replaces a channel that
\* someone waits on.
NoLostWakeup ==
    \A q \in Requests :
        (pc[q] = "wait" /\ wf[q] \notin closed) =>
            /\ heap[be[q]].WaitFor = wf[q]
            /\ heap[be[q]].B = NoBlock
            /\ heap[be[q]].Error = "none"

\* close() never panics: the channel an entry holds is open and no other entry
\* holds it, although addBlock is called with and without the cache's lock.
CloseOnce ==
    \A e \in Entries :
        heap[e].WaitFor # 0 =>
            /\ heap[e].WaitFor \notin closed
            /\ \A f \in Entries \ {e} : heap[f].WaitFor # heap[e].WaitFor

\* What the invariants above rest on.  A getBlock waits with the entry of its
\* own round; a block in an entry is the fetched block of the entry's round; a
\* load or a monitor that is about to add a block has fetched it; a request
\* has an answer when it is done and not before.
WaitersHold ==
    \A q \in Requests :
        /\ pc[q] \in {"wait", "woken"} => /\ be[q] \in Entries
                                          /\ heap[be[q]].Round = rnd[q]
        /\ pc[q] = "wait" => wf[q] \in Chans

BlocksFetched ==
    \A e \in Entries :
        heap[e].B # NoBlock => heap[e].B = heap[e].Round /\ heap[e].B \in fetched

LoadsKnown ==
    \A t \in Threads :
        /\ load[t] # "none" => pc[t] # "idle"
        /\ load[t] \in {"try", "sink"} => rnd[t] <= latestRound
        /\ load[t] = "sink" => rnd[t] \in fetched

FeedsKnown == \A n \in sunk : feed[n] \in fetched

AnsweredWhenDone ==
    \A q \in Requests : (pc[q] = "done") <=> (resp[q] # "none")

\* The inductive invariant: GetBlock sleeps on the right channel, closes it
\* once, and holds the right block, in every interleaving with the loads.
CacheInv ==
    /\ TypeOK /\ NoLostWakeup /\ CloseOnce
    /\ WaitersHold /\ BlocksFetched /\ LoadsKnown /\ FeedsKnown
    /\ AnsweredWhenDone

\* An entry that a cache or a waiting getBlock refers to.
InUse(e) == (\E c \in Caches : e \in Resident(c)) \/ (\E t \in Threads : be[t] = e)

\* ReadsCachedBlock fails when an error comes before the block.  The other way
\* round nothing is lost: a block that can be read stays readable as long as its
\* entry is in use.  Neither the failure of a second load, nor an expired request,
\* nor a promise that rearms the entry takes it away, and a block that an error
\* hides is kept for the promise that clears the error.
BlocksStay ==
    [][\A e \in Entries : (InUse(e) /\ heap[e].B # NoBlock) =>
          /\ heap'[e].B = heap[e].B /\ heap'[e].Round = heap[e].Round
          /\ heap[e].Error = "none" => heap'[e].Error = "none"]_vars

\* Every GetBlock returns, whatever the loads do: ctx.Done bounds each wait.
EveryGetReturns ==
    \A q \in Requests : pc[q] = "get" ~> pc[q] = "done"

\* What a client sees of this module, as the state of BlockService.
Asked   == [q \in Requests |-> IF pc[q] = "idle" THEN NoBlock ELSE rnd[q]]
Answers == [q \in Requests |-> resp[q]]

Service == INSTANCE BlockService WITH
    NoRound   <- NoBlock,
    asked     <- Asked,
    answer    <- Answers,
    delivered <- fetched,
    latest    <- latestRound

\* GetBlock implements the block service: whatever the interleaving, a request
\* gets one final answer, a block that is served was delivered by a node and is
\* the block of the round asked for, the latest round never goes back, and no
\* block is delivered before the cluster knows its round.
ImplementsService == Service!ServiceSpec

\* "GetBlock reads cached block": no request is answered with an error while
\* the block it asked for is in one of the caches.
ReadsCachedBlock ==
    [][\A q \in Requests : (resp[q] = "none" /\ resp'[q] = "error")
                              => ~IsBlockCached(rnd'[q])]_vars

\* "or blocks till one is fetched from the cluster": nobody goes on waiting for
\* a block that has been fetched and put into one of the caches.
BlocksTillFetched ==
    \A q \in Requests :
        (pc[q] = "wait" /\ wf[q] \notin closed) => ~IsBlockCached(rnd[q])
=============================================================================
