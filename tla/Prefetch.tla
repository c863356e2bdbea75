------------------------------ MODULE Prefetch ------------------------------
(***************************************************************************)
(* The block prefetcher (internal/algod/prefetch.go).  Every msgpack block *)
(* request notifies it through a bounded channel; it looks for indexers    *)
(* that read rounds in sequence and promises the rounds ahead of them.     *)
(*                                                                         *)
(* gs.bps is a slice of pointers: here it is a function from positions to  *)
(* streams, of which pruning drops some and keeps the order of the rest.   *)
(* Only the monitor goroutine touches it, so prefetchDetect is one step;   *)
(* time is a clock that ticks between the steps.                           *)
(***************************************************************************)
EXTENDS Integers, Sequences

CONSTANTS
    BP_COUNT,    \* BP_COUNT (30)
    SinkSize,    \* capacity of bpSink (100)
    Minute,      \* age at which a stream is pruned
    MaxRound,    \* bound: the rounds that are asked for are 0 .. MaxRound
    MaxStreams,  \* bound: positions in gs.bps
    MaxTime      \* bound: ticks of the clock

ASSUME PrefetchAssumption ==
    /\ BP_COUNT \in Nat /\ BP_COUNT >= 2
    /\ SinkSize \in Nat
    /\ Minute \in Nat
    /\ MaxRound \in Nat
    /\ MaxStreams \in Nat
    /\ MaxTime \in Nat

VARIABLES
    bps,       \* gs.bps
    bpSink,    \* the notifications in the channel, oldest first
    now,       \* the clock
    seen,      \* history: rounds prefetchDetect has been called with
    promised   \* history: rounds the latest prefetchDetect handed to PromiseBlock

vars == <<bps, bpSink, now, seen, promised>>

Half == BP_COUNT \div 2

BlockPrefetch == [FirstReq : Nat, LastReq : Nat, LastPre : Nat, NextPre : Nat,
                  Hits : Nat, LastPreAt : Nat]

-----------------------------------------------------------------------------
\* The handlers never wait for the prefetcher: a full channel drops the round.
prefetchNotify(r) ==
    /\ bpSink' = IF Len(bpSink) < SinkSize THEN Append(bpSink, r) ELSE bpSink
    /\ UNCHANGED <<bps, now, seen, promised>>

\* The streams a round continues or repeats.
Matching(r) == {i \in DOMAIN bps : bps[i].FirstReq <= r /\ r <= bps[i].LastReq + 1}

\* The first of them, or the position after the last stream.
Position(r) ==
    IF Matching(r) # {}
    THEN {i \in Matching(r) : \A j \in Matching(r) : i <= j}
    ELSE {i \in 1 .. MaxStreams : /\ \A j \in DOMAIN bps : j < i
                                  /\ i = 1 \/ i - 1 \in DOMAIN bps}

\* The stream at i with the request r counted in.  The code only asks whether
\* Hits is greater than 2, so 3 stands for every larger count.
Hit(r, i) ==
    IF i \in DOMAIN bps
    THEN [FirstReq |-> bps[i].FirstReq, LastReq |-> r, LastPre |-> bps[i].LastPre,
          NextPre |-> bps[i].NextPre,
          Hits |-> IF bps[i].Hits > 2 THEN 3 ELSE bps[i].Hits + 1,
          LastPreAt |-> bps[i].LastPreAt]
    ELSE [FirstReq |-> r, LastReq |-> r, LastPre |-> r, NextPre |-> 0,
          Hits |-> 1, LastPreAt |-> now]

\* The third hit opens a window of BP_COUNT rounds, a request beyond NextPre
\* another one of half that size.
Opens(b)      == b.Hits > 2 /\ b.NextPre = 0
Continues(b)  == b.Hits > 2 /\ b.NextPre # 0 /\ b.LastReq > b.NextPre

\* The stream after its window was promised.
Moved(b, lastPre, nextPre) ==
    [FirstReq |-> b.FirstReq, LastReq |-> b.LastReq, LastPre |-> lastPre,
     NextPre |-> nextPre, Hits |-> b.Hits, LastPreAt |-> now]

\* Mutant: the trigger moves twice as far as the window.
AdvancedTooFar(b) ==
    IF Opens(b) THEN Moved(b, b.LastPre + BP_COUNT, b.LastReq + Half)
    ELSE IF Continues(b) THEN Moved(b, b.LastPre + Half, b.NextPre + BP_COUNT)
    ELSE b

\* Mutant: the trigger is set behind the request and not before it.
AdvancedBehind(b) ==
    IF Opens(b) THEN Moved(b, b.LastPre + BP_COUNT, b.LastReq - Half)
    ELSE IF Continues(b) THEN Moved(b, b.LastPre + Half, b.NextPre + Half)
    ELSE b

\* Mutant: every request of a stream moves the window.
AdvancedAlways(b) ==
    IF Opens(b) THEN Moved(b, b.LastPre + BP_COUNT, b.LastReq + Half)
    ELSE IF b.Hits > 2 THEN Moved(b, b.LastPre + Half, b.NextPre + Half)
    ELSE b

Advanced(b) ==
    IF Opens(b) THEN Moved(b, b.LastPre + BP_COUNT, b.LastReq + Half)
    ELSE IF Continues(b) THEN Moved(b, b.LastPre + Half, b.NextPre + Half)
    ELSE b

\* The rounds of the window b moves over.
Window(b) == (b.LastPre + 1) .. Advanced(b).LastPre

Expired(b) == b.LastPreAt + Minute < now

prefetchPrune(streams) ==
    [i \in {j \in DOMAIN streams : ~Expired(streams[j])} |-> streams[i]]

\* The first window is promised but for the rounds at which IsBlockCached(round)
\* holds: it is evaluated anew for each, while other goroutines use the cache.
prefetchDetect ==
    /\ bpSink # <<>>
    /\ \E i \in Position(Head(bpSink)) :
       LET r == Head(bpSink)
           b == Hit(r, i)
       IN  /\ bps' = prefetchPrune([j \in DOMAIN bps \cup {i} |->
                                       IF j = i THEN Advanced(b) ELSE bps[j]])
           /\ seen' = seen \cup {r}
           /\ \E skipped \in IF Opens(b) THEN SUBSET Window(b) ELSE {{}} :
                 promised' = Window(b) \ skipped
    /\ bpSink' = Tail(bpSink)
    /\ UNCHANGED now

Tick ==
    /\ now < MaxTime
    /\ now' = now + 1
    /\ UNCHANGED <<bps, bpSink, seen, promised>>

-----------------------------------------------------------------------------
Init ==
    /\ bps = [i \in {} |-> 0]
    /\ bpSink = <<>>
    /\ now = 0
    /\ seen = {}
    /\ promised = {}

Next ==
    \/ \E r \in 0 .. MaxRound : prefetchNotify(r)
    \/ prefetchDetect
    \/ Tick

Spec == Init /\ [][Next]_vars

-----------------------------------------------------------------------------
(* Properties *)

TypeOK ==
    /\ DOMAIN bps \subseteq 1 .. MaxStreams
    /\ bps \in [DOMAIN bps -> BlockPrefetch]
    /\ bpSink \in Seq(0 .. MaxRound)
    /\ Len(bpSink) <= SinkSize
    /\ now \in Nat
    /\ seen \subseteq 0 .. MaxRound
    /\ promised \subseteq Nat

\* The reader never outruns the prefetcher: once a stream is prefetched for,
\* its last request is not beyond the trigger of the next window, and what has
\* been promised reaches at least Half - 2 rounds beyond that trigger, however
\* the requests of several indexers interleave in the stream.
AheadOfReader ==
    \A i \in DOMAIN bps :
        bps[i].Hits > 2 => /\ bps[i].LastReq <= bps[i].NextPre
                           /\ bps[i].NextPre + Half <= bps[i].LastPre + 2

\* The prefetcher never runs away: a round it promises lies beyond a round that
\* was asked for, and at most BP_COUNT beyond one.
BoundedLookahead ==
    \A p \in promised : /\ \E r \in seen : r < p
                        /\ \E r \in seen : p <= r + BP_COUNT

\* The inductive invariant behind both: a young stream has not moved, and a
\* window is always half a window ahead of a trigger set by a real request.
StreamInv ==
    \A i \in DOMAIN bps :
        LET b == bps[i] IN
        /\ b.FirstReq \in seen
        /\ b.FirstReq <= b.LastReq /\ b.FirstReq <= b.LastPre
        /\ b.Hits <= 2 => /\ b.NextPre = 0 /\ b.LastPre = b.FirstReq
                          /\ b.LastReq < b.FirstReq + b.Hits
        /\ b.Hits > 2 => /\ b.NextPre > 0
                         /\ b.NextPre + Half <= b.LastPre + 2
                         /\ b.LastReq <= b.NextPre
                         /\ b.LastPre + Half <= b.NextPre + BP_COUNT
                         /\ \E r \in seen : b.NextPre <= r + Half

PrefetchInv == TypeOK /\ StreamInv /\ BoundedLookahead
=============================================================================
