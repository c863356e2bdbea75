--------------------------- MODULE PrefetchProofs ---------------------------
(***************************************************************************)
(* The prefetcher stays ahead of the reader and within BP_COUNT rounds of  *)
(* it: for every BP_COUNT, channel size and number of streams.             *)
(***************************************************************************)
EXTENDS Prefetch, TLAPS

\* StreamInv of one stream, for a set of rounds that have been asked for.
Good(b, asked) ==
    /\ b.FirstReq \in asked
    /\ b.FirstReq <= b.LastReq /\ b.FirstReq <= b.LastPre
    /\ b.Hits <= 2 => /\ b.NextPre = 0 /\ b.LastPre = b.FirstReq
                      /\ b.LastReq < b.FirstReq + b.Hits
    /\ b.Hits > 2 => /\ b.NextPre > 0
                     /\ b.NextPre + Half <= b.LastPre + 2
                     /\ b.LastReq <= b.NextPre
                     /\ b.LastPre + Half <= b.NextPre + BP_COUNT
                     /\ \E r \in asked : b.NextPre <= r + Half

\* A stream that has just counted a request in and not yet moved its window.
Counted(b, asked) ==
    /\ b.FirstReq \in asked /\ b.LastReq \in asked
    /\ b.FirstReq <= b.LastReq /\ b.FirstReq <= b.LastPre
    /\ b.NextPre = 0 => /\ b.LastPre = b.FirstReq /\ b.Hits <= 3
                        /\ b.LastReq < b.FirstReq + b.Hits
    /\ b.NextPre # 0 => /\ b.Hits > 2
                        /\ b.NextPre + Half <= b.LastPre + 2
                        /\ b.LastReq <= b.NextPre + 1
                        /\ b.LastPre + Half <= b.NextPre + BP_COUNT
                        /\ \E r \in asked : b.NextPre <= r + Half

\* Half of BP_COUNT, rounded down.
LEMMA HalfFacts ==
    /\ BP_COUNT \in Nat /\ Half \in Nat /\ Half >= 1
    /\ Half + Half <= BP_COUNT
BY PrefetchAssumption DEF Half

\* Moving the window keeps it ahead of the reader and within BP_COUNT of it.
LEMMA AdvancedGood ==
    ASSUME NEW asked, asked \subseteq Nat, NEW b \in BlockPrefetch,
           Counted(b, asked), now \in Nat
    PROVE  /\ Advanced(b) \in BlockPrefetch
           /\ Good(Advanced(b), asked)
           /\ \A p \in Window(b) : /\ \E r \in asked : r < p
                                   /\ \E r \in asked : p <= r + BP_COUNT
<1> DEFINE a == Advanced(b)
<1>1. /\ b.FirstReq \in Nat /\ b.LastReq \in Nat /\ b.LastPre \in Nat
      /\ b.NextPre \in Nat /\ b.Hits \in Nat /\ b.LastPreAt \in Nat
  BY DEF BlockPrefetch
<1>2. CASE Opens(b)
  <2>1. a = Moved(b, b.LastPre + BP_COUNT, b.LastReq + Half)
    BY <1>2 DEF Advanced
  <2>2. /\ a \in BlockPrefetch
        /\ a.FirstReq = b.FirstReq /\ a.LastReq = b.LastReq /\ a.Hits = b.Hits
        /\ a.LastPre = b.LastPre + BP_COUNT /\ a.NextPre = b.LastReq + Half
    BY <1>1, <2>1, HalfFacts DEF BlockPrefetch, Moved
  <2> HIDE DEF a
  <2>3. /\ b.NextPre = 0 /\ b.Hits = 3 /\ b.LastPre = b.FirstReq
        /\ b.LastReq < b.FirstReq + 3
    BY <1>1, <1>2 DEF Opens, Counted
  <2>4. Good(a, asked)
    BY <1>1, <2>2, <2>3, HalfFacts DEF Good, Counted
  <2>5. ASSUME NEW p \in Window(b)
        PROVE  b.FirstReq < p /\ p <= b.FirstReq + BP_COUNT
    BY <1>1, <2>2, <2>3, HalfFacts DEF Window, a
  <2> QED  BY <2>2, <2>4, <2>5 DEF Counted, a
<1>3. CASE Continues(b)
  <2>1. a = Moved(b, b.LastPre + Half, b.NextPre + Half)
    BY <1>3 DEF Advanced, Opens, Continues
  <2>2. /\ a \in BlockPrefetch
        /\ a.FirstReq = b.FirstReq /\ a.LastReq = b.LastReq /\ a.Hits = b.Hits
        /\ a.LastPre = b.LastPre + Half /\ a.NextPre = b.NextPre + Half
    BY <1>1, <2>1, HalfFacts DEF BlockPrefetch, Moved
  <2> HIDE DEF a
  <2>3. b.LastReq = b.NextPre + 1 /\ b.Hits > 2 /\ b.NextPre # 0
    BY <1>1, <1>3 DEF Continues, Counted
  <2>4. a.NextPre <= b.LastReq + Half
    BY <1>1, <2>2, <2>3, HalfFacts
  <2>5. Good(a, asked)
    BY <1>1, <2>2, <2>3, <2>4, HalfFacts DEF Good, Counted
  <2>6. ASSUME NEW p \in Window(b)
        PROVE  b.FirstReq < p /\ p <= b.LastReq + BP_COUNT
    BY <1>1, <2>2, <2>3, HalfFacts DEF Window, a, Counted
  <2> QED  BY <2>2, <2>5, <2>6 DEF Counted, a
<1>4. CASE ~Opens(b) /\ ~Continues(b)
  <2>1. a = b
    BY <1>4 DEF Advanced
  <2>2. Window(b) = {}
    BY <1>1, <2>1 DEF Window
  <2>3. Good(b, asked)
    BY <1>1, <1>4, HalfFacts DEF Good, Counted, Opens, Continues
  <2> QED  BY <2>1, <2>2, <2>3
<1> QED  BY <1>2, <1>3, <1>4

\* Counting a request in, in the stream it continues or in a new one.
LEMMA HitCounted ==
    ASSUME TypeOK, StreamInv, NEW r \in 0 .. MaxRound, NEW i \in Position(r)
    PROVE  /\ i \in 1 .. MaxStreams
           /\ Hit(r, i) \in BlockPrefetch
           /\ Counted(Hit(r, i), seen \cup {r})
<1>1. r \in Nat /\ now \in Nat /\ seen \subseteq Nat
  BY PrefetchAssumption DEF TypeOK
<1>2. CASE i \in DOMAIN bps
  <2>1. i \in Matching(r)
    <3>1. CASE Matching(r) # {}
      BY <3>1 DEF Position
    <3>2. CASE Matching(r) = {}
      BY <1>2, <3>2, PrefetchAssumption DEF Position
    <3> QED  BY <3>1, <3>2
  <2> DEFINE b == bps[i]
             h == Hit(r, i)
  <2>2. /\ b \in BlockPrefetch /\ Good(b, seen)
        /\ b.FirstReq <= r /\ r <= b.LastReq + 1
    BY <1>2, <2>1 DEF TypeOK, StreamInv, Good, Matching
  <2>3. /\ b.FirstReq \in Nat /\ b.LastReq \in Nat /\ b.LastPre \in Nat
        /\ b.NextPre \in Nat /\ b.Hits \in Nat /\ b.LastPreAt \in Nat
    BY <2>2 DEF BlockPrefetch
  <2>4. h = [FirstReq |-> b.FirstReq, LastReq |-> r, LastPre |-> b.LastPre,
             NextPre |-> b.NextPre, Hits |-> IF b.Hits > 2 THEN 3 ELSE b.Hits + 1,
             LastPreAt |-> b.LastPreAt]
    BY <1>2 DEF Hit
  <2>5. /\ h \in BlockPrefetch
        /\ h.FirstReq = b.FirstReq /\ h.LastReq = r /\ h.LastPre = b.LastPre
        /\ h.NextPre = b.NextPre /\ h.Hits = IF b.Hits > 2 THEN 3 ELSE b.Hits + 1
    BY <1>1, <2>3, <2>4 DEF BlockPrefetch
  <2> HIDE DEF b, h
  <2>6. Counted(h, seen \cup {r})
    BY <1>1, <2>2, <2>3, <2>5, HalfFacts DEF Counted, Good
  <2>7. i \in 1 .. MaxStreams
    BY <1>2 DEF TypeOK
  <2> QED  BY <2>5, <2>6, <2>7 DEF h
<1>3. CASE i \notin DOMAIN bps
  <2> DEFINE h == Hit(r, i)
  <2>1. h = [FirstReq |-> r, LastReq |-> r, LastPre |-> r, NextPre |-> 0,
             Hits |-> 1, LastPreAt |-> now]
    BY <1>3 DEF Hit
  <2>2. h \in BlockPrefetch
    BY <1>1, <2>1 DEF BlockPrefetch
  <2>3. Counted(h, seen \cup {r})
    BY <1>1, <2>1 DEF Counted
  <2>4. i \in 1 .. MaxStreams
    BY <1>3 DEF Position, Matching
  <2> QED  BY <2>2, <2>3, <2>4
<1> QED  BY <1>2, <1>3

\* What was asked for stays asked for.
LEMMA GoodGrows ==
    ASSUME NEW b, NEW S, NEW T, S \subseteq T, Good(b, S)
    PROVE  Good(b, T)
BY DEF Good

\* The invariant holds initially and every step keeps it.
LEMMA InitPrefetchInv == Init => PrefetchInv
BY PrefetchAssumption
   DEF Init, PrefetchInv, TypeOK, StreamInv, BoundedLookahead

LEMMA NextPrefetchInv == PrefetchInv /\ [Next]_vars => PrefetchInv'
<1> SUFFICES ASSUME PrefetchInv, [Next]_vars  PROVE PrefetchInv'
  OBVIOUS
<1>1. TypeOK /\ StreamInv /\ BoundedLookahead
  BY DEF PrefetchInv
<1>2. ASSUME NEW r \in 0 .. MaxRound, prefetchNotify(r)  PROVE PrefetchInv'
  <2>1. bpSink' \in Seq(0 .. MaxRound) /\ Len(bpSink') <= SinkSize
    <3>1. CASE Len(bpSink) < SinkSize
      BY <1>1, <1>2, <3>1, PrefetchAssumption DEF prefetchNotify, TypeOK
    <3>2. CASE ~(Len(bpSink) < SinkSize)
      BY <1>1, <1>2, <3>2 DEF prefetchNotify, TypeOK
    <3> QED  BY <3>1, <3>2
  <2>2. UNCHANGED <<bps, now, seen, promised>>
    BY <1>2 DEF prefetchNotify
  <2> QED  BY <1>1, <2>1, <2>2 DEF PrefetchInv, TypeOK, StreamInv, BoundedLookahead
<1>3. CASE prefetchDetect
  <2> DEFINE r == Head(bpSink)
  <2>1. r \in 0 .. MaxRound /\ bpSink' \in Seq(0 .. MaxRound) /\ Len(bpSink') <= SinkSize
    BY <1>1, <1>3, PrefetchAssumption DEF prefetchDetect, TypeOK
  <2>2. PICK i \in Position(r) :
          /\ bps' = prefetchPrune([j \in DOMAIN bps \cup {i} |->
                       IF j = i THEN Advanced(Hit(r, i)) ELSE bps[j]])
          /\ promised' \subseteq Window(Hit(r, i))
    BY <1>3 DEF prefetchDetect
  <2>3. seen' = seen \cup {r} /\ now' = now
    BY <1>3 DEF prefetchDetect
  <2> HIDE DEF r
  <2>4. /\ i \in 1 .. MaxStreams /\ Hit(r, i) \in BlockPrefetch
        /\ Counted(Hit(r, i), seen')
    BY <1>1, <2>1, <2>3, HitCounted
  <2>5. now \in Nat /\ seen' \subseteq 0 .. MaxRound /\ seen' \subseteq Nat
    BY <1>1, <2>1, <2>3, PrefetchAssumption DEF TypeOK
  <2>6. /\ Advanced(Hit(r, i)) \in BlockPrefetch
        /\ Good(Advanced(Hit(r, i)), seen')
        /\ \A p \in Window(Hit(r, i)) : /\ \E s \in seen' : s < p
                                        /\ \E s \in seen' : p <= s + BP_COUNT
    BY <2>4, <2>5, AdvancedGood
  <2>7. \A j \in DOMAIN bps : bps[j] \in BlockPrefetch /\ Good(bps[j], seen')
    <3>1. \A j \in DOMAIN bps : bps[j] \in BlockPrefetch /\ Good(bps[j], seen)
      BY <1>1 DEF TypeOK, StreamInv, Good
    <3> QED  BY <2>3, <3>1, GoodGrows
  <2>8. /\ DOMAIN bps' \subseteq DOMAIN bps \cup {i}
        /\ \A j \in DOMAIN bps' :
              bps'[j] = IF j = i THEN Advanced(Hit(r, i)) ELSE bps[j]
        /\ bps' = [j \in DOMAIN bps' |-> bps'[j]]
    BY <2>2 DEF prefetchPrune
  <2>9. \A j \in DOMAIN bps' : bps'[j] \in BlockPrefetch /\ Good(bps'[j], seen')
    BY <2>6, <2>7, <2>8
  <2>10. promised' \subseteq Nat
    <3>1. Hit(r, i).LastPre \in Nat /\ Advanced(Hit(r, i)).LastPre \in Nat
      BY <2>4, <2>6 DEF BlockPrefetch
    <3> QED  BY <2>2, <3>1 DEF Window
  <2>11. TypeOK'
    BY <1>1, <2>1, <2>3, <2>4, <2>5, <2>8, <2>9, <2>10 DEF TypeOK
  <2>12. StreamInv'
    BY <2>9 DEF StreamInv, Good
  <2>13. BoundedLookahead'
    BY <2>2, <2>6 DEF BoundedLookahead
  <2> QED  BY <2>11, <2>12, <2>13 DEF PrefetchInv
<1>4. CASE Tick
  BY <1>1, <1>4 DEF Tick, PrefetchInv, TypeOK, StreamInv, BoundedLookahead
<1>5. CASE UNCHANGED vars
  BY <1>1, <1>5 DEF vars, PrefetchInv, TypeOK, StreamInv, BoundedLookahead
<1> QED  BY <1>2, <1>3, <1>4, <1>5 DEF Next

\* The streams keep their shape in every run of the prefetcher.
THEOREM PrefetchInvariant == Spec => []PrefetchInv
<1>1. Init => PrefetchInv
  BY InitPrefetchInv
<1>2. PrefetchInv /\ [Next]_vars => PrefetchInv'
  BY NextPrefetchInv
<1> QED  BY <1>1, <1>2, PTL DEF Spec

\* The prefetcher's variables keep their types; no round it asks for is negative.
THEOREM PrefetchTypes == Spec => []TypeOK
<1>1. PrefetchInv => TypeOK
    BY DEF PrefetchInv
<1> QED BY <1>1, PrefetchInvariant, PTL

\* The reader of a prefetched stream never outruns the window.
THEOREM ReaderNeverOutruns == Spec => []AheadOfReader
<1>1. PrefetchInv => AheadOfReader
  BY DEF PrefetchInv, StreamInv, AheadOfReader
<1> QED  BY <1>1, PrefetchInvariant, PTL

\* No round is promised that is more than BP_COUNT beyond every request.
THEOREM LookaheadBounded == Spec => []BoundedLookahead
<1>1. PrefetchInv => BoundedLookahead
  BY DEF PrefetchInv
<1> QED  BY <1>1, PrefetchInvariant, PTL
=============================================================================
