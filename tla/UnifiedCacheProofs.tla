------------------------- MODULE UnifiedCacheProofs -------------------------
(***************************************************************************)
(* The invariants of UnifiedCache, proved for every number of requests,    *)
(* prefetches, nodes and rounds and for every size of the caches.          *)
(***************************************************************************)
EXTENDS UnifiedCache, SequenceTheorems, TLAPS

Entry == [Round : Rounds, B : Rounds \cup {NoBlock}, Error : Errors,
          WaitFor : Chans \cup {0}]

\* TypeOK and CloseOnce of a heap h and a set cl of closed channels.
Sound(h, cl) ==
    /\ h \in [Entries -> Entry]
    /\ cl \subseteq Chans
    /\ \A e \in Entries :
         h[e].WaitFor # 0 =>
            /\ h[e].WaitFor \notin cl
            /\ \A f \in Entries \ {e} : h[f].WaitFor # h[e].WaitFor

\* BlocksFetched of a heap h.
Stocked(h) ==
    \A e \in Entries :
        h[e].B # NoBlock => h[e].B = h[e].Round /\ h[e].B \in fetched

\* NoLostWakeup of one waiting request.
Asleep(q, h, cl) ==
    /\ wf[q] \in Chans
    /\ wf[q] \notin cl => /\ h[be[q]].WaitFor = wf[q]
                          /\ h[be[q]].B = NoBlock
                          /\ h[be[q]].Error = "none"

-----------------------------------------------------------------------------
(* The LRU *)

\* A sequence is a function on 1 .. n.
LEMMA FunctionIsSeq ==
    ASSUME NEW S, NEW n \in Nat, NEW f \in [1 .. n -> S]
    PROVE  f \in Seq(S)
BY SeqDef

\* Moving an entry to the recent end keeps a list of entries.
LEMMA TouchType ==
    ASSUME NEW s \in Seq(Entries), NEW e \in Entries
    PROVE  Touch(s, e) \in Seq(Entries)
<1> DEFINE i == CHOOSE i \in DOMAIN s : s[i] = e
           f == [k \in DOMAIN s |->
                   IF k < i THEN s[k] ELSE IF k < Len(s) THEN s[k + 1] ELSE e]
<1>1. Len(s) \in Nat /\ DOMAIN s = 1 .. Len(s) /\ \A k \in 1 .. Len(s) : s[k] \in Entries
  OBVIOUS
<1>2. f \in [1 .. Len(s) -> Entries]
  <2>1. ASSUME NEW k \in 1 .. Len(s), ~(k < i), k < Len(s)
        PROVE  s[k + 1] \in Entries
    BY <2>1, <1>1
  <2> HIDE DEF i
  <2> QED  BY <1>1, <2>1
<1>3. f \in Seq(Entries)
  BY <1>1, <1>2, FunctionIsSeq
<1> QED  BY <1>3 DEF Touch

\* Adding an entry, with or without an eviction, keeps a list of entries.
LEMMA AddType ==
    ASSUME NEW s \in Seq(Entries), NEW e \in Entries, NEW size \in Nat \ {0}
    PROVE  Add(s, e, size) \in Seq(Entries)
<1>1. CASE Len(s) < size
  BY <1>1 DEF Add
<1>2. CASE ~(Len(s) < size)
  <2>1. Len(s) \in Nat  OBVIOUS
  <2>2. s # <<>>  BY <1>2, <2>1
  <2>3. Tail(s) \in Seq(Entries)  BY <2>2
  <2> QED  BY <1>2, <2>3 DEF Add
<1> QED  BY <1>1, <1>2

\* What a cache lists are entries.
LEMMA PeekType ==
    ASSUME TypeOK, NEW c \in Caches, NEW r
    PROVE  \A e \in Peek(c, r) : e \in Entries /\ heap[e].Round = r
<1>1. lru[c] \in Seq(Entries)
  BY DEF TypeOK
<1>2. \A i \in DOMAIN lru[c] : lru[c][i] \in Entries
  BY <1>1
<1> QED  BY <1>2 DEF Peek, Resident

\* A new entry is nobody's, and a new channel is neither an entry's nor a
\* waiter's.
LEMMA FreshEntry ==
    ASSUME NEW e \in NewEntry
    PROVE  e \in Entries /\ \A t \in Threads : be[t] # e
BY DEF NewEntry, Lowest

LEMMA FreshChan ==
    ASSUME NEW ch \in NewChan
    PROVE  /\ ch \in Chans
           /\ \A e \in Entries : heap[e].WaitFor # ch
           /\ \A t \in Threads : wf[t] # ch
BY DEF NewChan, Lowest

-----------------------------------------------------------------------------
(* addBlock and promiseBlock *)

\* The parts of the invariant that speak of the heap only.
LEMMA HeapParts ==
    ASSUME CacheInv
    PROVE  Sound(heap, closed) /\ Stocked(heap)
BY DEF CacheInv, TypeOK, CloseOnce, BlocksFetched, Sound, Stocked, Entry

\* addBlock keeps the heap sound, the blocks where they belong and every
\* waiter informed: the channel it lets go is closed in the same step.
LEMMA AddBlockKeeps ==
    ASSUME CacheInv, NEW c \in Caches, NEW r \in Rounds, NEW err \in Errors,
           addBlock(c, r, err),
           err = "none" => r \in fetched
    PROVE  /\ Sound(heap', closed')
           /\ Stocked(heap')
           /\ \A q \in Requests : be[q] \in Entries =>
                /\ heap'[be[q]].Round = heap[be[q]].Round
                /\ Asleep(q, heap, closed) => Asleep(q, heap', closed')
           /\ lru' \in [Caches -> Seq(Entries)]
           /\ last' \in Rounds
<1>1. TypeOK /\ Sound(heap, closed) /\ Stocked(heap)
  BY HeapParts DEF CacheInv
<1>2. last' \in Rounds
  BY <1>1 DEF addBlock, TypeOK
<1>3. CASE /\ \E e \in Peek(c, r) :
                /\ heap' = [heap EXCEPT ![e] = Delivered(e, err)]
                /\ closed' = closed \cup ({heap[e].WaitFor} \ {0})
                /\ UNCHANGED lru
  <2>1. PICK e \in Entries :
               /\ heap[e].Round = r
               /\ heap' = [heap EXCEPT ![e] = Delivered(e, err)]
               /\ closed' = closed \cup ({heap[e].WaitFor} \ {0})
    BY <1>1, <1>3, PeekType
  <2>2. Delivered(e, err) \in Entry /\ heap[e] \in Entry
    BY <1>1, <2>1 DEF Sound, Delivered, Entry
  <2>3. /\ heap'[e] = Delivered(e, err)
        /\ \A f \in Entries \ {e} : heap'[f] = heap[f]
        /\ heap' \in [Entries -> Entry]
    BY <1>1, <2>1, <2>2 DEF Sound
  <2>4. /\ heap'[e].Round = heap[e].Round
        /\ heap'[e].WaitFor = 0
        /\ heap'[e].B = IF heap[e].B = NoBlock /\ err = "none"
                        THEN heap[e].Round ELSE heap[e].B
    BY <2>3 DEF Delivered
  <2>5. Sound(heap', closed')
    BY <1>1, <2>1, <2>2, <2>3, <2>4 DEF Sound, Entry
  <2>6. Stocked(heap')
    BY <1>1, <2>1, <2>3, <2>4 DEF Stocked
  <2>7. ASSUME NEW q \in Requests, be[q] \in Entries
        PROVE  /\ heap'[be[q]].Round = heap[be[q]].Round
               /\ Asleep(q, heap, closed) => Asleep(q, heap', closed')
    <3>1. 0 \notin Chans
      BY CacheAssumption
    <3>2. CASE be[q] = e
      BY <2>1, <2>4, <3>1, <3>2 DEF Asleep
    <3>3. CASE be[q] # e
      BY <2>1, <2>3, <2>7, <3>3 DEF Asleep
    <3> QED  BY <3>2, <3>3
  <2> QED  BY <1>1, <1>2, <1>3, <2>5, <2>6, <2>7 DEF TypeOK
<1>4. CASE /\ Peek(c, r) = {}
           /\ \E e \in NewEntry :
               /\ heap' = [heap EXCEPT ![e] =
                    [Round |-> r, B |-> IF err = "none" THEN r ELSE NoBlock,
                     Error |-> err, WaitFor |-> 0]]
               /\ lru' = [lru EXCEPT ![c] = Add(@, e, Size(c))]
           /\ UNCHANGED closed
  <2> DEFINE new == [Round |-> r, B |-> IF err = "none" THEN r ELSE NoBlock,
                     Error |-> err, WaitFor |-> 0]
  <2>1. PICK e \in Entries :
               /\ heap' = [heap EXCEPT ![e] = new]
               /\ lru' = [lru EXCEPT ![c] = Add(@, e, Size(c))]
               /\ \A t \in Threads : be[t] # e
    BY <1>4, FreshEntry
  <2>2. /\ new \in Entry /\ new.WaitFor = 0 /\ new.Round = r
        /\ new.B = IF err = "none" THEN r ELSE NoBlock
    BY DEF Entry
  <2> HIDE DEF new
  <2>3. /\ heap'[e] = new
        /\ \A f \in Entries \ {e} : heap'[f] = heap[f]
        /\ heap' \in [Entries -> Entry]
    BY <1>1, <2>1, <2>2 DEF Sound
  <2>4. Sound(heap', closed')
    BY <1>1, <1>4, <2>2, <2>3 DEF Sound
  <2>5. Stocked(heap')
    BY <1>1, <2>2, <2>3 DEF Stocked
  <2>6. \A q \in Requests : be[q] \in Entries =>
                /\ heap'[be[q]].Round = heap[be[q]].Round
                /\ Asleep(q, heap, closed) => Asleep(q, heap', closed')
    BY <1>4, <2>1, <2>3 DEF Asleep, Threads
  <2>7. lru' \in [Caches -> Seq(Entries)]
    <3>1. Size(c) \in Nat \ {0}
      BY CacheAssumption DEF Size
    <3>2. Add(lru[c], e, Size(c)) \in Seq(Entries)
      BY <1>1, <3>1, AddType DEF TypeOK
    <3> QED  BY <1>1, <2>1, <3>2 DEF TypeOK
  <2> QED  BY <1>2, <2>4, <2>5, <2>6, <2>7
<1> QED  BY <1>3, <1>4 DEF addBlock

\* promiseBlock replaces no channel that somebody waits on: the entry it rearms
\* holds an error, and whoever waited with it has been woken.
LEMMA PromiseBlockKeeps ==
    ASSUME CacheInv, NEW c \in Caches, NEW r \in Rounds, promiseBlock(c, r)
    PROVE  /\ Sound(heap', closed')
           /\ Stocked(heap')
           /\ \A q \in Requests : be[q] \in Entries =>
                /\ heap'[be[q]].Round = heap[be[q]].Round
                /\ Asleep(q, heap, closed) => Asleep(q, heap', closed')
           /\ lru' \in [Caches -> Seq(Entries)]
           /\ last' \in Rounds
<1>1. TypeOK /\ Sound(heap, closed) /\ Stocked(heap)
  BY HeapParts DEF CacheInv
<1>2. last' \in Rounds
  BY <1>1 DEF promiseBlock, TypeOK
<1>3. CASE /\ Peek(c, r) = {}
           /\ \E e \in NewEntry, ch \in NewChan :
               /\ heap' = [heap EXCEPT ![e] =
                    [Round |-> r, B |-> NoBlock, Error |-> "none", WaitFor |-> ch]]
               /\ lru' = [lru EXCEPT ![c] = Add(@, e, Size(c))]
               /\ closed' = closed \ {ch}
  <2> DEFINE new(ch) == [Round |-> r, B |-> NoBlock, Error |-> "none",
                         WaitFor |-> ch]
  <2>1. PICK e \in NewEntry, ch \in NewChan :
               /\ heap' = [heap EXCEPT ![e] = new(ch)]
               /\ lru' = [lru EXCEPT ![c] = Add(@, e, Size(c))]
               /\ closed' = closed \ {ch}
    BY <1>3
  <2>2. /\ e \in Entries /\ \A t \in Threads : be[t] # e
        /\ ch \in Chans
        /\ \A f \in Entries : heap[f].WaitFor # ch
        /\ \A t \in Threads : wf[t] # ch
    BY FreshEntry, FreshChan
  <2>3. /\ new(ch) \in Entry /\ new(ch).WaitFor = ch /\ new(ch).Round = r
        /\ new(ch).B = NoBlock
    BY <2>2 DEF Entry, Errors
  <2> HIDE DEF new
  <2>4. /\ heap'[e] = new(ch)
        /\ \A f \in Entries \ {e} : heap'[f] = heap[f]
        /\ heap' \in [Entries -> Entry]
    BY <1>1, <2>1, <2>2, <2>3 DEF Sound
  <2>5. Sound(heap', closed')
    BY <1>1, <2>1, <2>2, <2>3, <2>4 DEF Sound
  <2>6. Stocked(heap')
    BY <1>1, <2>3, <2>4 DEF Stocked
  <2>7. \A q \in Requests : be[q] \in Entries =>
                /\ heap'[be[q]].Round = heap[be[q]].Round
                /\ Asleep(q, heap, closed) => Asleep(q, heap', closed')
    BY <2>1, <2>2, <2>4 DEF Asleep, Threads
  <2>8. lru' \in [Caches -> Seq(Entries)]
    <3>1. Size(c) \in Nat \ {0}
      BY CacheAssumption DEF Size
    <3>2. Add(lru[c], e, Size(c)) \in Seq(Entries)
      BY <1>1, <2>2, <3>1, AddType DEF TypeOK
    <3> QED  BY <1>1, <2>1, <3>2 DEF TypeOK
  <2> QED  BY <1>2, <2>5, <2>6, <2>7, <2>8
<1>4. CASE \E e \in Peek(c, r) :
            /\ MustRearm(e)
            /\ \E ch \in NewChan :
                 /\ heap' = [heap EXCEPT ![e] =
                      [Round |-> heap[e].Round, B |-> heap[e].B,
                       Error |-> "none", WaitFor |-> ch]]
                 /\ closed' = closed \ {ch}
            /\ UNCHANGED lru
  <2> DEFINE new(e, ch) == [Round |-> heap[e].Round, B |-> heap[e].B,
                            Error |-> "none", WaitFor |-> ch]
  <2>1. PICK e \in Entries, ch \in NewChan :
               /\ heap[e].Error # "none"
               /\ heap' = [heap EXCEPT ![e] = new(e, ch)]
               /\ closed' = closed \ {ch}
    BY <1>1, <1>4, PeekType DEF MustRearm
  <2>2. /\ ch \in Chans
        /\ \A f \in Entries : heap[f].WaitFor # ch
        /\ \A t \in Threads : wf[t] # ch
    BY FreshChan
  <2>3. /\ new(e, ch) \in Entry /\ new(e, ch).WaitFor = ch
        /\ new(e, ch).Round = heap[e].Round /\ new(e, ch).B = heap[e].B
    BY <1>1, <2>1, <2>2 DEF Sound, Entry, Errors
  <2> HIDE DEF new
  <2>4. /\ heap'[e] = new(e, ch)
        /\ \A f \in Entries \ {e} : heap'[f] = heap[f]
        /\ heap' \in [Entries -> Entry]
    BY <1>1, <2>1, <2>2, <2>3 DEF Sound
  <2>5. Sound(heap', closed')
    BY <1>1, <2>1, <2>2, <2>3, <2>4 DEF Sound
  <2>6. Stocked(heap')
    BY <1>1, <2>3, <2>4 DEF Stocked
  <2>7. \A q \in Requests : be[q] \in Entries =>
                /\ heap'[be[q]].Round = heap[be[q]].Round
                /\ Asleep(q, heap, closed) => Asleep(q, heap', closed')
    BY <2>1, <2>2, <2>3, <2>4 DEF Asleep, Threads
  <2> QED  BY <1>1, <1>2, <1>4, <2>5, <2>6, <2>7 DEF TypeOK
<1>5. CASE UNCHANGED <<heap, closed, lru>>
  BY <1>1, <1>2, <1>5 DEF TypeOK, Stocked, Asleep
<1> QED  BY <1>3, <1>4, <1>5 DEF promiseBlock

\* The cache a round is looked for or kept in.
LEMMA CacheChosen ==
    /\ \A r \in Rounds : getCacheWithPeek(r) \in Caches
    /\ \A q \in Requests : CacheAt(q) \in Caches
BY DEF getCacheWithPeek, CacheAt, Caches

-----------------------------------------------------------------------------
(* The invariant is inductive *)

\* How the facts about the heap give back the invariant when a step leaves the
\* threads alone.
LEMMA Reassemble ==
    ASSUME CacheInv,
           Sound(heap', closed'), Stocked(heap'),
           \A q \in Requests : be[q] \in Entries =>
                /\ heap'[be[q]].Round = heap[be[q]].Round
                /\ Asleep(q, heap, closed) => Asleep(q, heap', closed'),
           UNCHANGED <<threadVars, fetched>>
    PROVE  NoLostWakeup' /\ CloseOnce' /\ WaitersHold' /\ BlocksFetched'
           /\ AnsweredWhenDone'
<1>1. CloseOnce' /\ BlocksFetched' /\ AnsweredWhenDone'
  BY DEF Sound, Stocked, CacheInv, CloseOnce, BlocksFetched, AnsweredWhenDone,
         threadVars
<1>2. WaitersHold'
  BY DEF CacheInv, WaitersHold, threadVars
<1>3. \A q \in Requests : pc[q] = "wait" =>
         be[q] \in Entries /\ Asleep(q, heap, closed)
  BY DEF CacheInv, WaitersHold, NoLostWakeup, Asleep
<1>4. NoLostWakeup'
  BY <1>3 DEF NoLostWakeup, Asleep, threadVars
<1> QED  BY <1>1, <1>2, <1>4

\* An initial state satisfies the invariant.
LEMMA InitCacheInv == Init => CacheInv
<1> SUFFICES ASSUME Init PROVE CacheInv
  OBVIOUS
<1>1. TypeOK
  <2>1. <<>> \in Seq(Entries)  OBVIOUS
  <2> QED  BY <2>1, CacheAssumption DEF Init, TypeOK, Errors, Rounds, Caches
<1> QED
  BY <1>1 DEF Init, CacheInv, NoLostWakeup, CloseOnce, WaitersHold,
     BlocksFetched, LoadsKnown, FeedsKnown, AnsweredWhenDone, Threads

\* LoadBlockSync and the monitors: the steps that only call AddBlock.
LEMMA AddStepKeeps ==
    ASSUME CacheInv, NEW r \in Rounds, NEW err \in Errors, AddBlock(r, err),
           err = "none" => r \in fetched,
           UNCHANGED <<latestRound, threadVars, fetched>>,
           load' \in [Threads -> {"none", "start", "try", "sink", "done"}],
           left' \in [Threads -> Nat],
           feed' \in [Nodes -> Rounds \cup {NoBlock}],
           sunk' \subseteq Nodes,
           LoadsKnown', FeedsKnown'
    PROVE  CacheInv'
<1>1. getCacheWithPeek(r) \in Caches
  BY CacheChosen
<1>2. addBlock(getCacheWithPeek(r), r, err)
  BY DEF AddBlock
<1>3. /\ Sound(heap', closed') /\ Stocked(heap')
      /\ \A q \in Requests : be[q] \in Entries =>
                /\ heap'[be[q]].Round = heap[be[q]].Round
                /\ Asleep(q, heap, closed) => Asleep(q, heap', closed')
      /\ lru' \in [Caches -> Seq(Entries)]
      /\ last' \in Rounds
  BY <1>1, <1>2, AddBlockKeeps
<1>4. TypeOK'
  BY <1>3 DEF CacheInv, TypeOK, Sound, Entry, threadVars
<1>5. NoLostWakeup' /\ CloseOnce' /\ WaitersHold' /\ BlocksFetched'
      /\ AnsweredWhenDone'
  BY <1>3, Reassemble
<1> QED  BY <1>4, <1>5 DEF CacheInv

\* A step in which one request q moves, to a place where it waits for nothing,
\* and the heap changes by an addBlock at most.
LEMMA OneRequestMoves ==
    ASSUME CacheInv, NEW q \in Requests,
           Sound(heap', closed'), Stocked(heap'),
           \A p \in Requests : be[p] \in Entries =>
                /\ heap'[be[p]].Round = heap[be[p]].Round
                /\ Asleep(p, heap, closed) => Asleep(p, heap', closed'),
           \A t \in Threads \ {q} : /\ pc'[t] = pc[t] /\ resp'[t] = resp[t]
                                    /\ be'[t] = be[t] /\ wf'[t] = wf[t]
                                    /\ rnd'[t] = rnd[t],
           pc'[q] \in {"done", "route", "get"},
           (pc'[q] = "done") <=> (resp'[q] # "none"),
           UNCHANGED fetched
    PROVE  NoLostWakeup' /\ CloseOnce' /\ WaitersHold' /\ BlocksFetched'
           /\ AnsweredWhenDone'
<1>1. CloseOnce' /\ BlocksFetched'
  BY DEF Sound, Stocked, CloseOnce, BlocksFetched
<1>2. ASSUME NEW p \in Requests
      PROVE  (pc'[p] = "done") <=> (resp'[p] # "none")
  BY DEF CacheInv, AnsweredWhenDone, Threads
<1>3. ASSUME NEW p \in Requests
      PROVE  /\ pc'[p] \in {"wait", "woken"} => /\ be'[p] \in Entries
                                                /\ heap'[be'[p]].Round = rnd'[p]
             /\ pc'[p] = "wait" => wf'[p] \in Chans
  <2>1. CASE p = q  BY <2>1
  <2>2. CASE p # q
    BY <2>2 DEF CacheInv, WaitersHold, Threads
  <2> QED  BY <2>1, <2>2
<1>4. ASSUME NEW p \in Requests, pc'[p] = "wait", wf'[p] \notin closed'
      PROVE  /\ heap'[be'[p]].WaitFor = wf'[p]
             /\ heap'[be'[p]].B = NoBlock
             /\ heap'[be'[p]].Error = "none"
  <2>1. p # q /\ pc[p] = "wait" /\ be'[p] = be[p] /\ wf'[p] = wf[p]
    BY <1>4 DEF Threads
  <2>2. be[p] \in Entries /\ Asleep(p, heap, closed)
    BY <2>1 DEF CacheInv, WaitersHold, NoLostWakeup, Asleep
  <2> QED  BY <1>4, <2>1, <2>2 DEF Asleep
<1> QED  BY <1>1, <1>2, <1>3, <1>4 DEF AnsweredWhenDone, WaitersHold, NoLostWakeup

\* What the end of a getBlock does to the thread's own variables.
LEMMA ConcludeMoves ==
    ASSUME CacheInv, NEW q \in Requests, NEW bw, NEW err,
           pc[q] \in {"get", "wait", "woken"},
           Conclude(q, bw, err)
    PROVE  /\ pc' \in [Threads -> {"idle", "get", "wait", "woken", "route",
                                   "promise", "done"}]
           /\ phase' \in [Threads -> 1 .. 5]
           /\ resp' \in [Threads -> {"none", "block", "error", "timeout"}]
           /\ be' \in [Threads -> Entries \cup {0}]
           /\ wf' \in [Threads -> Chans \cup {0}]
           /\ \A t \in Threads \ {q} : /\ pc'[t] = pc[t] /\ resp'[t] = resp[t]
                                       /\ be'[t] = be[t] /\ wf'[t] = wf[t]
           /\ pc'[q] \in {"done", "route", "get"}
           /\ (pc'[q] = "done") <=> (resp'[q] # "none")
<1>1. q \in Threads  BY DEF Threads
<1>2. TypeOK /\ resp[q] = "none"
  BY DEF CacheInv, AnsweredWhenDone
<1>3. /\ be' \in [Threads -> Entries \cup {0}]
      /\ wf' \in [Threads -> Chans \cup {0}]
      /\ \A t \in Threads \ {q} : be'[t] = be[t] /\ wf'[t] = wf[t]
  BY <1>1, <1>2 DEF Conclude, TypeOK
<1>4. ASSUME NEW out \in {"block", "error"}, Answer(q, out)
      PROVE  /\ pc' = [pc EXCEPT ![q] = "done"] /\ phase' = phase
             /\ \E o \in {"block", "error", "timeout"} : resp' = [resp EXCEPT ![q] = o]
  BY <1>4 DEF Answer
<1>5. ASSUME Proceed(q), phase[q] \in {1, 2, 4}
      PROVE  /\ \E o \in {"route", "get"} : pc' = [pc EXCEPT ![q] = o]
             /\ resp' = resp
             /\ phase' \in [Threads -> 1 .. 5]
  <2>1. phase[q] + 1 \in 1 .. 5
    BY <1>5
  <2>2. phase' = [phase EXCEPT ![q] = phase[q] + 1]
    BY <1>5 DEF Proceed
  <2>3. phase' \in [Threads -> 1 .. 5]
    BY <1>2, <2>1, <2>2 DEF TypeOK
  <2>4. CASE phase[q] = 2
    BY <1>5, <2>3, <2>4 DEF Proceed
  <2>5. CASE phase[q] # 2
    BY <1>5, <2>3, <2>5 DEF Proceed
  <2> QED  BY <2>4, <2>5
<1>6. \/ \E out \in {"block", "error"} : Answer(q, out)
      \/ Proceed(q) /\ phase[q] \in {1, 2, 4}
  BY DEF Conclude
<1>7. CASE \E out \in {"block", "error"} : Answer(q, out)
  <2>1. PICK o \in {"block", "error", "timeout"} :
           /\ resp' = [resp EXCEPT ![q] = o]
           /\ pc' = [pc EXCEPT ![q] = "done"] /\ phase' = phase
    BY <1>4, <1>7
  <2> QED  BY <1>1, <1>2, <1>3, <2>1 DEF TypeOK
<1>8. CASE Proceed(q) /\ phase[q] \in {1, 2, 4}
  <2>1. PICK o \in {"route", "get"} : pc' = [pc EXCEPT ![q] = o]
    BY <1>5, <1>8
  <2>2. resp' = resp /\ phase' \in [Threads -> 1 .. 5]
    BY <1>5, <1>8
  <2> QED  BY <1>1, <1>2, <1>3, <2>1, <2>2 DEF TypeOK
<1> QED  BY <1>6, <1>7, <1>8

\* A step that ends a getBlock.
LEMMA EndOfGetKeeps ==
    ASSUME CacheInv, NEW q \in Requests, NEW bw, NEW err,
           pc[q] \in {"get", "wait", "woken"},
           Conclude(q, bw, err),
           Sound(heap', closed'), Stocked(heap'),
           \A p \in Requests : be[p] \in Entries =>
                /\ heap'[be[p]].Round = heap[be[p]].Round
                /\ Asleep(p, heap, closed) => Asleep(p, heap', closed'),
           lru' \in [Caches -> Seq(Entries)],
           last' \in Rounds,
           UNCHANGED <<latestRound, rnd, at, expired, loadVars, feedVars, fetched>>
    PROVE  CacheInv'
<1>1. /\ pc' \in [Threads -> {"idle", "get", "wait", "woken", "route",
                              "promise", "done"}]
      /\ phase' \in [Threads -> 1 .. 5]
      /\ resp' \in [Threads -> {"none", "block", "error", "timeout"}]
      /\ be' \in [Threads -> Entries \cup {0}]
      /\ wf' \in [Threads -> Chans \cup {0}]
      /\ \A t \in Threads \ {q} : /\ pc'[t] = pc[t] /\ resp'[t] = resp[t]
                                  /\ be'[t] = be[t] /\ wf'[t] = wf[t]
      /\ pc'[q] \in {"done", "route", "get"}
      /\ (pc'[q] = "done") <=> (resp'[q] # "none")
  BY ConcludeMoves
<1>2. TypeOK'
  BY <1>1 DEF CacheInv, TypeOK, Sound, Entry, loadVars, feedVars
<1>3. NoLostWakeup' /\ CloseOnce' /\ WaitersHold' /\ BlocksFetched'
      /\ AnsweredWhenDone'
  BY <1>1, OneRequestMoves
<1>4. LoadsKnown' /\ FeedsKnown'
  BY <1>1 DEF CacheInv, LoadsKnown, FeedsKnown, loadVars, feedVars
<1> QED  BY <1>2, <1>3, <1>4 DEF CacheInv

\* The steps of a GetBlock.
LEMMA RequestKeeps ==
    ASSUME CacheInv, NEW q \in Requests,
           (\E r \in Rounds : StartGet(q, r)) \/ RequestStep(q) \/ Deadline(q)
    PROVE  CacheInv'
<1>1. q \in Threads /\ TypeOK /\ Sound(heap, closed) /\ Stocked(heap)
  BY HeapParts DEF Threads, CacheInv
<1>2. ASSUME NEW r \in Rounds, StartGet(q, r)  PROVE CacheInv'
  <2>1. /\ rnd' = [rnd EXCEPT ![q] = r]
        /\ pc[q] = "idle"
        /\ UNCHANGED <<cacheVars, latestRound, phase, at, be, wf, expired, loadVars,
                       feedVars, fetched>>
    BY <1>2 DEF StartGet
  <2>2. resp[q] = "none" /\ load[q] = "none"
    BY <1>1, <2>1 DEF CacheInv, AnsweredWhenDone, LoadsKnown, TypeOK
  <2>3. /\ \A t \in Threads \ {q} : pc'[t] = pc[t] /\ resp'[t] = resp[t]
                                    /\ rnd'[t] = rnd[t]
        /\ pc'[q] \in {"done", "get"}
        /\ (pc'[q] = "done") <=> (resp'[q] # "none")
        /\ pc' \in [Threads -> {"idle", "get", "wait", "woken", "route",
                                "promise", "done"}]
        /\ phase' = phase
        /\ resp' \in [Threads -> {"none", "block", "error", "timeout"}]
        /\ rnd' \in [Threads -> Rounds]
    <3>1. CASE r > latestRound
      <4>1. /\ pc' = [pc EXCEPT ![q] = "done"] /\ phase' = phase
            /\ resp' = [resp EXCEPT ![q] = "error"]
        BY <1>2, <3>1 DEF StartGet
      <4> QED  BY <1>1, <2>1, <4>1 DEF TypeOK
    <3>2. CASE ~(r > latestRound)
      <4>1. pc' = [pc EXCEPT ![q] = "get"] /\ phase' = phase /\ resp' = resp
        BY <1>2, <3>2 DEF StartGet
      <4> QED  BY <1>1, <2>1, <2>2, <4>1 DEF TypeOK
    <3> QED  BY <3>1, <3>2
  <2>4. TypeOK'
    BY <1>1, <2>1, <2>3 DEF TypeOK, cacheVars, loadVars, feedVars
  <2>5. NoLostWakeup' /\ CloseOnce' /\ WaitersHold' /\ BlocksFetched'
        /\ AnsweredWhenDone'
    <3>1. /\ Sound(heap', closed') /\ Stocked(heap')
          /\ \A p \in Requests : be[p] \in Entries =>
                /\ heap'[be[p]].Round = heap[be[p]].Round
                /\ Asleep(p, heap, closed) => Asleep(p, heap', closed')
      BY <1>1, <2>1 DEF cacheVars, Stocked, Asleep
    <3> QED  BY <2>1, <2>3, <3>1, OneRequestMoves
  <2>6. LoadsKnown'
    <3>1. \A t \in Threads : load'[t] = load[t]
      BY <2>1 DEF loadVars
    <3> QED  BY <2>1, <2>2, <2>3, <3>1 DEF CacheInv, LoadsKnown
  <2>7. FeedsKnown'
    BY <2>1 DEF CacheInv, FeedsKnown, feedVars
  <2> QED  BY <2>4, <2>5, <2>6, <2>7 DEF CacheInv
<1>3. ASSUME Get(q)  PROVE CacheInv'
  <2> DEFINE c == CacheAt(q)
  <2>1. /\ pc[q] = "get" /\ c \in Caches
        /\ UNCHANGED <<heap, closed, last, latestRound, rnd, at, expired,
                       loadVars, feedVars, fetched>>
    BY <1>3, CacheChosen DEF Get
  <2>2. /\ Sound(heap', closed') /\ Stocked(heap') /\ last' \in Rounds
        /\ \A p \in Requests : be[p] \in Entries =>
              /\ heap'[be[p]].Round = heap[be[p]].Round
              /\ Asleep(p, heap, closed) => Asleep(p, heap', closed')
    BY <1>1, <2>1 DEF Stocked, Asleep, TypeOK
  <2>3. lru' \in [Caches -> Seq(Entries)]
    <3>1. CASE UNCHANGED lru
      BY <1>1, <3>1 DEF TypeOK
    <3>2. ASSUME NEW e \in Peek(c, rnd[q]), lru' = [lru EXCEPT ![c] = Touch(@, e)]
          PROVE  lru' \in [Caches -> Seq(Entries)]
      <4>1. e \in Entries
        BY <1>1, <2>1, <3>2, PeekType
      <4>2. Touch(lru[c], e) \in Seq(Entries)
        BY <1>1, <2>1, <4>1, TouchType DEF TypeOK
      <4> QED  BY <1>1, <3>2, <4>2 DEF TypeOK
    <3> QED  BY <1>3, <3>1, <3>2 DEF Get
  <2>4. CASE \E bw, err : Conclude(q, bw, err)
    <3>1. PICK bw, err : Conclude(q, bw, err)
      BY <2>4
    <3> QED  BY <2>1, <2>2, <2>3, <3>1, EndOfGetKeeps
  <2>5. CASE \E e \in Peek(c, rnd[q]) :
               /\ heap[e].Error = "none" /\ heap[e].B = NoBlock
               /\ heap[e].WaitFor # 0
               /\ be' = [be EXCEPT ![q] = e]
               /\ wf' = [wf EXCEPT ![q] = heap[e].WaitFor]
               /\ pc' = [pc EXCEPT ![q] = "wait"]
               /\ UNCHANGED <<phase, resp>>
    <3>1. PICK e \in Peek(c, rnd[q]) :
               /\ heap[e].Error = "none" /\ heap[e].B = NoBlock
               /\ heap[e].WaitFor # 0
               /\ be' = [be EXCEPT ![q] = e]
               /\ wf' = [wf EXCEPT ![q] = heap[e].WaitFor]
               /\ pc' = [pc EXCEPT ![q] = "wait"]
               /\ UNCHANGED <<phase, resp>>
      BY <2>5
    <3>2. e \in Entries /\ heap[e].Round = rnd[q]
      BY <1>1, <2>1, PeekType
    <3>3. heap[e].WaitFor \in Chans
      BY <1>1, <3>1, <3>2 DEF Sound, Entry
    <3>4. TypeOK'
      <4>1. /\ pc' \in [Threads -> {"idle", "get", "wait", "woken", "route",
                                    "promise", "done"}]
            /\ be' \in [Threads -> Entries \cup {0}]
            /\ wf' \in [Threads -> Chans \cup {0}]
        BY <1>1, <3>1, <3>2, <3>3 DEF TypeOK
      <4> QED
        BY <1>1, <2>1, <2>3, <3>1, <4>1 DEF TypeOK, loadVars, feedVars
    <3>5. CloseOnce' /\ BlocksFetched' /\ FeedsKnown'
      BY <2>1 DEF CacheInv, CloseOnce, BlocksFetched, FeedsKnown, feedVars
    <3>6. LoadsKnown' /\ AnsweredWhenDone'
      BY <1>1, <2>1, <3>1
         DEF CacheInv, LoadsKnown, AnsweredWhenDone, TypeOK, loadVars, Threads
    <3>7. WaitersHold' /\ NoLostWakeup'
      BY <1>1, <2>1, <3>1, <3>2, <3>3
         DEF CacheInv, WaitersHold, NoLostWakeup, TypeOK, Threads
    <3> QED  BY <3>4, <3>5, <3>6, <3>7 DEF CacheInv
  <2> QED  BY <1>3, <2>4, <2>5 DEF Get
<1>4. ASSUME Wake(q)  PROVE CacheInv'
  <2>1. /\ pc[q] = "wait" /\ pc' = [pc EXCEPT ![q] = "woken"]
        /\ UNCHANGED <<cacheVars, latestRound, rnd, phase, at, be, wf, expired,
                       resp, loadVars, feedVars, fetched>>
    BY <1>4 DEF Wake
  <2>2. TypeOK'
    BY <1>1, <2>1 DEF TypeOK, cacheVars, loadVars, feedVars
  <2>3. CloseOnce' /\ BlocksFetched' /\ FeedsKnown'
    BY <2>1 DEF CacheInv, CloseOnce, BlocksFetched, FeedsKnown, feedVars, cacheVars
  <2>4. LoadsKnown' /\ AnsweredWhenDone'
    BY <1>1, <2>1
       DEF CacheInv, LoadsKnown, AnsweredWhenDone, TypeOK, loadVars, Threads
  <2>5. WaitersHold' /\ NoLostWakeup'
    BY <1>1, <2>1
       DEF CacheInv, WaitersHold, NoLostWakeup, TypeOK, Threads, cacheVars
  <2> QED  BY <2>2, <2>3, <2>4, <2>5 DEF CacheInv
<1>5. ASSUME Reread(q)  PROVE CacheInv'
  <2>1. /\ pc[q] = "woken"
        /\ UNCHANGED <<cacheVars, latestRound, rnd, at, expired, loadVars,
                       feedVars, fetched>>
        /\ \E bw, err : Conclude(q, bw, err)
    BY <1>5 DEF Reread
  <2>2. PICK bw, err : Conclude(q, bw, err)
    BY <2>1
  <2>3. /\ Sound(heap', closed') /\ Stocked(heap')
        /\ \A p \in Requests : be[p] \in Entries =>
              /\ heap'[be[p]].Round = heap[be[p]].Round
              /\ Asleep(p, heap, closed) => Asleep(p, heap', closed')
        /\ lru' \in [Caches -> Seq(Entries)] /\ last' \in Rounds
    BY <1>1, <2>1 DEF Stocked, Asleep, TypeOK, cacheVars
  <2> QED  BY <2>1, <2>2, <2>3, EndOfGetKeeps
<1>6. ASSUME Expire(q)  PROVE CacheInv'
  <2>1. /\ pc[q] = "wait"
        /\ UNCHANGED <<latestRound, rnd, at, expired, loadVars, feedVars, fetched>>
        /\ addBlock(CacheAt(q), rnd[q], "timeout")
        /\ Conclude(q, NoBlock, "timeout")
    BY <1>6 DEF Expire
  <2>2. rnd[q] \in Rounds /\ CacheAt(q) \in Caches /\ "timeout" \in Errors
    BY <1>1, CacheChosen DEF TypeOK, Errors
  <2>3. /\ Sound(heap', closed') /\ Stocked(heap')
        /\ \A p \in Requests : be[p] \in Entries =>
              /\ heap'[be[p]].Round = heap[be[p]].Round
              /\ Asleep(p, heap, closed) => Asleep(p, heap', closed')
        /\ lru' \in [Caches -> Seq(Entries)] /\ last' \in Rounds
    BY <2>1, <2>2, AddBlockKeeps
  <2> QED  BY <2>1, <2>3, EndOfGetKeeps
<1>7. ASSUME Deadline(q)  PROVE CacheInv'
  <2>1. TypeOK'
    BY <1>1, <1>7 DEF Deadline, TypeOK, cacheVars, loadVars, feedVars
  <2>2. UNCHANGED <<cacheVars, latestRound, pc, rnd, phase, at, be, wf, resp,
                    loadVars, feedVars, fetched>>
    BY <1>7 DEF Deadline
  <2>3. NoLostWakeup' /\ CloseOnce' /\ WaitersHold' /\ BlocksFetched'
    BY <2>2 DEF CacheInv, NoLostWakeup, CloseOnce, WaitersHold, BlocksFetched,
                cacheVars
  <2>4. LoadsKnown' /\ FeedsKnown' /\ AnsweredWhenDone'
    BY <2>2 DEF CacheInv, LoadsKnown, FeedsKnown, AnsweredWhenDone, loadVars,
                feedVars
  <2> QED  BY <2>1, <2>3, <2>4 DEF CacheInv
<1> QED  BY <1>2, <1>3, <1>4, <1>5, <1>6, <1>7 DEF RequestStep

\* The steps of a PromiseBlock, and the prefetcher's call of it.
LEMMA PromiseKeeps ==
    ASSUME CacheInv, NEW t \in Threads,
           \/ t \in Prefetches /\ \E r \in Rounds : StartPrefetch(t, r)
           \/ PromiseStep(t)
    PROVE  CacheInv'
<1>1. TypeOK /\ Sound(heap, closed) /\ Stocked(heap)
  BY HeapParts DEF CacheInv
<1>2. ASSUME NEW r \in Rounds, t \in Prefetches, StartPrefetch(t, r)
      PROVE  CacheInv'
  <2>1. /\ pc[t] = "idle" /\ pc' = [pc EXCEPT ![t] = "route"]
        /\ rnd' = [rnd EXCEPT ![t] = r]
        /\ UNCHANGED <<cacheVars, latestRound, phase, at, be, wf, expired, resp,
                       loadVars, feedVars, fetched>>
    BY <1>2 DEF StartPrefetch
  <2>2. t \notin Requests /\ load[t] = "none"
    BY <1>1, <1>2, <2>1, CacheAssumption DEF CacheInv, LoadsKnown, TypeOK
  <2>3. TypeOK'
    BY <1>1, <2>1 DEF TypeOK, cacheVars, loadVars, feedVars
  <2>4. \A q \in Requests : pc'[q] = pc[q] /\ rnd'[q] = rnd[q]
    BY <1>1, <2>1, <2>2 DEF TypeOK, Threads
  <2>5. CloseOnce' /\ BlocksFetched' /\ FeedsKnown'
    BY <2>1 DEF CacheInv, CloseOnce, BlocksFetched, FeedsKnown, feedVars, cacheVars
  <2>6. WaitersHold' /\ NoLostWakeup' /\ AnsweredWhenDone'
    BY <2>1, <2>4
       DEF CacheInv, WaitersHold, NoLostWakeup, AnsweredWhenDone, cacheVars
  <2>7. LoadsKnown'
    BY <1>1, <2>1, <2>2 DEF CacheInv, LoadsKnown, TypeOK, loadVars
  <2> QED  BY <2>3, <2>5, <2>6, <2>7 DEF CacheInv
<1>3. ASSUME Route(t)  PROVE CacheInv'
  <2>1. /\ pc[t] = "route" /\ pc' = [pc EXCEPT ![t] = "promise"]
        /\ at' = [at EXCEPT ![t] = getCacheWithPeek(rnd[t])]
        /\ UNCHANGED <<cacheVars, latestRound, rnd, phase, be, wf, expired, resp,
                       loadVars, feedVars, fetched>>
    BY <1>3 DEF Route
  <2>2. getCacheWithPeek(rnd[t]) \in Caches
    BY <1>1, CacheChosen DEF TypeOK
  <2>3. TypeOK'
    BY <1>1, <2>1, <2>2 DEF TypeOK, cacheVars, loadVars, feedVars
  <2>4. CloseOnce' /\ BlocksFetched' /\ FeedsKnown'
    BY <2>1 DEF CacheInv, CloseOnce, BlocksFetched, FeedsKnown, feedVars, cacheVars
  <2>5. WaitersHold' /\ NoLostWakeup' /\ AnsweredWhenDone' /\ LoadsKnown'
    BY <1>1, <2>1 DEF CacheInv, WaitersHold, NoLostWakeup, AnsweredWhenDone,
                      LoadsKnown, TypeOK, Threads, cacheVars, loadVars
  <2> QED  BY <2>3, <2>4, <2>5 DEF CacheInv
<1>4. ASSUME Promise(t)  PROVE CacheInv'
  <2>1. /\ pc[t] = "promise" /\ promiseBlock(at[t], rnd[t])
        /\ load' = [load EXCEPT ![t] = "start"]
        /\ phase' = [phase EXCEPT ![t] = 4]
        /\ at' = [at EXCEPT ![t] = "arch"]
        /\ UNCHANGED <<latestRound, rnd, be, wf, expired, resp, left, feedVars,
                       fetched>>
    BY <1>4 DEF Promise
  <2>2. PICK o \in {"get", "done"} : /\ pc' = [pc EXCEPT ![t] = o]
                                     /\ t \in Requests => o = "get"
    BY <1>4 DEF Promise
  <2>3. at[t] \in Caches /\ rnd[t] \in Rounds
    BY <1>1 DEF TypeOK
  <2>4. /\ Sound(heap', closed') /\ Stocked(heap')
        /\ \A p \in Requests : be[p] \in Entries =>
              /\ heap'[be[p]].Round = heap[be[p]].Round
              /\ Asleep(p, heap, closed) => Asleep(p, heap', closed')
        /\ lru' \in [Caches -> Seq(Entries)] /\ last' \in Rounds
    BY <2>1, <2>3, PromiseBlockKeeps
  <2>5. TypeOK'
    <3>1. /\ pc' \in [Threads -> {"idle", "get", "wait", "woken", "route",
                                  "promise", "done"}]
          /\ load' \in [Threads -> {"none", "start", "try", "sink", "done"}]
          /\ phase' \in [Threads -> 1 .. 5]
          /\ at' \in [Threads -> Caches]
      BY <1>1, <2>1, <2>2 DEF TypeOK, Caches
    <3> QED  BY <1>1, <2>1, <2>4, <3>1 DEF TypeOK, Sound, Entry, feedVars
  <2>6. LoadsKnown' /\ FeedsKnown'
    BY <1>1, <2>1, <2>2 DEF CacheInv, LoadsKnown, FeedsKnown, TypeOK, feedVars
  <2>7. CASE t \in Requests
    <3>1. resp[t] = "none"
      BY <2>1, <2>7 DEF CacheInv, AnsweredWhenDone
    <3>2. pc'[t] = "get" /\ \A u \in Threads \ {t} : pc'[u] = pc[u]
      BY <1>1, <2>2, <2>7 DEF TypeOK
    <3>3. NoLostWakeup' /\ CloseOnce' /\ WaitersHold' /\ BlocksFetched'
          /\ AnsweredWhenDone'
      BY <2>1, <2>4, <2>7, <3>1, <3>2, OneRequestMoves
    <3> QED  BY <2>5, <2>6, <3>3 DEF CacheInv
  <2>8. CASE t \notin Requests
    <3>1. \A q \in Requests : pc'[q] = pc[q]
      BY <1>1, <2>2, <2>8 DEF TypeOK, Threads
    <3>2. \A q \in Requests : pc[q] = "wait" =>
             be[q] \in Entries /\ Asleep(q, heap, closed)
      BY DEF CacheInv, WaitersHold, NoLostWakeup, Asleep
    <3>3. NoLostWakeup' /\ CloseOnce' /\ WaitersHold' /\ BlocksFetched'
          /\ AnsweredWhenDone'
      <4>1. CloseOnce' /\ BlocksFetched'
        BY <2>1, <2>4 DEF Sound, Stocked, CloseOnce, BlocksFetched
      <4>2. WaitersHold' /\ AnsweredWhenDone'
        BY <2>1, <2>4, <3>1 DEF CacheInv, WaitersHold, AnsweredWhenDone
      <4>3. NoLostWakeup'
        BY <2>1, <2>4, <3>1, <3>2 DEF NoLostWakeup, Asleep
      <4> QED  BY <4>1, <4>2, <4>3
    <3> QED  BY <2>5, <2>6, <3>3 DEF CacheInv
  <2> QED  BY <2>7, <2>8
<1> QED  BY <1>2, <1>3, <1>4 DEF PromiseStep

\* A step that leaves the caches and the threads alone.
LEMMA QuietStepKeeps ==
    ASSUME CacheInv,
           UNCHANGED <<cacheVars, threadVars>>,
           fetched \subseteq fetched', fetched' \subseteq Rounds,
           latestRound' \in Rounds,
           load' \in [Threads -> {"none", "start", "try", "sink", "done"}],
           left' \in [Threads -> Nat],
           feed' \in [Nodes -> Rounds \cup {NoBlock}],
           sunk' \subseteq Nodes,
           LoadsKnown', FeedsKnown'
    PROVE  CacheInv'
<1>1. TypeOK'
  BY DEF CacheInv, TypeOK, cacheVars, threadVars
<1>2. NoLostWakeup' /\ CloseOnce' /\ WaitersHold' /\ AnsweredWhenDone'
  BY DEF CacheInv, NoLostWakeup, CloseOnce, WaitersHold, AnsweredWhenDone,
         cacheVars, threadVars
<1>3. BlocksFetched'
  BY DEF CacheInv, BlocksFetched, cacheVars
<1> QED  BY <1>1, <1>2, <1>3 DEF CacheInv

\* The steps of a LoadBlockSync.
LEMMA LoadKeeps ==
    ASSUME CacheInv, NEW t \in Threads, LoadStep(t)
    PROVE  CacheInv'
<1>1. /\ TypeOK /\ LoadsKnown /\ FeedsKnown /\ rnd[t] \in Rounds
      /\ "none" \in Errors /\ "load" \in Errors
  BY DEF CacheInv, TypeOK, Errors
<1>2. CASE LoadFuture(t)
  <2>1. LoadsKnown' /\ FeedsKnown'
    BY <1>1, <1>2
       DEF LoadFuture, LoadsKnown, FeedsKnown, TypeOK, threadVars, feedVars
  <2>2. AddBlock(rnd[t], "load") /\ UNCHANGED <<latestRound, threadVars, fetched>>
    BY <1>2 DEF LoadFuture
  <2>3. /\ load' \in [Threads -> {"none", "start", "try", "sink", "done"}]
        /\ left' \in [Threads -> Nat]
        /\ feed' \in [Nodes -> Rounds \cup {NoBlock}] /\ sunk' \subseteq Nodes
    BY <1>1, <1>2 DEF LoadFuture, TypeOK, feedVars
  <2> QED  BY <1>1, <2>1, <2>2, <2>3, AddStepKeeps
<1>3. CASE LoadStart(t)
  <2>1. LoadsKnown' /\ FeedsKnown'
    BY <1>1, <1>3
       DEF LoadStart, LoadsKnown, FeedsKnown, TypeOK, threadVars, feedVars
  <2>2. left' \in [Threads -> Nat]
    <3>1. PICK nc \in 0 .. MaxSynced, na \in 0 .. MaxSynced :
             left' = [left EXCEPT ![t] = NodesToTry(rnd[t], nc, na)]
      BY <1>3 DEF LoadStart
    <3>2. NodesToTry(rnd[t], nc, na) \in Nat
      BY CacheAssumption DEF NodesToTry
    <3> QED  BY <1>1, <3>1, <3>2 DEF TypeOK
  <2>3. /\ load' \in [Threads -> {"none", "start", "try", "sink", "done"}]
        /\ feed' \in [Nodes -> Rounds \cup {NoBlock}] /\ sunk' \subseteq Nodes
        /\ fetched' = fetched /\ fetched' \subseteq Rounds /\ latestRound' \in Rounds
        /\ UNCHANGED <<cacheVars, threadVars>>
    BY <1>1, <1>3 DEF LoadStart, TypeOK, feedVars
  <2> QED  BY <2>1, <2>2, <2>3, QuietStepKeeps
<1>4. CASE LoadGiveUp(t) \/ LoadWrapError(t)
  <2>1. LoadsKnown' /\ FeedsKnown'
    BY <1>1, <1>4 DEF LoadGiveUp, LoadWrapError, LoadsKnown, FeedsKnown, TypeOK,
                      threadVars, feedVars
  <2>2. /\ load' \in [Threads -> {"none", "start", "try", "sink", "done"}]
        /\ left' \in [Threads -> Nat]
        /\ feed' \in [Nodes -> Rounds \cup {NoBlock}] /\ sunk' \subseteq Nodes
        /\ fetched' = fetched /\ fetched' \subseteq Rounds /\ latestRound' \in Rounds
        /\ UNCHANGED <<cacheVars, threadVars>>
    BY <1>1, <1>4 DEF LoadGiveUp, LoadWrapError, TypeOK, feedVars
  <2> QED  BY <2>1, <2>2, QuietStepKeeps
<1>5. CASE LoadFail(t)
  <2>1. LoadsKnown' /\ FeedsKnown'
    BY <1>1, <1>5 DEF LoadFail, LoadsKnown, FeedsKnown, TypeOK, threadVars, feedVars
  <2>2. AddBlock(rnd[t], "load") /\ UNCHANGED <<latestRound, threadVars, fetched>>
    BY <1>5 DEF LoadFail
  <2>3. /\ load' \in [Threads -> {"none", "start", "try", "sink", "done"}]
        /\ left' \in [Threads -> Nat]
        /\ feed' \in [Nodes -> Rounds \cup {NoBlock}] /\ sunk' \subseteq Nodes
    BY <1>1, <1>5 DEF LoadFail, TypeOK, feedVars
  <2> QED  BY <1>1, <2>1, <2>2, <2>3, AddStepKeeps
<1>6. CASE LoadFetched(t)
  <2>1. PICK o \in {"done", "sink"} : load' = [load EXCEPT ![t] = o]
    BY <1>6 DEF LoadFetched
  <2>2. /\ load[t] = "try" /\ fetched' = fetched \cup {rnd[t]}
        /\ UNCHANGED <<cacheVars, latestRound, threadVars, left, feedVars>>
    BY <1>6 DEF LoadFetched
  <2>3. LoadsKnown' /\ FeedsKnown'
    BY <1>1, <2>1, <2>2 DEF LoadsKnown, FeedsKnown, TypeOK, threadVars, feedVars
  <2>4. /\ load' \in [Threads -> {"none", "start", "try", "sink", "done"}]
        /\ left' \in [Threads -> Nat]
        /\ feed' \in [Nodes -> Rounds \cup {NoBlock}] /\ sunk' \subseteq Nodes
        /\ fetched \subseteq fetched' /\ fetched' \subseteq Rounds
        /\ latestRound' \in Rounds
        /\ UNCHANGED <<cacheVars, threadVars>>
    BY <1>1, <2>1, <2>2 DEF TypeOK, feedVars
  <2> QED  BY <2>3, <2>4, QuietStepKeeps
<1>7. CASE LoadSink(t)
  <2>1. LoadsKnown' /\ FeedsKnown'
    BY <1>1, <1>7 DEF LoadSink, LoadsKnown, FeedsKnown, TypeOK, threadVars, feedVars
  <2>2. /\ AddBlock(rnd[t], "none") /\ rnd[t] \in fetched
        /\ UNCHANGED <<latestRound, threadVars, fetched>>
    BY <1>1, <1>7 DEF LoadSink, LoadsKnown
  <2>3. /\ load' \in [Threads -> {"none", "start", "try", "sink", "done"}]
        /\ left' \in [Threads -> Nat]
        /\ feed' \in [Nodes -> Rounds \cup {NoBlock}] /\ sunk' \subseteq Nodes
    BY <1>1, <1>7 DEF LoadSink, TypeOK, feedVars
  <2> QED  BY <1>1, <2>1, <2>2, <2>3, AddStepKeeps
<1> QED  BY <1>2, <1>3, <1>4, <1>5, <1>6, <1>7 DEF LoadStep

\* The steps of a node's boot and monitor.
LEMMA NodeKeeps ==
    ASSUME CacheInv, NEW n \in Nodes, NodeStep(n)
    PROVE  CacheInv'
<1>1. /\ TypeOK /\ LoadsKnown /\ FeedsKnown
      /\ "none" \in Errors /\ "load" \in Errors
      /\ MaxRound \in Nat /\ NoBlock \notin Rounds /\ 0 \in Rounds
      /\ latestRound \in Rounds /\ Rounds \subseteq Int
  BY CacheAssumption DEF CacheInv, TypeOK, Errors, Rounds, NoBlock
<1>2. ASSUME NEW r \in Rounds, BootStatus(n, r)  PROVE CacheInv'
  <2>1. LoadsKnown' /\ FeedsKnown'
    BY <1>1, <1>2 DEF BootStatus, LoadsKnown, FeedsKnown, TypeOK, Rounds, threadVars,
                      loadVars, feedVars
  <2>2. /\ load' \in [Threads -> {"none", "start", "try", "sink", "done"}]
        /\ left' \in [Threads -> Nat]
        /\ feed' \in [Nodes -> Rounds \cup {NoBlock}] /\ sunk' \subseteq Nodes
        /\ fetched' = fetched /\ fetched' \subseteq Rounds /\ latestRound' \in Rounds
        /\ UNCHANGED <<cacheVars, threadVars>>
    BY <1>1, <1>2 DEF BootStatus, TypeOK, loadVars, feedVars
  <2> QED  BY <2>1, <2>2, QuietStepKeeps
<1>3. CASE Ask(n)
  <2>1. n \notin sunk
    BY <1>1, <1>3 DEF Ask, FeedsKnown, TypeOK
  <2>2. PICK r \in Rounds : feed' = [feed EXCEPT ![n] = r]
    BY <1>1, <1>3 DEF Ask, Rounds
  <2>3. UNCHANGED <<cacheVars, latestRound, threadVars, loadVars, sunk, fetched>>
    BY <1>3 DEF Ask
  <2>4. LoadsKnown' /\ FeedsKnown'
    BY <1>1, <2>1, <2>2, <2>3
       DEF LoadsKnown, FeedsKnown, TypeOK, threadVars, loadVars
  <2>5. /\ load' \in [Threads -> {"none", "start", "try", "sink", "done"}]
        /\ left' \in [Threads -> Nat]
        /\ feed' \in [Nodes -> Rounds \cup {NoBlock}] /\ sunk' \subseteq Nodes
        /\ fetched' = fetched /\ fetched' \subseteq Rounds /\ latestRound' \in Rounds
    BY <1>1, <2>2, <2>3 DEF TypeOK, loadVars
  <2> QED  BY <2>3, <2>4, <2>5, QuietStepKeeps
<1>4. CASE AskFailed(n)
  <2>1. /\ feed[n] \in Rounds /\ n \notin sunk /\ AddBlock(feed[n], "load")
        /\ feed' = [feed EXCEPT ![n] = NoBlock]
        /\ UNCHANGED <<latestRound, threadVars, loadVars, sunk, fetched>>
    BY <1>1, <1>4 DEF AskFailed, TypeOK
  <2>2. LoadsKnown' /\ FeedsKnown'
    BY <1>1, <2>1 DEF LoadsKnown, FeedsKnown, TypeOK, threadVars, loadVars
  <2>3. /\ load' \in [Threads -> {"none", "start", "try", "sink", "done"}]
        /\ left' \in [Threads -> Nat]
        /\ feed' \in [Nodes -> Rounds \cup {NoBlock}] /\ sunk' \subseteq Nodes
    BY <1>1, <2>1 DEF TypeOK, loadVars
  <2> QED  BY <1>1, <2>1, <2>2, <2>3, AddStepKeeps
<1>5. CASE BlockSink(n)
  <2>1. /\ feed[n] \in Rounds
        /\ fetched' = fetched \cup {feed[n]}
        /\ UNCHANGED <<cacheVars, threadVars, loadVars>>
    BY <1>1, <1>5 DEF BlockSink, TypeOK
  <2>2. \/ sunk' = sunk \cup {n} /\ feed' = feed
        \/ sunk' = sunk /\ n \notin sunk /\ feed' = [feed EXCEPT ![n] = NoBlock]
    BY <1>5 DEF BlockSink
  <2>3. latestRound' \in Rounds /\ latestRound <= latestRound'
    BY <1>1, <1>5, <2>1 DEF BlockSink, Rounds
  <2>4. LoadsKnown'
    BY <1>1, <2>1, <2>3 DEF LoadsKnown, TypeOK, Rounds, threadVars, loadVars
  <2>5. FeedsKnown'
    BY <1>1, <2>1, <2>2 DEF FeedsKnown, TypeOK
  <2>6. /\ load' \in [Threads -> {"none", "start", "try", "sink", "done"}]
        /\ left' \in [Threads -> Nat]
        /\ feed' \in [Nodes -> Rounds \cup {NoBlock}] /\ sunk' \subseteq Nodes
        /\ fetched \subseteq fetched' /\ fetched' \subseteq Rounds
    BY <1>1, <2>1, <2>2 DEF TypeOK, loadVars
  <2> QED  BY <2>1, <2>3, <2>4, <2>5, <2>6, QuietStepKeeps
<1>6. CASE BlockSinkAdd(n) \/ BlockSinkWrapError(n)
  <2>1. /\ feed[n] \in fetched /\ feed[n] \in Rounds
        /\ sunk' = sunk \ {n} /\ feed' = [feed EXCEPT ![n] = NoBlock]
        /\ UNCHANGED <<latestRound, threadVars, loadVars, fetched>>
    BY <1>1, <1>6 DEF BlockSinkAdd, BlockSinkWrapError, FeedsKnown, TypeOK
  <2>2. LoadsKnown' /\ FeedsKnown'
    BY <1>1, <2>1 DEF LoadsKnown, FeedsKnown, TypeOK, threadVars, loadVars
  <2>3. /\ load' \in [Threads -> {"none", "start", "try", "sink", "done"}]
        /\ left' \in [Threads -> Nat]
        /\ feed' \in [Nodes -> Rounds \cup {NoBlock}] /\ sunk' \subseteq Nodes
        /\ fetched' = fetched /\ fetched' \subseteq Rounds /\ latestRound' \in Rounds
    BY <1>1, <2>1 DEF TypeOK, loadVars
  <2>4. CASE BlockSinkAdd(n)
    <3>1. AddBlock(feed[n], "none")
      BY <2>4 DEF BlockSinkAdd
    <3> QED  BY <1>1, <2>1, <2>2, <2>3, <3>1, AddStepKeeps
  <2>5. CASE BlockSinkWrapError(n)
    <3>1. UNCHANGED cacheVars
      BY <2>5 DEF BlockSinkWrapError
    <3> QED  BY <2>1, <2>2, <2>3, <3>1, QuietStepKeeps
  <2> QED  BY <1>6, <2>4, <2>5
<1> QED  BY <1>2, <1>3, <1>4, <1>5, <1>6 DEF NodeStep

\* Every step keeps the invariant.
LEMMA NextCacheInv == CacheInv /\ [Next]_vars => CacheInv'
<1> SUFFICES ASSUME CacheInv, [Next]_vars  PROVE CacheInv'
  OBVIOUS
<1>1. CASE UNCHANGED vars
  <2>1. TypeOK'
    BY <1>1 DEF vars, CacheInv, TypeOK, cacheVars, threadVars, loadVars, feedVars
  <2>2. LoadsKnown' /\ FeedsKnown'
    BY <1>1 DEF vars, CacheInv, LoadsKnown, FeedsKnown, threadVars, loadVars, feedVars
  <2>3. UNCHANGED <<cacheVars, threadVars, fetched>>
    BY <1>1 DEF vars
  <2> QED  BY <2>1, <2>2, <2>3, QuietStepKeeps DEF TypeOK
<1>2. CASE Next
  <2>1. ASSUME NEW q \in Requests,
               (\E r \in Rounds : StartGet(q, r)) \/ RequestStep(q) \/ Deadline(q)
        PROVE  CacheInv'
    BY <2>1, RequestKeeps
  <2>2. ASSUME NEW p \in Prefetches, NEW r \in Rounds, StartPrefetch(p, r)
        PROVE  CacheInv'
    BY <2>2, PromiseKeeps DEF Threads
  <2>3. ASSUME NEW t \in Threads, PromiseStep(t) \/ LoadStep(t)
        PROVE  CacheInv'
    BY <2>3, PromiseKeeps, LoadKeeps
  <2>4. ASSUME NEW n \in Nodes, NodeStep(n)
        PROVE  CacheInv'
    BY <2>4, NodeKeeps
  <2> QED  BY <1>2, <2>1, <2>2, <2>3, <2>4 DEF Next
<1> QED  BY <1>1, <1>2

\* In every interleaving of requests, prefetches, loads and monitors, for any
\* number of each and any sizes of the caches: no getBlock sleeps through the
\* delivery it waits for, no channel is closed twice, and every entry holds
\* the fetched block of its own round or none.
THEOREM CacheInvariant == Spec => []CacheInv
<1>1. Init => CacheInv
  BY InitCacheInv
<1>2. CacheInv /\ [Next]_vars => CacheInv'
  BY NextCacheInv
<1> QED  BY <1>1, <1>2, PTL DEF Spec

\* The variables keep their types.
THEOREM TypeCorrect == Spec => []TypeOK
<1>1. CacheInv => TypeOK
  BY DEF CacheInv
<1> QED  BY <1>1, CacheInvariant, PTL

\* No getBlock sleeps through a delivery, whatever promiseBlock rearms.
THEOREM WakeupsNotLost == Spec => []NoLostWakeup
<1>1. CacheInv => NoLostWakeup
  BY DEF CacheInv
<1> QED  BY <1>1, CacheInvariant, PTL

\* close(fbe.WaitFor) never meets a closed channel.
THEOREM ClosedOnce == Spec => []CloseOnce
<1>1. CacheInv => CloseOnce
  BY DEF CacheInv
<1> QED  BY <1>1, CacheInvariant, PTL

\* What BlocksStay says of one entry.
Stays(e) ==
    /\ heap'[e].B = heap[e].B /\ heap'[e].Round = heap[e].Round
    /\ heap[e].Error = "none" => heap'[e].Error = "none"

\* addBlock changes no entry that holds a block but for letting its channel go,
\* and makes new ones of what nothing refers to (cache.go:68-90).
LEMMA AddBlockStays ==
    ASSUME TypeOK, NEW c \in Caches, NEW r \in Rounds, NEW err \in Errors,
           addBlock(c, r, err), NEW e \in Entries, InUse(e), heap[e].B # NoBlock
    PROVE  Stays(e)
<1>1. CASE \E f \in Peek(c, r) : heap' = [heap EXCEPT ![f] = Delivered(f, err)]
  <2>1. PICK f \in Entries : heap' = [heap EXCEPT ![f] = Delivered(f, err)]
    BY <1>1, PeekType
  <2>2. CASE f = e
    <3>1. heap'[e] = Delivered(e, err)
      BY <2>1, <2>2 DEF TypeOK
    <3> QED  BY <3>1 DEF Delivered, Stays
  <2>3. CASE f # e
    BY <2>1, <2>3 DEF TypeOK, Stays
  <2> QED  BY <2>2, <2>3
<1>2. CASE \E f \in NewEntry : heap' = [heap EXCEPT ![f] =
             [Round |-> r, B |-> IF err = "none" THEN r ELSE NoBlock,
              Error |-> err, WaitFor |-> 0]]
  <2>1. PICK f \in NewEntry : heap' = [heap EXCEPT ![f] =
             [Round |-> r, B |-> IF err = "none" THEN r ELSE NoBlock,
              Error |-> err, WaitFor |-> 0]]
    BY <1>2
  <2>2. f # e
    BY <2>1 DEF NewEntry, Lowest, InUse
  <2> QED  BY <2>1, <2>2 DEF TypeOK, Stays
<1> QED  BY <1>1, <1>2 DEF addBlock

\* promiseBlock rearms an entry with an error and keeps the block it may hold
\* (cache.go:38-47).
LEMMA PromiseBlockStays ==
    ASSUME TypeOK, NEW c \in Caches, NEW r \in Rounds, promiseBlock(c, r),
           NEW e \in Entries, InUse(e), heap[e].B # NoBlock
    PROVE  Stays(e)
<1>1. CASE \E f \in NewEntry, ch \in NewChan : heap' = [heap EXCEPT ![f] =
             [Round |-> r, B |-> NoBlock, Error |-> "none", WaitFor |-> ch]]
  <2>1. PICK f \in NewEntry, ch \in NewChan : heap' = [heap EXCEPT ![f] =
             [Round |-> r, B |-> NoBlock, Error |-> "none", WaitFor |-> ch]]
    BY <1>1
  <2>2. f # e
    BY <2>1 DEF NewEntry, Lowest, InUse
  <2> QED  BY <2>1, <2>2 DEF TypeOK, Stays
<1>2. CASE \E f \in Peek(c, r) : MustRearm(f) /\ \E ch \in NewChan :
              heap' = [heap EXCEPT ![f] = [Round |-> heap[f].Round, B |-> heap[f].B,
                                           Error |-> "none", WaitFor |-> ch]]
  <2>1. PICK f \in Entries, ch \in NewChan :
              heap' = [heap EXCEPT ![f] = [Round |-> heap[f].Round, B |-> heap[f].B,
                                           Error |-> "none", WaitFor |-> ch]]
    BY <1>2, PeekType
  <2>2. CASE f = e
    <3>1. heap'[e] = [Round |-> heap[e].Round, B |-> heap[e].B,
                      Error |-> "none", WaitFor |-> ch]
      BY <2>1, <2>2 DEF TypeOK
    <3> QED  BY <3>1 DEF Stays
  <2>3. CASE f # e
    BY <2>1, <2>3 DEF TypeOK, Stays
  <2> QED  BY <2>2, <2>3
<1>3. CASE UNCHANGED heap
  BY <1>3 DEF Stays
<1> QED  BY <1>1, <1>2, <1>3 DEF promiseBlock

\* A block that can be read stays readable while its entry is in use, whatever
\* fails, expires or is promised again after it (cache.go, addBlock and
\* promiseBlock), for any number of requests, loads and nodes.
THEOREM BlocksAreKept == Spec => BlocksStay
<1>1. ASSUME CacheInv, [Next]_vars, NEW e \in Entries, InUse(e), heap[e].B # NoBlock
      PROVE  Stays(e)
  <2>1. TypeOK /\ LoadsKnown
    BY <1>1 DEF CacheInv
  <2>2. ASSUME NEW c \in Caches, NEW r \in Rounds, NEW err \in Errors, addBlock(c, r, err)
        PROVE  Stays(e)
    BY <1>1, <2>1, <2>2, AddBlockStays
  <2>3. ASSUME NEW r \in Rounds, NEW err \in Errors, AddBlock(r, err) PROVE Stays(e)
    BY <2>2, <2>3, CacheChosen DEF AddBlock
  <2>4. "none" \in Errors /\ "load" \in Errors /\ "timeout" \in Errors
    BY DEF Errors
  <2>5. UNCHANGED heap => Stays(e)
    BY DEF Stays
  <2>6. ASSUME NEW q \in Requests,
               (\E r \in Rounds : StartGet(q, r)) \/ RequestStep(q) \/ Deadline(q)
        PROVE  Stays(e)
    <3>1. rnd[q] \in Rounds /\ CacheAt(q) \in Caches
      BY <2>1, CacheChosen DEF TypeOK, Threads
    <3>2. CASE Expire(q)
      BY <2>2, <2>4, <3>1, <3>2 DEF Expire
    <3>3. CASE (\E r \in Rounds : StartGet(q, r)) \/ Get(q) \/ Wake(q) \/ Reread(q) \/ Deadline(q)
      BY <2>5, <3>3 DEF StartGet, Get, Wake, Reread, Deadline, cacheVars
    <3> QED  BY <2>6, <3>2, <3>3 DEF RequestStep
  <2>7. ASSUME NEW p \in Prefetches, NEW r \in Rounds, StartPrefetch(p, r) PROVE Stays(e)
    BY <2>5, <2>7 DEF StartPrefetch, cacheVars
  <2>8. ASSUME NEW t \in Threads, PromiseStep(t) PROVE Stays(e)
    <3>1. rnd[t] \in Rounds /\ at[t] \in Caches
      BY <2>1 DEF TypeOK
    <3>2. CASE Route(t)
      BY <2>5, <3>2 DEF Route, cacheVars
    <3>3. CASE Promise(t)
      BY <1>1, <2>1, <3>1, <3>3, PromiseBlockStays DEF Promise
    <3> QED  BY <2>8, <3>2, <3>3 DEF PromiseStep
  <2>9. ASSUME NEW t \in Threads, LoadStep(t) PROVE Stays(e)
    <3>1. rnd[t] \in Rounds
      BY <2>1 DEF TypeOK
    <3>2. CASE LoadFuture(t) \/ LoadFail(t)
      BY <2>3, <2>4, <3>1, <3>2 DEF LoadFuture, LoadFail
    <3>3. CASE LoadSink(t)
      BY <2>3, <2>4, <3>1, <3>3 DEF LoadSink
    <3>4. CASE LoadStart(t) \/ LoadGiveUp(t) \/ LoadFetched(t) \/ LoadWrapError(t)
      BY <2>5, <3>4 DEF LoadStart, LoadGiveUp, LoadFetched, LoadWrapError, cacheVars
    <3> QED  BY <2>9, <3>2, <3>3, <3>4 DEF LoadStep
  <2>10. ASSUME NEW n \in Nodes, NodeStep(n) PROVE Stays(e)
    <3>1. /\ feed[n] # NoBlock => feed[n] \in Rounds
          /\ n \in sunk => feed[n] \in Rounds
      BY <1>1, <2>1 DEF TypeOK, CacheInv, FeedsKnown
    <3>2. CASE AskFailed(n)
      BY <2>3, <2>4, <3>1, <3>2 DEF AskFailed
    <3>3. CASE BlockSinkAdd(n)
      BY <2>3, <2>4, <3>1, <3>3 DEF BlockSinkAdd
    <3>4. CASE (\E r \in Rounds : BootStatus(n, r)) \/ Ask(n) \/ BlockSink(n) \/ BlockSinkWrapError(n)
      BY <2>5, <3>4 DEF BootStatus, Ask, BlockSink, BlockSinkWrapError, cacheVars
    <3> QED  BY <2>10, <3>2, <3>3, <3>4 DEF NodeStep
  <2>11. CASE UNCHANGED vars
    BY <2>5, <2>11 DEF vars, cacheVars
  <2> QED  BY <1>1, <2>6, <2>7, <2>8, <2>9, <2>10, <2>11 DEF Next
<1>2. CacheInv /\ [Next]_vars
        => [\A e \in Entries : (InUse(e) /\ heap[e].B # NoBlock) =>
              /\ heap'[e].B = heap[e].B /\ heap'[e].Round = heap[e].Round
              /\ heap[e].Error = "none" => heap'[e].Error = "none"]_vars
  BY <1>1 DEF Stays
<1> QED  BY <1>2, CacheInvariant, PTL DEF Spec, BlocksStay

-----------------------------------------------------------------------------
(* The refinement of BlockService *)

\* A step that changes nothing a client can see.
LEMMA Unseen ==
    ASSUME UNCHANGED <<fetched, latestRound>>,
           \A q \in Requests : /\ (pc'[q] = "idle") <=> (pc[q] = "idle")
                               /\ rnd'[q] = rnd[q] /\ resp'[q] = resp[q]
    PROVE  UNCHANGED Service!serviceVars
<1>1. Asked' = Asked
  BY DEF Asked
<1>2. Answers' = Answers
  BY DEF Answers
<1> QED  BY <1>1, <1>2 DEF Service!serviceVars

\* The end of a getBlock serves the block of the round that was asked for, or
\* gives up, or is not seen.
LEMMA ConcludeRefines ==
    ASSUME CacheInv, NEW q \in Requests, NEW bw, NEW err,
           pc[q] \in {"get", "wait", "woken"},
           bw # NoBlock => rnd[q] \in fetched,
           Conclude(q, bw, err),
           UNCHANGED <<rnd, fetched, latestRound>>
    PROVE  [Service!ServiceNext]_(Service!serviceVars)
<1>1. /\ TypeOK /\ resp[q] = "none" /\ q \in Threads /\ Requests \subseteq Threads
  BY DEF CacheInv, AnsweredWhenDone, Threads
<1>2. ASSUME NEW out \in {"block", "error"}, Answer(q, out),
             out = "block" => rnd[q] \in fetched
      PROVE  Service!Serve(q) \/ Service!GiveUp(q)
  <2>1. PICK o \in {"block", "error", "timeout"} :
           /\ resp' = [resp EXCEPT ![q] = o]
           /\ o = "block" => rnd[q] \in fetched
    BY <1>2 DEF Answer
  <2>2. pc' = [pc EXCEPT ![q] = "done"]
    BY <1>2 DEF Answer
  <2>3. Answers[q] = "none" /\ Answers' = [Answers EXCEPT ![q] = o]
    BY <1>1, <2>1 DEF Answers, TypeOK
  <2>4. Asked' = Asked /\ Asked[q] = rnd[q]
    BY <1>1, <2>2 DEF Asked, TypeOK
  <2>5. Asked[q] # NoBlock
    BY <1>1, <2>4, CacheAssumption DEF TypeOK, Rounds, NoBlock
  <2>6. CASE o = "block"
    BY <2>1, <2>3, <2>4, <2>5, <2>6 DEF Service!Serve
  <2>7. CASE o \in {"error", "timeout"}
    BY <2>3, <2>4, <2>5, <2>7 DEF Service!GiveUp
  <2> QED  BY <2>6, <2>7
<1>3. ASSUME Proceed(q)  PROVE UNCHANGED Service!serviceVars
  <2>1. PICK o \in {"route", "get"} : pc' = [pc EXCEPT ![q] = o]
    BY <1>3 DEF Proceed
  <2>2. resp' = resp
    BY <1>3 DEF Proceed
  <2> QED  BY <1>1, <2>1, <2>2, Unseen DEF TypeOK
<1>4. \/ \E out \in {"block", "error"} :
            Answer(q, out) /\ (out = "block" => rnd[q] \in fetched)
      \/ Proceed(q)
  BY DEF Conclude
<1> QED  BY <1>2, <1>3, <1>4 DEF Service!ServiceNext

\* The steps of a request refine the service.
LEMMA RequestRefines ==
    ASSUME CacheInv, NEW q \in Requests,
           (\E r \in Rounds : StartGet(q, r)) \/ RequestStep(q) \/ Deadline(q)
    PROVE  [Service!ServiceNext]_(Service!serviceVars)
<1>1. TypeOK /\ q \in Threads /\ Requests \subseteq Threads
  BY DEF CacheInv, Threads
<1>2. ASSUME NEW r \in Rounds, StartGet(q, r)
      PROVE  Service!Request(q, r) \/ Service!Refuse(q, r)
  <2>1. /\ pc[q] = "idle" /\ rnd' = [rnd EXCEPT ![q] = r]
        /\ UNCHANGED <<fetched, latestRound>>
    BY <1>2 DEF StartGet
  <2>2. PICK o \in {"done", "get"} : pc' = [pc EXCEPT ![q] = o]
    BY <1>2 DEF StartGet
  <2>3. Asked[q] = NoBlock /\ Asked' = [Asked EXCEPT ![q] = r]
    BY <1>1, <2>1, <2>2 DEF Asked, TypeOK
  <2>4. CASE r > latestRound
    <3>1. resp' = [resp EXCEPT ![q] = "error"]
      BY <1>2, <2>4 DEF StartGet
    <3>2. Answers' = [Answers EXCEPT ![q] = "error"]
      BY <1>1, <3>1 DEF Answers, TypeOK
    <3> QED  BY <2>1, <2>3, <2>4, <3>2 DEF Service!Refuse
  <2>5. CASE ~(r > latestRound)
    <3>1. resp' = resp
      BY <1>2, <2>5 DEF StartGet
    <3>2. Answers' = Answers
      BY <3>1 DEF Answers
    <3>3. r <= latestRound
      BY <1>1, <2>5, CacheAssumption DEF TypeOK, Rounds
    <3> QED  BY <2>1, <2>3, <3>2, <3>3 DEF Service!Request
  <2> QED  BY <2>4, <2>5
<1>3. CASE Get(q)
  <2>1. pc[q] = "get" /\ UNCHANGED <<rnd, fetched, latestRound>>
    BY <1>3 DEF Get
  <2>2. ASSUME NEW e \in Peek(CacheAt(q), rnd[q]), heap[e].B # NoBlock
        PROVE  rnd[q] \in fetched
    <3>1. e \in Entries /\ heap[e].Round = rnd[q]
      BY <1>1, CacheChosen, PeekType
    <3> QED  BY <2>2, <3>1 DEF CacheInv, BlocksFetched
  <2>3. CASE \E bw, err : Conclude(q, bw, err) /\ (bw # NoBlock => rnd[q] \in fetched)
    <3>1. PICK bw, err : Conclude(q, bw, err) /\ (bw # NoBlock => rnd[q] \in fetched)
      BY <2>3
    <3> QED  BY <2>1, <3>1, ConcludeRefines
  <2>4. CASE pc' = [pc EXCEPT ![q] = "wait"] /\ UNCHANGED <<phase, resp>>
    BY <1>1, <2>1, <2>4, Unseen DEF TypeOK
  <2> QED  BY <1>3, <2>2, <2>3, <2>4 DEF Get
<1>4. CASE Wake(q)
  BY <1>1, <1>4, Unseen DEF Wake, TypeOK
<1>5. CASE Reread(q)
  <2>1. pc[q] = "woken" /\ UNCHANGED <<rnd, fetched, latestRound>>
    BY <1>5 DEF Reread
  <2>2. heap[be[q]].B # NoBlock => rnd[q] \in fetched
    BY <2>1 DEF CacheInv, WaitersHold, BlocksFetched
  <2>3. PICK bw, err : Conclude(q, bw, err) /\ (bw # NoBlock => rnd[q] \in fetched)
    BY <1>5, <2>2 DEF Reread
  <2> QED  BY <2>1, <2>3, ConcludeRefines
<1>6. CASE Expire(q)
  BY <1>6, ConcludeRefines DEF Expire
<1>7. CASE Deadline(q)
  BY <1>7, Unseen DEF Deadline
<1> QED
  BY <1>2, <1>3, <1>4, <1>5, <1>6, <1>7 DEF RequestStep, Service!ServiceNext

\* The steps of everybody else refine the service.
LEMMA OthersRefine ==
    ASSUME CacheInv,
           \/ \E p \in Prefetches, r \in Rounds : StartPrefetch(p, r)
           \/ \E t \in Threads : PromiseStep(t) \/ LoadStep(t)
           \/ \E n \in Nodes : NodeStep(n)
    PROVE  [Service!ServiceNext]_(Service!serviceVars)
<1>1. TypeOK /\ Requests \subseteq Threads /\ Prefetches \subseteq Threads
      /\ Requests \cap Prefetches = {}
  BY CacheAssumption DEF CacheInv, Threads
<1>2. ASSUME NEW p \in Prefetches, NEW r \in Rounds, StartPrefetch(p, r)
      PROVE  UNCHANGED Service!serviceVars
  BY <1>1, <1>2, Unseen DEF StartPrefetch, TypeOK
<1>3. ASSUME NEW t \in Threads, PromiseStep(t)
      PROVE  UNCHANGED Service!serviceVars
  <2>1. CASE Route(t)
    BY <1>1, <2>1, Unseen DEF Route, TypeOK
  <2>2. CASE Promise(t)
    <3>1. PICK o \in {"get", "done"} : pc' = [pc EXCEPT ![t] = o]
      BY <2>2 DEF Promise
    <3>2. pc[t] = "promise" /\ UNCHANGED <<rnd, resp, fetched, latestRound>>
      BY <2>2 DEF Promise
    <3> QED  BY <1>1, <3>1, <3>2, Unseen DEF TypeOK
  <2> QED  BY <1>3, <2>1, <2>2 DEF PromiseStep
<1>4. ASSUME NEW t \in Threads, LoadStep(t)
      PROVE  [Service!ServiceNext]_(Service!serviceVars)
  <2>1. CASE LoadFetched(t)
    <3>1. /\ rnd[t] \in Rounds /\ ~(rnd[t] > latestRound)
          /\ fetched' = fetched \cup {rnd[t]} /\ latestRound' = latestRound
          /\ UNCHANGED threadVars
      BY <1>1, <2>1, CacheAssumption
         DEF LoadFetched, CacheInv, LoadsKnown, TypeOK, Rounds
    <3>2. Asked' = Asked /\ Answers' = Answers
      BY <3>1 DEF Asked, Answers, threadVars
    <3>3. Service!Deliver
      BY <3>1, <3>2 DEF Service!Deliver
    <3> QED  BY <3>3 DEF Service!ServiceNext
  <2>2. CASE ~LoadFetched(t)
    <3>1. UNCHANGED <<latestRound, threadVars, fetched>>
      BY <1>4, <2>2 DEF LoadStep, LoadFuture, LoadStart, LoadGiveUp, LoadFail,
                        LoadSink, LoadWrapError
    <3> QED  BY <3>1, Unseen DEF threadVars
  <2> QED  BY <2>1, <2>2
<1>5. ASSUME NEW n \in Nodes, NodeStep(n)
      PROVE  [Service!ServiceNext]_(Service!serviceVars)
  <2>1. UNCHANGED threadVars
    BY <1>5 DEF NodeStep, BootStatus, Ask, AskFailed, BlockSink, BlockSinkAdd,
                BlockSinkWrapError
  <2>2. Asked' = Asked /\ Answers' = Answers
    BY <2>1 DEF Asked, Answers, threadVars
  <2>3. CASE \E r \in Rounds : BootStatus(n, r)
    BY <2>2, <2>3 DEF BootStatus, Service!Advance, Service!ServiceNext
  <2>4. CASE BlockSink(n)
    <3>1. /\ feed[n] \in Rounds /\ fetched' = fetched \cup {feed[n]}
          /\ latestRound' = IF feed[n] > latestRound THEN feed[n] ELSE latestRound
      BY <1>1, <2>4, CacheAssumption DEF BlockSink, TypeOK, Rounds
    <3>2. Service!Deliver
      BY <2>2, <3>1 DEF Service!Deliver
    <3> QED  BY <3>2 DEF Service!ServiceNext
  <2>5. CASE Ask(n) \/ AskFailed(n) \/ BlockSinkAdd(n) \/ BlockSinkWrapError(n)
    <3>1. UNCHANGED <<fetched, latestRound>>
      BY <2>5 DEF Ask, AskFailed, BlockSinkAdd, BlockSinkWrapError
    <3> QED  BY <2>1, <3>1, Unseen DEF threadVars
  <2> QED  BY <1>5, <2>3, <2>4, <2>5 DEF NodeStep
<1> QED  BY <1>2, <1>3, <1>4, <1>5

\* UnifiedCache implements BlockService: one final answer for every request,
\* a served block delivered by a node and of the round asked for, and only
\* future rounds refused outright.
THEOREM Refinement == Spec => ImplementsService
<1>1. Init => Service!ServiceInit
  BY DEF Init, Service!ServiceInit, Asked, Answers, Threads
<1>2. CacheInv /\ [Next]_vars => [Service!ServiceNext]_(Service!serviceVars)
  <2> SUFFICES ASSUME CacheInv, [Next]_vars
               PROVE  [Service!ServiceNext]_(Service!serviceVars)
    OBVIOUS
  <2>1. CASE UNCHANGED vars
    BY <2>1, Unseen DEF vars, threadVars
  <2>2. CASE Next
    BY <2>2, RequestRefines, OthersRefine DEF Next
  <2> QED  BY <2>1, <2>2
<1> QED  BY <1>1, <1>2, CacheInvariant, PTL DEF Spec, ImplementsService, Service!ServiceSpec
=============================================================================
