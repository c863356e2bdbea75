-------------------------- MODULE ConversionProofs --------------------------
(***************************************************************************)
(* Proofs about Conversion, for a block of any size and any nesting of its *)
(* transactions: ConversionInv is inductive.                               *)
(***************************************************************************)
EXTENDS Conversion, FiniteSetTheorems, SequenceTheorems, WellFoundedInduction, TLAPS

Frames == [txn : Txns, intra : 0 .. Count, extra : Rows]

LEMMA ConversionInitially == Init => ConversionInv
<1> SUFFICES ASSUME Init PROVE ConversionInv
    OBVIOUS
<1>1. BlockInv
    BY DEF Init, BlockInv
<1>2. stack = <<>> /\ out = <<>> /\ intra = 0 /\ DOMAIN out = {} /\ DOMAIN stack = {}
    BY DEF Init
<1>3. WalkInv
    <2>1. <<>> \in Seq(Frames) /\ 0 \in 0 .. Count /\ 1 .. 0 = {}
        BY ConversionAssumption
    <2>2. \A t \in Txns : t \in Int
        BY ConversionAssumption DEF Txns
    <2> QED BY <1>1, <1>2, <2>1 DEF WalkInv, Reached, Frames
<1>4. RowInv /\ OffsetsCountInner /\ CreatedIsLedgers /\ AmountsAreOwn
    BY <1>2 DEF RowInv, OffsetsCountInner, CreatedIsLedgers, AmountsAreOwn
<1> QED BY <1>1, <1>3, <1>4 DEF ConversionInv

\* The block does not change.
LEMMA BlockStays ==
    ASSUME BlockInv, UNCHANGED blockVars
    PROVE  BlockInv'
<1> QED BY DEF BlockInv, blockVars, Roots, Nested, Txns, Kinds

\* The next top-level transaction is the one after the last that was met: one
\* before it would be within a call that has not returned.
LEMMA RootIsNext ==
    ASSUME ConversionInv, stack = <<>>, NEW t \in First(Roots)
    PROVE  t = intra + 1 /\ t \in Txns /\ t \notin DOMAIN out
<1>1. BlockInv /\ WalkInv
    BY DEF ConversionInv
<1>2. DOMAIN out = 1 .. intra /\ intra \in 0 .. Count
    <2>1. DOMAIN stack = {}
        OBVIOUS
    <2>2. {stack[i].txn : i \in DOMAIN stack} = {}
        BY <2>1
    <2> QED BY <1>1, <2>2 DEF WalkInv, Reached
<1>3. t \in Roots /\ t \in 1 .. Count /\ t \notin DOMAIN out
    BY DEF First, Roots, Txns
<1>4. t > intra
    BY <1>2, <1>3, ConversionAssumption
<1>5. ASSUME t # intra + 1 PROVE FALSE
    <2>1. intra + 1 \in Txns /\ intra + 1 < t /\ intra + 1 \notin DOMAIN out
        BY <1>2, <1>3, <1>4, <1>5, ConversionAssumption DEF Txns
    <2>2. intra + 1 \notin Roots
        BY <2>1, <1>2, <1>3, ConversionAssumption DEF First
    <2>3. parent[intra + 1] \in 1 .. intra
        BY <1>1, <1>2, <2>1, <2>2, ConversionAssumption DEF Roots, BlockInv
    <2> QED BY <1>1, <1>2, <2>1, <2>3 DEF WalkInv
<1> QED BY <1>3, <1>5 DEF Txns

\* So is the next inner one.
LEMMA InnerIsNext ==
    ASSUME ConversionInv, stack # <<>>,
           NEW t \in First({s \in Txns : parent[s] = Top.txn})
    PROVE  /\ t = Top.intra + 1 /\ t \in Txns /\ t \notin DOMAIN out
           /\ parent[t] = Top.txn /\ t \notin Roots
<1>1. BlockInv /\ WalkInv
    BY DEF ConversionInv
<1>2. /\ Len(stack) \in DOMAIN stack /\ Top \in Frames /\ Len(stack) \in Nat
      /\ DOMAIN stack = 1 .. Len(stack) /\ \A i \in DOMAIN stack : stack[i] \in Frames
    <2>1. stack \in Seq(Frames)
        BY <1>1 DEF WalkInv, Frames
    <2> QED BY <2>1 DEF Top
<1>3. /\ Top.txn \in 1 .. Count /\ Top.intra \in 0 .. Count /\ Reached = Top.intra
      /\ DOMAIN out \cup {stack[i].txn : i \in DOMAIN stack} = 1 .. Top.intra
    BY <1>1, <1>2 DEF WalkInv, Reached, Frames, Txns
<1>4. t \in 1 .. Count /\ t \notin DOMAIN out /\ parent[t] = Top.txn /\ parent[t] < t
    BY <1>1 DEF First, BlockInv, Txns
<1>5. \A i \in DOMAIN stack : stack[i].txn \in 1 .. Count /\ stack[i].txn <= Top.txn
    <2>1. \A i \in DOMAIN stack : stack[i].txn \in 1 .. Count
        BY <1>2 DEF Frames, Txns
    <2>2. \A i \in DOMAIN stack : i < Len(stack) => stack[i].txn < Top.txn
        BY <1>1, <1>2 DEF WalkInv, Top
    <2> QED BY <1>2, <1>3, <2>1, <2>2, ConversionAssumption DEF Top
<1>6. Top.txn <= Top.intra /\ t > Top.intra
    <2>1. Top.txn \in 1 .. Top.intra
        BY <1>2, <1>3 DEF Top
    <2>2. \A i \in DOMAIN stack : stack[i].txn # t
        BY <1>3, <1>4, <1>5, ConversionAssumption
    <2>3. t \notin 1 .. Top.intra
        BY <1>3, <1>4, <2>2
    <2> QED BY <1>3, <1>4, <2>1, <2>3, ConversionAssumption
<1>7. ASSUME t # Top.intra + 1 PROVE FALSE
    <2> DEFINE u == Top.intra + 1
    <2>1. u \in Txns /\ u < t /\ u \notin DOMAIN out /\ u > Top.txn
        BY <1>3, <1>4, <1>6, <1>7, ConversionAssumption DEF Txns
    <2>2. parent[u] >= Top.txn /\ parent[u] < u /\ parent[u] \in 0 .. Count
        <3>1. \/ parent[t] = 0 \/ parent[t] = t - 1
              \/ \A s \in parent[t] + 1 .. t - 1 : parent[s] >= parent[t]
            BY <1>1, <1>4 DEF BlockInv, Nested, Txns
        <3>2. u \in parent[t] + 1 .. t - 1 /\ parent[t] # 0 /\ parent[t] # t - 1
            BY <1>3, <1>4, <2>1, ConversionAssumption DEF Txns
        <3>3. parent[u] < u /\ parent[u] \in 0 .. Count
            BY <1>1, <2>1 DEF BlockInv
        <3> QED BY <1>4, <3>1, <3>2, <3>3
    <2>3. parent[u] # Top.txn
        BY <1>3, <1>4, <2>1, ConversionAssumption DEF First, Txns
    <2>4. parent[u] \in DOMAIN out \cup {stack[i].txn : i \in DOMAIN stack}
        BY <1>3, <2>2, ConversionAssumption
    <2>5. \A i \in DOMAIN stack : stack[i].txn # parent[u]
        BY <1>3, <1>5, <2>2, <2>3, ConversionAssumption
    <2> QED BY <1>1, <2>1, <2>4, <2>5 DEF WalkInv
<1> QED BY <1>3, <1>4, <1>7 DEF Txns, Roots

-----------------------------------------------------------------------------
(* Calls *)

\* A transaction that created something has the ledger's id in ApplyData, or is
\* a top-level one whose position gives it.
LEMMA CreatedId ==
    ASSUME BlockInv, NEW t \in Txns
    PROVE  /\ ApplyId(t) \in Nat /\ LedgerId(t) \in Nat /\ LedgerId(t) > 0
           /\ Creates(t) /\ ~preV30 => ApplyId(t) = LedgerId(t)
           /\ transactionAssetID(t, t - 1) \in Nat
           /\ Creates(t) => transactionAssetID(t, t - 1) = LedgerId(t)
<1>1. /\ t \in 1 .. Count /\ Count \in Nat /\ Counter \in Nat /\ Counter > 0
      /\ kind[t] \in Kinds /\ preV30 \in BOOLEAN
    BY ConversionAssumption DEF Txns, BlockInv
<1>2. LedgerId(t) \in Nat /\ LedgerId(t) > 0 /\ ApplyId(t) \in Nat
    BY <1>1 DEF LedgerId, ApplyId
<1>3. Creates(t) /\ ~preV30 => ApplyId(t) = LedgerId(t)
    BY DEF ApplyId
<1>4. Cardinality(Roots) \in 0 .. Count /\ (preV30 => Cardinality(Roots) = Count)
    <2>1. IsFiniteSet(Txns) /\ Cardinality(Txns) = Count
        <3>1. 1 \in Int /\ Count \in Int
            BY <1>1
        <3> QED BY <1>1, <3>1, FS_Interval DEF Txns
    <2>2. Roots \subseteq Txns
        BY DEF Roots
    <2>3. Cardinality(Roots) \in Nat /\ Cardinality(Roots) <= Cardinality(Txns)
        BY <2>1, <2>2, FS_Subset, FS_CardinalityType
    <2> QED BY <1>1, <2>1, <2>3 DEF BlockInv
<1>5. OwnId(t) \in Nat /\ (Creates(t) => OwnId(t) = 0 /\ kind[t] # "other")
    BY <1>1 DEF OwnId, Creates
<1>6. TxnCounter - Cardinality(Roots) + (t - 1) + 1 \in Nat
    BY <1>1, <1>4 DEF TxnCounter
<1>7. transactionAssetID(t, t - 1) \in Nat
    BY <1>2, <1>5, <1>6 DEF transactionAssetID
<1>8. Creates(t) => transactionAssetID(t, t - 1) = LedgerId(t)
    <2>1. CASE preV30
        <3>1. TxnCounter - Cardinality(Roots) + (t - 1) + 1 = LedgerId(t) /\ ApplyId(t) = 0
            BY <1>1, <1>4, <2>1 DEF TxnCounter, LedgerId, ApplyId
        <3> QED BY <1>5, <3>1 DEF transactionAssetID
    <2>2. CASE ~preV30
        BY <1>2, <1>3, <1>5, <2>2 DEF transactionAssetID
    <2> QED BY <2>1, <2>2
<1> QED BY <1>2, <1>3, <1>7, <1>8

\* A call is pushed for the transaction after the last that was met.
LEMMA PushKeeps ==
    ASSUME ConversionInv, NEW t \in Txns, NEW row \in Rows,
           t = Reached + 1, t \notin DOMAIN out,
           UNCHANGED <<blockVars, intra, out>>,
           stack' = Append(stack, [txn |-> t, intra |-> t, extra |-> row]),
           stack = <<>> => t \in Roots /\ row.Intra = t - 1,
           stack # <<>> => t \notin Roots /\ row.Intra = Top.extra.Intra,
           row.AssetCloseAmount = AssetClosingAmount(t),
           Creates(t) => row.AssetID = LedgerId(t)
    PROVE  ConversionInv'
<1> DEFINE f == [txn |-> t, intra |-> t, extra |-> row]
<1>1. BlockInv /\ WalkInv /\ RowInv /\ OffsetsCountInner /\ CreatedIsLedgers /\ AmountsAreOwn
    BY DEF ConversionInv
<1>2. f \in Frames /\ stack \in Seq(Frames) /\ t \in 1 .. Count /\ Count \in Nat
    BY <1>1, ConversionAssumption DEF Frames, WalkInv, Txns
<1>3. /\ stack' \in Seq(Frames) /\ stack' # <<>> /\ Len(stack') = Len(stack) + 1
      /\ DOMAIN stack = 1 .. Len(stack) /\ DOMAIN stack' = 1 .. Len(stack) + 1
      /\ Len(stack) \in Nat /\ (stack = <<>> <=> Len(stack) = 0)
      /\ stack'[Len(stack) + 1] = f
      /\ \A i \in DOMAIN stack : stack'[i] = stack[i]
    BY <1>2
<1>4. Top' = f /\ Reached' = t /\ Reached \in Int /\ Reached < t
    <2>1. Top' = f
        BY <1>3 DEF Top
    <2>2. Reached \in Int
        <3>1. CASE stack = <<>>
            BY <1>1, <3>1 DEF Reached, WalkInv
        <3>2. CASE stack # <<>>
            <4>1. Top \in Frames
                BY <1>2, <3>2 DEF Top
            <4> QED BY <3>2, <4>1 DEF Reached, Frames
        <3> QED BY <3>1, <3>2
    <2> QED BY <1>3, <2>1, <2>2 DEF Reached
<1>5. {stack'[i].txn : i \in DOMAIN stack'} = {stack[i].txn : i \in DOMAIN stack} \cup {t}
    <2>1. \A i \in DOMAIN stack' : i \in DOMAIN stack \/ i = Len(stack) + 1
        BY <1>3
    <2>2. \A i \in DOMAIN stack : i \in DOMAIN stack' /\ stack'[i] = stack[i]
        BY <1>3
    <2>3. Len(stack) + 1 \in DOMAIN stack' /\ stack'[Len(stack) + 1].txn = t
        BY <1>3
    <2> QED BY <2>1, <2>2, <2>3
<1>6. BlockInv' /\ UNCHANGED <<kind, parent, preV30, out>> /\ Roots' = Roots
    BY <1>1, BlockStays DEF blockVars, Roots
<1>7. \A i \in DOMAIN stack : stack[i].txn \in Int /\ stack[i].txn < t
    <2>1. \A i \in DOMAIN stack : stack[i].txn \in 1 .. Reached
        BY <1>1 DEF WalkInv
    <2> QED BY <1>4, <2>1
<1>8. WalkInv'
    <2>1. intra' \in 0 .. Count
        BY <1>1 DEF WalkInv
    <2>2. DOMAIN out' \cup {stack'[i].txn : i \in DOMAIN stack'} = 1 .. Reached'
        <3>1. DOMAIN out \cup {stack[i].txn : i \in DOMAIN stack} = 1 .. Reached
            BY <1>1 DEF WalkInv
        <3>2. Reached \in Nat /\ 1 .. Reached' = 1 .. Reached \cup {t}
            BY <1>2, <1>4
        <3> QED BY <1>5, <1>6, <3>1, <3>2
    <2>3. \A s \in Txns : parent'[s] \in DOMAIN out' => s \in DOMAIN out'
        BY <1>1, <1>6 DEF WalkInv
    <2>4. \A i \in DOMAIN stack' : stack'[i].txn \notin DOMAIN out'
        BY <1>1, <1>3, <1>6 DEF WalkInv
    <2>5. \A i, j \in DOMAIN stack' : i < j => stack'[i].txn < stack'[j].txn
        <3>1. ASSUME NEW i \in DOMAIN stack', NEW j \in DOMAIN stack', i < j
              PROVE  stack'[i].txn < stack'[j].txn
            <4>1. i \in DOMAIN stack
                BY <1>3, <3>1
            <4>2. CASE j \in DOMAIN stack
                BY <1>1, <1>3, <3>1, <4>1, <4>2 DEF WalkInv
            <4>3. CASE j = Len(stack) + 1
                BY <1>3, <1>7, <4>1, <4>3
            <4> QED BY <1>3, <4>2, <4>3
        <3> QED BY <3>1
    <2>6. stack'[1].txn \in Roots /\ \A s \in Roots : s <= t => s <= stack'[1].txn
        <3>1. CASE stack = <<>>
            BY <1>3, <3>1
        <3>2. CASE stack # <<>>
            <4>1. stack'[1] = stack[1] /\ stack[1].txn \in Roots
                BY <1>1, <1>3, <3>2 DEF WalkInv
            <4>2. ASSUME NEW s \in Roots, s <= t PROVE s <= Reached
                BY <1>2, <1>4, <3>2, <4>2 DEF Roots, Txns
            <4> QED BY <1>1, <3>2, <4>1, <4>2 DEF WalkInv
        <3> QED BY <3>1, <3>2
    <2>7. stack' \in Seq([txn : Txns, intra : 0 .. Count, extra : Rows])
        BY <1>3 DEF Frames
    <2> QED BY <1>4, <1>6, <2>1, <2>2, <2>3, <2>4, <2>5, <2>6, <2>7 DEF WalkInv, Txns, Rows
<1>9. RowInv'
    <2>1. ASSUME NEW i \in DOMAIN stack'
          PROVE  /\ stack'[i].extra.Intra = stack'[1].txn - 1
                 /\ stack'[i].extra.AssetCloseAmount = AssetClosingAmount(stack'[i].txn)
                 /\ Creates(stack'[i].txn) => stack'[i].extra.AssetID = LedgerId(stack'[i].txn)
        <3>1. CASE i \in DOMAIN stack
            <4>1. stack'[i] = stack[i] /\ stack'[1] = stack[1]
                BY <1>3, <3>1
            <4> QED BY <1>1, <3>1, <4>1 DEF RowInv
        <3>2. CASE i = Len(stack) + 1
            <4>1. stack'[i] = f
                BY <1>3, <3>2
            <4>2. CASE stack = <<>>
                BY <1>3, <3>2, <4>1, <4>2
            <4>3. CASE stack # <<>>
                <5>1. Len(stack) \in DOMAIN stack /\ stack'[1] = stack[1]
                    BY <1>3, <4>3
                <5>2. Top.extra.Intra = stack[1].txn - 1
                    BY <1>1, <5>1 DEF RowInv, Top
                <5> QED BY <4>1, <4>3, <5>1, <5>2
            <4> QED BY <4>2, <4>3
        <3> QED BY <1>3, <3>1, <3>2
    <2> QED BY <1>6, <2>1 DEF RowInv, AssetClosingAmount, Creates, LedgerId
<1>10. OffsetsCountInner' /\ CreatedIsLedgers' /\ AmountsAreOwn'
    BY <1>1, <1>6 DEF OffsetsCountInner, CreatedIsLedgers, AmountsAreOwn, Outermost, Creates,
                      LedgerId, AssetClosingAmount
<1> QED BY <1>6, <1>8, <1>9, <1>10 DEF ConversionInv

\* A set of natural numbers that is not empty has a least element.
LEMMA LeastExists ==
    ASSUME NEW R \in SUBSET Nat, R # {}
    PROVE  \E t \in R : \A s \in R : t <= s
<1> DEFINE Less == {ss \in Nat \X Nat : ss[1] < ss[2]}
<1>1. IsWellFoundedOn(Less, Nat)
    BY NatLessThanWellFounded DEF OpToRel
<1> HIDE DEF Less
<1>2. PICK t \in R : \A s \in R : ~(<<s, t>> \in Less)
    BY <1>1, WFMin
<1>3. ASSUME NEW s \in R PROVE t <= s
    <2>1. s \in Nat /\ t \in Nat
        OBVIOUS
    <2>2. s < t => <<s, t>> \in Less
        BY <2>1 DEF Less
    <2> QED BY <1>2, <2>1, <2>2
<1> QED BY <1>3

\* When no transaction is next, all of them are converted.
LEMMA NoneLeft ==
    ASSUME NEW S \in SUBSET Nat, NEW D,
           {t \in S : t \notin D /\ \A s \in S : s \in D \/ t <= s} = {}
    PROVE  \A s \in S : s \in D
<1> SUFFICES ASSUME NEW u \in S, u \notin D PROVE FALSE
    OBVIOUS
<1> DEFINE R == {n \in Nat : n \in S /\ n \notin D}
<1>1. R \in SUBSET Nat /\ R # {}
    OBVIOUS
<1> HIDE DEF R
<1>2. PICK t \in R : \A s \in R : t <= s
    BY <1>1, LeastExists
<1> QED BY <1>2 DEF R

\* The last of a set up to some point is determined by what it is.
LEMMA LastIsUnique ==
    ASSUME NEW R, R \subseteq Int, NEW t \in Int, NEW r \in R, r <= t,
           \A s \in R : s <= t => s <= r
    PROVE  LastUpTo(R, t) = r
<1>1. \A q \in R : (q <= t /\ \A s \in R : s <= t => s <= q) => q = r
    OBVIOUS
<1> QED BY <1>1 DEF LastUpTo

\* A call returns: the transaction is converted, with its count taken over by
\* the caller.
LEMMA ReturnKeeps ==
    ASSUME ConversionInv, signedTxnWithAdToTransaction
    PROVE  ConversionInv'
<1> DEFINE last == Len(stack)
           rest == SubSeq(stack, 1, last - 1)
           Inner == {s \in Txns : parent[s] = Top.txn}
<1>1. BlockInv /\ WalkInv /\ RowInv /\ OffsetsCountInner /\ CreatedIsLedgers /\ AmountsAreOwn
    BY DEF ConversionInv
<1>2. stack # <<>> /\ stack \in Seq(Frames) /\ Count \in Nat
    BY <1>1, ConversionAssumption DEF signedTxnWithAdToTransaction, WalkInv, Frames
<1>3. /\ last \in Nat /\ last > 0 /\ DOMAIN stack = 1 .. last /\ Top = stack[last]
      /\ Top \in Frames /\ \A i \in DOMAIN stack : stack[i] \in Frames
    BY <1>2 DEF Top
<1>4. rest \in Seq(Frames) /\ Len(rest) = last - 1 /\ \A i \in 1 .. last - 1 : rest[i] = stack[i]
    BY <1>2, <1>3
<1>5. stack' = nextIntra(rest, Top)
    BY DEF signedTxnWithAdToTransaction
<1>6. /\ stack' \in Seq(Frames) /\ Len(stack') = last - 1 /\ DOMAIN stack' = 1 .. last - 1
      /\ \A i \in 1 .. last - 1 : stack'[i].txn = stack[i].txn /\ stack'[i].extra = stack[i].extra
      /\ last > 1 => stack'[last - 1].intra = Top.intra
    <2>1. CASE last = 1
        BY <1>3, <1>4, <1>5, <2>1 DEF nextIntra
    <2>2. CASE last > 1
        <3> DEFINE g == [txn |-> rest[last - 1].txn, intra |-> Top.intra,
                         extra |-> rest[last - 1].extra]
        <3>1. stack' = [rest EXCEPT ![last - 1] = g] /\ rest[last - 1] \in Frames
            <4>1. rest # <<>> /\ last - 1 \in 1 .. Len(rest)
                BY <1>3, <1>4, <2>2
            <4> QED BY <1>4, <1>5, <4>1 DEF nextIntra
        <3>2. g \in Frames
            BY <1>3, <3>1 DEF Frames
        <3>3. stack' \in Seq(Frames) /\ Len(stack') = last - 1 /\ DOMAIN stack' = 1 .. last - 1
            BY <1>3, <1>4, <2>2, <3>1, <3>2
        <3>4. \A i \in 1 .. last - 1 : stack'[i] = IF i = last - 1 THEN g ELSE stack[i]
            <4>1. DOMAIN rest = 1 .. last - 1
                BY <1>3, <1>4
            <4>2. \A i \in DOMAIN rest : stack'[i] = IF i = last - 1 THEN g ELSE rest[i]
                BY <3>1
            <4> QED BY <1>4, <4>1, <4>2
        <3>5. rest[last - 1] = stack[last - 1]
            BY <1>3, <1>4, <2>2
        <3>6. \A i \in 1 .. last - 1 : stack'[i].txn = stack[i].txn /\ stack'[i].extra = stack[i].extra
            BY <3>4, <3>5
        <3>7. stack'[last - 1].intra = Top.intra
            <4>1. last - 1 \in 1 .. last - 1
                BY <1>3, <2>2
            <4>2. stack'[last - 1] = g
                BY <3>4, <4>1
            <4> QED BY <4>2
        <3> QED BY <3>3, <3>6, <3>7
    <2>3. last = 1 \/ last > 1
        BY <1>3
    <2> QED BY <2>1, <2>2, <2>3, Zenon
<1>7. /\ UNCHANGED <<kind, parent, preV30>> /\ Roots' = Roots /\ BlockInv'
      /\ intra' = IF last = 1 THEN Top.intra ELSE intra
      /\ \A s \in Txns : parent[s] = Top.txn => s \in DOMAIN out
    <2>1. UNCHANGED blockVars /\ intra' = IF last = 1 THEN Top.intra ELSE intra
        BY DEF signedTxnWithAdToTransaction
    <2>2. First(Inner) = {}
        BY DEF signedTxnWithAdToTransaction
    <2>3. \A s \in Inner : s \in DOMAIN out
        <3>1. Inner \in SUBSET Nat
            BY <1>2 DEF Txns
        <3> QED BY <1>2, <2>2, <3>1, NoneLeft DEF First
    <2> QED BY <1>1, <2>1, <2>3, BlockStays DEF blockVars, Roots
<1>8. Reached' = Top.intra /\ Reached = Top.intra /\ Top.intra \in 0 .. Count
    <2>1. CASE last = 1
        BY <1>2, <1>3, <1>6, <1>7, <2>1 DEF Reached, Frames
    <2>2. CASE last > 1
        <3>1. stack' # <<>> /\ Top' = stack'[last - 1]
            BY <1>3, <1>6, <2>2 DEF Top
        <3> QED BY <1>2, <1>3, <1>6, <2>2, <3>1 DEF Reached, Frames
    <2> QED BY <1>3, <2>1, <2>2
<1>9. PICK delta : out' = [t \in DOMAIN out \cup {Top.txn} |->
                             IF t # Top.txn THEN out[t] ELSE Converted(Top, delta)]
    BY DEF signedTxnWithAdToTransaction
<1>10. /\ DOMAIN out' = DOMAIN out \cup {Top.txn} /\ Top.txn \notin DOMAIN out
       /\ \A t \in DOMAIN out : out'[t] = out[t]
       /\ out'[Top.txn] = Converted(Top, delta)
    BY <1>1, <1>3, <1>9 DEF WalkInv
<1>11. {stack[i].txn : i \in DOMAIN stack} = {stack'[i].txn : i \in DOMAIN stack'} \cup {Top.txn}
    <2>1. \A i \in DOMAIN stack : i \in DOMAIN stack' \/ i = last
        BY <1>3, <1>6
    <2>2. \A i \in DOMAIN stack' : i \in DOMAIN stack /\ stack'[i].txn = stack[i].txn
        BY <1>3, <1>6
    <2>3. last \in DOMAIN stack /\ stack[last].txn = Top.txn
        BY <1>3
    <2> QED BY <2>1, <2>2, <2>3
<1>12. \A i \in DOMAIN stack' : /\ i \in DOMAIN stack /\ i < last
                                /\ stack'[i].txn = stack[i].txn /\ stack'[i].extra = stack[i].extra
    BY <1>3, <1>6
<1>13. WalkInv'
    <2>1. intra' \in 0 .. Count
        BY <1>1, <1>7, <1>8 DEF WalkInv
    <2>2. DOMAIN out' \cup {stack'[i].txn : i \in DOMAIN stack'} = 1 .. Reached'
        BY <1>1, <1>8, <1>10, <1>11 DEF WalkInv
    <2>3. \A s \in Txns : parent'[s] \in DOMAIN out' => s \in DOMAIN out'
        BY <1>1, <1>7, <1>10 DEF WalkInv
    <2>4. \A i \in DOMAIN stack' : stack'[i].txn \notin DOMAIN out'
        <3>1. ASSUME NEW i \in DOMAIN stack' PROVE stack[i].txn # Top.txn
            <4>1. stack[i].txn < stack[last].txn /\ stack[i] \in Frames
                BY <1>1, <1>3, <1>12 DEF WalkInv
            <4> QED BY <1>3, <4>1 DEF Frames, Txns
        <3> QED BY <1>1, <1>10, <1>12, <3>1 DEF WalkInv
    <2>5. \A i, j \in DOMAIN stack' : i < j => stack'[i].txn < stack'[j].txn
        BY <1>1, <1>12 DEF WalkInv
    <2>6. stack' # <<>> =>
             stack'[1].txn \in Roots /\ \A s \in Roots : s <= Reached' => s <= stack'[1].txn
        <3>1. stack' # <<>> => 1 \in DOMAIN stack'
            BY <1>3, <1>6
        <3> QED BY <1>1, <1>2, <1>8, <1>12, <3>1 DEF WalkInv
    <2>7. stack' \in Seq([txn : Txns, intra : 0 .. Count, extra : Rows])
        BY <1>6 DEF Frames
    <2> QED BY <1>7, <2>1, <2>2, <2>3, <2>4, <2>5, <2>6, <2>7 DEF WalkInv, Txns, Rows
<1>14. RowInv'
    <2>1. \A i \in DOMAIN stack' : 1 \in DOMAIN stack'
        BY <1>3, <1>6
    <2> QED BY <1>1, <1>7, <1>12, <2>1 DEF RowInv, AssetClosingAmount, Creates, LedgerId
<1>15. /\ Top.txn \in Txns /\ Top.txn \in Int
       /\ Top.extra.Intra = stack[1].txn - 1
       /\ Top.extra.AssetCloseAmount = AssetClosingAmount(Top.txn)
       /\ Creates(Top.txn) => Top.extra.AssetID = LedgerId(Top.txn)
    BY <1>1, <1>3 DEF RowInv, Frames, Txns
<1>16. OffsetsCountInner'
    <2>1. Outermost(Top.txn) = stack[1].txn
        <3>1. /\ stack[1].txn \in Roots /\ stack[1].txn <= Top.txn
              /\ \A s \in Roots : s <= Top.txn => s <= stack[1].txn
            <4>1. stack[1] \in Frames /\ (last = 1 \/ stack[1].txn < stack[last].txn)
                BY <1>1, <1>3 DEF WalkInv
            <4>2. Top.txn \in 1 .. Top.intra
                BY <1>1, <1>3, <1>8 DEF WalkInv
            <4>3. \A s \in Roots : s \in Int
                BY <1>2 DEF Roots, Txns
            <4>4. stack[1].txn \in Roots /\ \A s \in Roots : s <= Top.intra => s <= stack[1].txn
                BY <1>1, <1>2, <1>8 DEF WalkInv
            <4>5. stack[1].txn <= Top.txn
                BY <1>3, <1>15, <4>1, <4>3, <4>4
            <4> QED BY <1>8, <4>2, <4>3, <4>4, <4>5
        <3>2. Roots \subseteq Int
            BY <1>2 DEF Roots, Txns
        <3>3. LastUpTo(Roots, Top.txn) = stack[1].txn
            BY <1>15, <3>1, <3>2, LastIsUnique
        <3> QED BY <3>3 DEF Outermost
    <2>2. Converted(Top, delta).IntraRoundOffset = Outermost(Top.txn) - 1
        BY <1>15, <2>1 DEF Converted
    <2>3. \A t : Outermost(t)' = Outermost(t)
        BY <1>7 DEF Outermost
    <2> QED BY <1>1, <1>10, <2>2, <2>3 DEF OffsetsCountInner
<1>17. CreatedIsLedgers'
    <2>1. Converted(Top, delta).Created = IF Creates(Top.txn) THEN LedgerId(Top.txn) ELSE None
        <3>1. /\ kind[Top.txn] \in Kinds /\ LedgerId(Top.txn) > 0
              /\ Counter \in Nat /\ Counter # 0
            BY <1>1, <1>15, CreatedId, ConversionAssumption DEF BlockInv
        <3> QED BY <1>15, <3>1 DEF Converted, Payload, OwnId, Creates, Kinds, Apps, None
    <2> QED BY <1>1, <1>7, <1>10, <2>1 DEF CreatedIsLedgers, Creates, LedgerId
<1>18. AmountsAreOwn'
    <2>1. Converted(Top, delta).CloseAmount
             = IF kind[Top.txn] = "axfer" THEN AssetClosingAmount(Top.txn) ELSE None
        BY <1>15 DEF Converted, Payload
    <2> QED BY <1>1, <1>7, <1>10, <2>1 DEF AmountsAreOwn, AssetClosingAmount
<1> QED BY <1>7, <1>13, <1>14, <1>16, <1>17, <1>18 DEF ConversionInv

-----------------------------------------------------------------------------
(* Sorted lists *)

Ascending(list) == \A i, j \in DOMAIN list : i < j => list[i] < list[j]

\* A list without repetitions, as long as the set its elements are from, has
\* all of them.
LEMMA OrderHasAll ==
    ASSUME NEW S, IsFiniteSet(S), NEW list \in SetToSeqs(S)
    PROVE  /\ ToSet(list) = S /\ DOMAIN list = 1 .. Cardinality(S)
           /\ Cardinality(S) \in Nat /\ list \in Seq(S) /\ Len(list) = Cardinality(S)
<1> DEFINE D == 1 .. Cardinality(S)
<1>1. Cardinality(S) \in Nat
    BY FS_CardinalityType
<1>2. list \in [D -> S] /\ \A i, j \in D : i # j => list[i] # list[j]
    BY DEF SetToSeqs
<1>3. list \in Injection(D, S)
    BY <1>2 DEF Injection, IsInjective
<1>4. IsFiniteSet(D) /\ Cardinality(D) = Cardinality(S)
    BY <1>1, FS_Interval
<1>5. list \in Surjection(D, S)
    BY <1>3, <1>4, FS_Injection
<1>6. ToSet(list) = S
    BY <1>2, <1>5 DEF Surjection, ToSet
<1> QED BY <1>1, <1>2, <1>6

\* A finite set of numbers can be listed in ascending order: the least one comes
\* before an ascending list of the others.
LEMMA AscendingExists ==
    ASSUME NEW S \in SUBSET Nat, IsFiniteSet(S)
    PROVE  \E list \in SetToSeqs(S) : Ascending(list)
<1> DEFINE Bad(T) == T \in SUBSET Nat /\ IsFiniteSet(T) /\ ~ \E list \in SetToSeqs(T) : Ascending(list)
           Sizes  == {n \in Nat : \E T : Bad(T) /\ Cardinality(T) = n}
<1> SUFFICES ASSUME Bad(S) PROVE FALSE
    OBVIOUS
<1>1. Cardinality(S) \in Sizes
    BY FS_CardinalityType
<1>2. PICK n \in Sizes : \A m \in Sizes : n <= m
    <2>1. Sizes \in SUBSET Nat /\ Sizes # {}
        BY <1>1
    <2> HIDE DEF Sizes
    <2> QED BY <2>1, LeastExists
<1>3. PICK T : Bad(T) /\ Cardinality(T) = n
    BY <1>2
<1>4. T # {}
    <2> SUFFICES ASSUME T = {} PROVE FALSE
        OBVIOUS
    <2>1. Cardinality(T) = 0 /\ 1 .. 0 = {}
        BY FS_EmptySet
    <2>2. <<>> \in SetToSeqs(T) /\ Ascending(<<>>)
        BY <2>1 DEF SetToSeqs, Ascending
    <2> QED BY <1>3, <2>2
<1>5. PICK least \in T : \A s \in T : least <= s
    BY <1>3, <1>4, LeastExists
<1> DEFINE U == T \ {least}
<1>6. U \in SUBSET Nat /\ IsFiniteSet(U) /\ Cardinality(U) = n - 1 /\ n - 1 \in Nat
    <2>1. IsFiniteSet(U) /\ Cardinality(U) = n - 1
        BY <1>3, <1>5, FS_RemoveElement
    <2>2. Cardinality(U) \in Nat
        BY <2>1, FS_CardinalityType
    <2> QED BY <1>3, <2>1, <2>2
<1>7. PICK list \in SetToSeqs(U) : Ascending(list)
    <2>1. ~Bad(U)
        <3>1. n - 1 \notin Sizes
            BY <1>2, <1>6
        <3> QED BY <1>6, <3>1
    <2> QED BY <1>6, <2>1
<1>8. list \in [1 .. n - 1 -> U] /\ \A i, j \in 1 .. n - 1 : i # j => list[i] # list[j]
    BY <1>6, <1>7 DEF SetToSeqs
<1> HIDE DEF U
<1> DEFINE longer == [i \in 1 .. n |-> IF i = 1 THEN least ELSE list[i - 1]]
<1>9. \A i \in 1 .. n : i # 1 => i - 1 \in 1 .. n - 1
    BY <1>6
<1>10. \A i \in 1 .. n : i # 1 => list[i - 1] \in T /\ list[i - 1] > least
    <2>1. ASSUME NEW x \in U PROVE x \in T /\ x > least
        BY <1>3, <1>5, <1>6 DEF U
    <2> QED BY <1>8, <1>9, <2>1
<1>11. longer \in [1 .. n -> T]
    BY <1>10
<1>12. \A i, j \in 1 .. n : i < j => longer[i] < longer[j]
    <2> SUFFICES ASSUME NEW i \in 1 .. n, NEW j \in 1 .. n, i < j PROVE longer[i] < longer[j]
        OBVIOUS
    <2>1. CASE i = 1
        BY <2>1, <1>10
    <2>2. CASE i # 1
        <3>1. i - 1 \in 1 .. n - 1 /\ j - 1 \in 1 .. n - 1 /\ i - 1 < j - 1 /\ j # 1
            BY <1>9, <2>2
        <3>2. list[i - 1] < list[j - 1]
            BY <1>7, <1>8, <3>1 DEF Ascending
        <3> QED BY <2>2, <3>1, <3>2
    <2> QED BY <2>1, <2>2
<1>13. \A i, j \in 1 .. n : i # j => longer[i] # longer[j]
    <2> SUFFICES ASSUME NEW i \in 1 .. n, NEW j \in 1 .. n, i # j PROVE longer[i] # longer[j]
        OBVIOUS
    <2>1. i < j \/ j < i
        OBVIOUS
    <2> HIDE DEF longer
    <2>2. longer[i] \in Int /\ longer[j] \in Int
        <3>1. longer[i] \in T /\ longer[j] \in T
            BY <1>11
        <3>2. \A x \in T : x \in Int
            BY <1>3
        <3> QED BY <3>1, <3>2, Zenon
    <2> QED BY <1>12, <2>1, <2>2
<1> HIDE DEF longer
<1>14. longer \in SetToSeqs(T) /\ Ascending(longer)
    BY <1>3, <1>11, <1>12, <1>13 DEF SetToSeqs, Ascending
<1> QED BY <1>3, <1>14

\* Sorting the keys of a finite map lists all of them in ascending order, in
\* whatever order they came.
LEMMA SortedKeys ==
    ASSUME NEW S \in SUBSET Nat, IsFiniteSet(S), NEW order \in SetToSeqs(S)
    PROVE  LET list == SortStrings(order)
           IN  /\ list \in Seq(S) /\ ToSet(list) = S /\ Ascending(list)
               /\ list = <<>> <=> S = {}
<1> DEFINE list == SortStrings(order)
<1>1. ToSet(order) = S
    BY OrderHasAll
<1>2. list \in SetToSeqs(S) /\ Ascending(list)
    <2>1. \E l \in SetToSeqs(S) : \A i, j \in DOMAIN l : i < j => l[i] < l[j]
        BY AscendingExists DEF Ascending
    <2>2. list = CHOOSE l \in SetToSeqs(S) : \A i, j \in DOMAIN l : i < j => l[i] < l[j]
        BY <1>1 DEF SortStrings
    <2> HIDE DEF list
    <2> QED BY <2>1, <2>2 DEF Ascending
<1> HIDE DEF list
<1>3. /\ list \in Seq(S) /\ ToSet(list) = S /\ DOMAIN list = 1 .. Cardinality(S)
      /\ Cardinality(S) \in Nat /\ Len(list) = Cardinality(S)
    BY <1>2, OrderHasAll
<1>4. list = <<>> <=> S = {}
    <2>1. Cardinality(S) = 0 <=> S = {}
        BY FS_EmptySet
    <2>2. list = <<>> <=> Len(list) = 0
        BY <1>3
    <2> QED BY <1>3, <2>1, <2>2
<1> QED BY <1>2, <1>3, <1>4 DEF list

-----------------------------------------------------------------------------
(* A loop over n entries that appends the ones with an index in keep *)

LoopBody(f, n, keep, entry) ==
    [i \in 0 .. n |-> IF i = 0 THEN <<>>
                      ELSE IF i \in keep THEN Append(f[i - 1], entry[i])
                      ELSE f[i - 1]]

\* The recursion that describes the loop has a solution: one for n entries goes
\* on from one for n - 1.
LEMMA LoopExists ==
    ASSUME NEW n \in Nat, NEW keep, NEW entry
    PROVE  \E f : f = LoopBody(f, n, keep, entry)
<1> DEFINE Bad == {m \in Nat : ~ \E f : f = LoopBody(f, m, keep, entry)}
<1> SUFFICES ASSUME n \in Bad PROVE FALSE
    OBVIOUS
<1>1. PICK m \in Bad : \A k \in Bad : m <= k
    <2>1. Bad \in SUBSET Nat /\ Bad # {}
        OBVIOUS
    <2> HIDE DEF Bad
    <2> QED BY <2>1, LeastExists
<1>2. m # 0
    <2> SUFFICES ASSUME m = 0 PROVE FALSE
        OBVIOUS
    <2> DEFINE f == [i \in 0 .. 0 |-> <<>>]
    <2>1. f = LoopBody(f, 0, keep, entry)
        BY DEF LoopBody
    <2> QED BY <1>1, <2>1
<1>3. m - 1 \in Nat /\ m - 1 \notin Bad
    BY <1>1, <1>2
<1>4. PICK f : f = LoopBody(f, m - 1, keep, entry)
    BY <1>3
<1> DEFINE g == [i \in 0 .. m |-> IF i # m THEN f[i]
                                 ELSE IF m \in keep THEN Append(f[m - 1], entry[m])
                                 ELSE f[m - 1]]
<1>5. ASSUME NEW i \in 0 .. m
      PROVE  g[i] = IF i = 0 THEN <<>>
                    ELSE IF i \in keep THEN Append(g[i - 1], entry[i])
                    ELSE g[i - 1]
    <2>1. CASE i = m
        <3>1. m - 1 \in 0 .. m /\ m - 1 # m
            BY <1>3
        <3>2. g[m - 1] = f[m - 1]
            BY <3>1
        <3> QED BY <1>2, <2>1, <3>2
    <2>2. CASE i # m
        <3>1. i \in 0 .. m - 1
            BY <1>3, <2>2
        <3>2. f[i] = IF i = 0 THEN <<>>
                     ELSE IF i \in keep THEN Append(f[i - 1], entry[i])
                     ELSE f[i - 1]
            BY <1>4, <3>1 DEF LoopBody
        <3>3. i # 0 => i - 1 \in 0 .. m /\ i - 1 # m
            BY <1>3, <3>1
        <3>4. g[i] = f[i] /\ (i # 0 => g[i - 1] = f[i - 1])
            BY <2>2, <3>3
        <3> HIDE DEF g
        <3> QED BY <3>2, <3>4
    <2> QED BY <2>1, <2>2
<1>6. g = LoopBody(g, m, keep, entry)
    <2>1. g = [i \in 0 .. m |-> g[i]]
        OBVIOUS
    <2> HIDE DEF g
    <2> QED BY <1>5, <2>1 DEF LoopBody
<1> QED BY <1>1, <1>6

\* at gives the places of the list in the first i entries: it has the ones to
\* keep, in their order.
ListedAt(at, list, i, keep, entry) ==
    /\ at \in [DOMAIN list -> 1 .. i] /\ Ascending(at)
    /\ \A j \in DOMAIN list : at[j] \in keep /\ list[j] = entry[at[j]]
    /\ \A m \in 1 .. i : m \in keep => \E j \in DOMAIN list : at[j] = m

\* What the loop has appended after n entries: the ones to keep, in their order.
LEMMA LoopLists ==
    ASSUME NEW n \in Nat, NEW keep, NEW E, NEW entry \in [1 .. n -> E],
           NEW f, f = LoopBody(f, n, keep, entry)
    PROVE  f[n] \in Seq(E) /\ \E at : ListedAt(at, f[n], n, keep, entry)
<1> DEFINE Good(i) == f[i] \in Seq(E) /\ \E at : ListedAt(at, f[i], i, keep, entry)
           Bad == {i \in Nat : i <= n /\ ~Good(i)}
<1> SUFFICES ASSUME ~Good(n) PROVE FALSE
    OBVIOUS
<1>1. PICK m \in Bad : \A k \in Bad : m <= k
    <2>1. n \in Bad
        OBVIOUS
    <2>2. Bad \in SUBSET Nat /\ Bad # {}
        BY <2>1
    <2> HIDE DEF Bad
    <2> QED BY <2>2, LeastExists
<1>2. m \in 0 .. n /\ ~Good(m)
    BY <1>1
<1>3. f[m] = IF m = 0 THEN <<>>
             ELSE IF m \in keep THEN Append(f[m - 1], entry[m])
             ELSE f[m - 1]
    BY <1>2 DEF LoopBody
<1>4. CASE m = 0
    <2>1. f[0] = <<>> /\ DOMAIN f[0] = {} /\ 1 .. 0 = {}
        BY <1>3, <1>4
    <2> DEFINE at == [j \in DOMAIN f[0] |-> 0]
    <2>2. at \in [DOMAIN f[0] -> 1 .. 0] /\ Ascending(at)
        BY <2>1 DEF Ascending
    <2>3. ListedAt(at, f[0], 0, keep, entry) /\ f[0] \in Seq(E)
        BY <2>1, <2>2 DEF ListedAt
    <2> QED BY <1>2, <1>4, <2>3
<1>5. CASE m # 0
    <2>1. m - 1 \in 0 .. n /\ Good(m - 1) /\ m \in 1 .. n
        <3>1. m - 1 \in Nat /\ m - 1 <= n /\ ~(m <= m - 1) /\ m \in 1 .. n
            BY <1>2, <1>5
        <3>2. m - 1 \notin Bad
            BY <1>1, <3>1
        <3>3. Good(m - 1)
            BY <3>1, <3>2
        <3> QED BY <3>1, <3>3
    <2> DEFINE r == f[m - 1]
    <2>2. r \in Seq(E)
        BY <2>1
    <2>8. PICK at : ListedAt(at, r, m - 1, keep, entry)
        BY <2>1
    <2>3. /\ at \in [DOMAIN r -> 1 .. m - 1] /\ Ascending(at)
          /\ \A j \in DOMAIN r : at[j] \in keep /\ r[j] = entry[at[j]]
          /\ \A i \in 1 .. m - 1 : i \in keep => \E j \in DOMAIN r : at[j] = i
        BY <2>8 DEF ListedAt
    <2>4. CASE m \notin keep
        <3>1. f[m] = r
            BY <1>3, <1>5, <2>4
        <3>2. at \in [DOMAIN r -> 1 .. m]
            BY <2>1, <2>3
        <3>3. \A i \in 1 .. m : i \in keep => i \in 1 .. m - 1
            BY <2>1, <2>4
        <3> HIDE DEF r
        <3>4. ListedAt(at, f[m], m, keep, entry) /\ f[m] \in Seq(E)
            BY <2>2, <2>3, <3>1, <3>2, <3>3 DEF ListedAt
        <3> QED BY <1>2, <3>4
    <2>5. CASE m \in keep
        <3> HIDE DEF r
        <3>1. f[m] = Append(r, entry[m]) /\ entry[m] \in E
            BY <1>3, <1>5, <2>1, <2>5 DEF r
        <3> DEFINE new == Len(r) + 1
                   at2 == [j \in 1 .. new |-> IF j = new THEN m ELSE at[j]]
        <3>2. /\ f[m] \in Seq(E) /\ DOMAIN f[m] = 1 .. new /\ f[m][new] = entry[m]
              /\ Len(r) \in Nat /\ DOMAIN r = 1 .. Len(r)
              /\ \A j \in 1 .. Len(r) : f[m][j] = r[j]
            BY <2>2, <3>1
        <3>3. \A j \in 1 .. new : j # new => j \in DOMAIN r
            BY <3>2
        <3>4. \A j \in DOMAIN r : j \in 1 .. new /\ j # new /\ at2[j] = at[j]
            BY <3>2
        <3>5. new \in 1 .. new /\ at2[new] = m
            BY <3>2
        <3>6. at2 \in [1 .. new -> 1 .. m] /\ \A j \in DOMAIN r : at[j] < m
            BY <2>1, <2>3, <3>3
        <3> HIDE DEF at2, new
        <3>7. Ascending(at2)
            <4> SUFFICES ASSUME NEW i \in 1 .. new, NEW j \in 1 .. new, i < j
                         PROVE  at2[i] < at2[j]
                BY <3>6 DEF Ascending
            <4>1. i \in DOMAIN r
                BY <3>2, <3>3 DEF new
            <4>2. CASE j = new
                BY <3>4, <3>5, <3>6, <4>1, <4>2
            <4>3. CASE j # new
                BY <2>3, <3>3, <3>4, <4>1, <4>3 DEF Ascending
            <4> QED BY <4>2, <4>3
        <3>8. ASSUME NEW j \in 1 .. new PROVE at2[j] \in keep /\ f[m][j] = entry[at2[j]]
            <4>1. CASE j = new
                BY <2>5, <3>2, <3>5, <4>1
            <4>2. CASE j # new
                BY <2>3, <3>2, <3>3, <3>4, <4>2
            <4> QED BY <4>1, <4>2
        <3>9. ASSUME NEW i \in 1 .. m, i \in keep PROVE \E j \in 1 .. new : at2[j] = i
            <4>1. CASE i = m
                BY <3>5, <4>1
            <4>2. CASE i # m
                <5>1. i \in 1 .. m - 1
                    BY <2>1, <4>2
                <5>2. PICK j \in DOMAIN r : at[j] = i
                    BY <2>3, <3>9, <5>1
                <5> QED BY <3>4, <5>2
            <4> QED BY <4>1, <4>2
        <3>10. ListedAt(at2, f[m], m, keep, entry)
            BY <3>2, <3>6, <3>7, <3>8, <3>9 DEF ListedAt
        <3> QED BY <1>2, <3>2, <3>10
    <2> QED BY <2>4, <2>5
<1> QED BY <1>4, <1>5

-----------------------------------------------------------------------------
(* The deltas *)

\* Whatever the orders in which the maps are read, the list has every account
\* that changed and every key, in ascending order.
LEMMA ListedSorted ==
    ASSUME BlockInv, NEW accts \in SetToSeqs(DOMAIN LocalDeltas), NEW keys \in KeyOrders
    PROVE  ListsAllSorted(AccountStateDeltas(SortStrings(accts), keys))
<1> DEFINE Accts    == DOMAIN LocalDeltas
           found    == SortStrings(accts)
           delta(k) == stateDeltaToStateDelta(keys[k])
<1>1. /\ Accts \in SUBSET Nat /\ IsFiniteSet(Accts)
      /\ \A k \in Accts : LocalDeltas[k] \in SUBSET Nat /\ IsFiniteSet(LocalDeltas[k])
    <2>1. PICK S \in SUBSET Accounts : LocalDeltas \in [S -> SUBSET Keys]
        BY DEF BlockInv
    <2>2. IsFiniteSet(S)
        BY ConversionAssumption, FS_Subset
    <2>3. ASSUME NEW k \in S PROVE LocalDeltas[k] \in SUBSET Nat /\ IsFiniteSet(LocalDeltas[k])
        <3>1. LocalDeltas[k] \in SUBSET Keys
            BY <2>1
        <3> QED BY <3>1, ConversionAssumption, FS_Subset
    <2> QED BY <2>1, <2>2, <2>3, ConversionAssumption
<1>2. found \in Seq(Accts) /\ ToSet(found) = Accts /\ Ascending(found)
    BY <1>1, SortedKeys
<1>3. ASSUME NEW k \in Accts
      PROVE  /\ ToSet(delta(k)) = LocalDeltas[k] /\ Ascending(delta(k))
             /\ delta(k) = <<>> <=> LocalDeltas[k] = {}
    <2>1. keys[k] \in SetToSeqs(LocalDeltas[k])
        BY DEF KeyOrders
    <2> QED BY <1>1, <2>1, SortedKeys DEF stateDeltaToStateDelta
<1> HIDE DEF found, delta
<1> DEFINE n     == Len(found)
           keep  == {i \in 1 .. n : delta(found[i]) # <<>>}
           entry == [i \in 1 .. n |-> [Address |-> found[i], Delta |-> delta(found[i])]]
           E     == {entry[i] : i \in 1 .. n}
           Body(f) == [i \in 0 .. n |->
                          IF i = 0 THEN <<>>
                          ELSE IF delta(found[i]) = <<>> THEN f[i - 1]
                          ELSE Append(f[i - 1], [Address |-> found[i], Delta |-> delta(found[i])])]
           loop == CHOOSE f : f = Body(f)
<1>4. n \in Nat /\ DOMAIN found = 1 .. n /\ entry \in [1 .. n -> E]
    BY <1>2
<1>5. AccountStateDeltas(found, keys) = loop[n]
    BY DEF AccountStateDeltas, delta
<1>6. \A f : Body(f) = LoopBody(f, n, keep, entry)
    <2> SUFFICES ASSUME NEW f PROVE Body(f) = LoopBody(f, n, keep, entry)
        OBVIOUS
    <2>1. \A i \in 0 .. n : i # 0 => i \in 1 .. n
        BY <1>4
    <2>2. \A i \in 1 .. n : /\ i \in keep <=> delta(found[i]) # <<>>
                            /\ entry[i] = [Address |-> found[i], Delta |-> delta(found[i])]
        OBVIOUS
    <2> DEFINE old(i) == IF i = 0 THEN <<>>
                         ELSE IF delta(found[i]) = <<>> THEN f[i - 1]
                         ELSE Append(f[i - 1], [Address |-> found[i], Delta |-> delta(found[i])])
               new(i) == IF i = 0 THEN <<>>
                         ELSE IF i \in keep THEN Append(f[i - 1], entry[i])
                         ELSE f[i - 1]
    <2> HIDE DEF keep, entry, n
    <2>3. ASSUME NEW i \in 0 .. n PROVE old(i) = new(i)
        <3>1. CASE i = 0
            BY <3>1
        <3>2. CASE i # 0 /\ delta(found[i]) = <<>>
            BY <2>1, <2>2, <3>2
        <3>3. CASE i # 0 /\ delta(found[i]) # <<>>
            <4> DEFINE e == [Address |-> found[i], Delta |-> delta(found[i])]
            <4>1. i \in keep /\ entry[i] = e
                BY <2>1, <2>2, <3>3
            <4> HIDE DEF e
            <4>2. old(i) = Append(f[i - 1], e)
                BY <3>3 DEF e
            <4>3. new(i) = Append(f[i - 1], entry[i])
                BY <3>3, <4>1
            <4> HIDE DEF old, new
            <4> QED BY <4>1, <4>2, <4>3
        <3> QED BY <3>1, <3>2, <3>3
    <2>4. Body(f) = [i \in 0 .. n |-> old(i)] /\ LoopBody(f, n, keep, entry) = [i \in 0 .. n |-> new(i)]
        BY DEF LoopBody
    <2> HIDE DEF Body, old, new
    <2> QED BY <2>3, <2>4, Zenon
<1>7. loop = LoopBody(loop, n, keep, entry)
    <2>1. \E f : f = LoopBody(f, n, keep, entry)
        BY <1>4, LoopExists
    <2>2. \E f : f = Body(f)
        BY <1>6, <2>1
    <2> HIDE DEF Body
    <2>3. loop = Body(loop)
        BY <2>2
    <2> QED BY <1>6, <2>3
<1> DEFINE d == loop[n]
<1> HIDE DEF loop, Body
<1>8. PICK at : ListedAt(at, d, n, keep, entry)
    <2> HIDE DEF n, keep, entry, E
    <2> QED BY <1>4, <1>7, LoopLists
<1>9. /\ at \in [DOMAIN d -> 1 .. n] /\ Ascending(at)
      /\ \A m \in 1 .. n : m \in keep => \E j \in DOMAIN d : at[j] = m
      /\ \A j \in DOMAIN d : at[j] \in keep /\ d[j] = entry[at[j]]
    BY <1>8 DEF ListedAt
<1> HIDE DEF d
<1>10. ASSUME NEW j \in DOMAIN d
       PROVE  /\ at[j] \in 1 .. n /\ d[j].Address = found[at[j]] /\ d[j].Address \in Accts
              /\ d[j].Delta = delta(d[j].Address) /\ d[j].Delta # <<>>
    <2>1. at[j] \in 1 .. n /\ delta(found[at[j]]) # <<>>
        BY <1>9
    <2>2. d[j] = [Address |-> found[at[j]], Delta |-> delta(found[at[j]])]
        BY <1>9, <2>1
    <2>3. found[at[j]] \in Accts
        BY <1>2, <1>4, <2>1
    <2> QED BY <2>1, <2>2, <2>3
<1>11. \A i, j \in DOMAIN d : i < j => d[i].Address < d[j].Address
    <2> SUFFICES ASSUME NEW i \in DOMAIN d, NEW j \in DOMAIN d, i < j
                 PROVE  d[i].Address < d[j].Address
        OBVIOUS
    <2>1. at[i] < at[j] /\ at[i] \in DOMAIN found /\ at[j] \in DOMAIN found
        BY <1>4, <1>9, <1>10 DEF Ascending
    <2>2. found[at[i]] < found[at[j]]
        BY <1>2, <2>1 DEF Ascending
    <2> QED BY <1>10, <2>2
<1>12. {d[i].Address : i \in DOMAIN d} = {k \in Accts : LocalDeltas[k] # {}}
    <2>1. ASSUME NEW i \in DOMAIN d PROVE d[i].Address \in Accts /\ LocalDeltas[d[i].Address] # {}
        BY <1>3, <1>10
    <2>2. ASSUME NEW k \in Accts, LocalDeltas[k] # {} PROVE \E i \in DOMAIN d : d[i].Address = k
        <3>1. PICK m \in 1 .. n : found[m] = k
            BY <1>2, <1>4 DEF ToSet
        <3>2. m \in keep
            BY <1>3, <2>2, <3>1
        <3> HIDE DEF keep
        <3>3. PICK i \in DOMAIN d : at[i] = m
            BY <1>9, <3>2
        <3> QED BY <1>10, <3>1, <3>3
    <2> HIDE DEF n
    <2> QED BY <2>1, <2>2
<1>13. ASSUME NEW i \in DOMAIN d
       PROVE  ToSet(d[i].Delta) = LocalDeltas[d[i].Address] /\ Ascending(d[i].Delta)
    BY <1>3, <1>10
<1>14. ListsAllSorted(d)
    <2> HIDE DEF n, keep, entry, E
    <2> QED BY <1>11, <1>12, <1>13 DEF ListsAllSorted, Ascending
<1> QED BY <1>5, <1>14 DEF d, found

\* A step that appends a transaction lists its deltas; the others stay.
LEMMA DeltasStep ==
    ASSUME ConversionInv, DeltasStable, [Next]_vars
    PROVE  DeltasStable'
<1>1. UNCHANGED blockVars
    BY DEF Next, genTransactions, innerTransaction, decodeFails, signedTxnWithAdToTransaction,
           GenerateBlock, vars
<1>2. kind' = kind /\ LocalDeltas' = LocalDeltas
    BY <1>1 DEF blockVars
<1>3. CASE signedTxnWithAdToTransaction
    <2>1. BlockInv
        BY DEF ConversionInv
    <2>2. PICK accts \in SetToSeqs(DOMAIN LocalDeltas), keys \in KeyOrders :
             out' = [t \in DOMAIN out \cup {Top.txn} |->
                        IF t # Top.txn THEN out[t]
                        ELSE Converted(Top, LocalStateDelta(t, accts, keys))]
        BY <1>3 DEF signedTxnWithAdToTransaction
    <2> SUFFICES ASSUME NEW t \in DOMAIN out', kind[t] \in Apps
                 PROVE  ListsAllSorted(out'[t].LocalStateDelta)
        BY <1>2 DEF DeltasStable, ListsAllSorted
    <2>3. CASE t = Top.txn
        <3>1. out'[t].LocalStateDelta = AccountStateDeltas(SortStrings(accts), keys)
            BY <2>2, <2>3 DEF Converted, LocalStateDelta
        <3> QED BY <2>1, <3>1, ListedSorted
    <2>4. CASE t # Top.txn
        <3>1. t \in DOMAIN out /\ out'[t] = out[t]
            BY <2>2, <2>4
        <3> QED BY <3>1 DEF DeltasStable
    <2> QED BY <2>3, <2>4
<1>4. CASE ~signedTxnWithAdToTransaction
    <2>1. out' = out
        BY <1>4 DEF Next, genTransactions, innerTransaction, decodeFails, GenerateBlock, vars
    <2> QED BY <1>2, <2>1 DEF DeltasStable, ListsAllSorted
<1> QED BY <1>3, <1>4

-----------------------------------------------------------------------------
(* Types *)

\* The first transaction is a top-level one, so every transaction has one that
\* it belongs to.
LEMMA OutermostExists ==
    ASSUME BlockInv, NEW t \in Txns
    PROVE  Outermost(t) \in 1 .. t
<1>1. t \in 1 .. Count /\ Count \in Nat /\ Roots \subseteq Int
    BY ConversionAssumption DEF Txns, Roots
<1>2. 1 \in Roots
    <2>1. 1 \in Txns
        BY <1>1 DEF Txns
    <2>2. parent[1] \in 0 .. Count /\ parent[1] < 1
        BY <2>1 DEF BlockInv
    <2> QED BY <1>1, <2>1, <2>2 DEF Roots
<1> DEFINE Back == {n \in Nat : t - n \in Roots}
<1>3. PICK n \in Back : \A m \in Back : n <= m
    <2>1. t - 1 \in Nat /\ t - (t - 1) = 1
        BY <1>1
    <2>2. Back \in SUBSET Nat /\ t - 1 \in Back
        BY <1>2, <2>1
    <2> HIDE DEF Back
    <2> QED BY <2>2, LeastExists
<1>4. t - n \in Roots /\ t - n <= t /\ t - n \in Int
    BY <1>1, <1>3
<1>5. \A s \in Roots : s <= t => s <= t - n
    <2> SUFFICES ASSUME NEW s \in Roots, s <= t PROVE s <= t - n
        OBVIOUS
    <2>1. s \in Int /\ t - s \in Nat /\ t - (t - s) = s
        BY <1>1
    <2>2. n <= t - s
        BY <1>3, <2>1
    <2> QED BY <1>1, <2>1, <2>2
<1>6. Outermost(t) = t - n
    <2>1. t \in Int
        BY <1>1
    <2>2. LastUpTo(Roots, t) = t - n
        BY <1>1, <1>4, <1>5, <2>1, LastIsUnique, Zenon
    <2> QED BY <2>2 DEF Outermost
<1>7. t - n >= 1
    BY <1>1, <1>2, <1>5
<1> QED BY <1>1, <1>4, <1>6, <1>7

LEMMA TypesFollow ==
    ASSUME ConversionInv, outcome \in {"none", "failed", "block"}
    PROVE  TypeOK
<1>1. BlockInv /\ WalkInv /\ OffsetsCountInner /\ CreatedIsLedgers /\ AmountsAreOwn /\ Count \in Nat
    BY ConversionAssumption DEF ConversionInv
<1>2. stack \in Seq(Frames) /\ intra \in 0 .. Count
    BY <1>1 DEF WalkInv, Frames
<1>3. ASSUME NEW i \in DOMAIN stack PROVE stack[i].txn \in Txns /\ stack[i].intra \in 0 .. Count
    <2>1. stack[i] \in Frames
        BY <1>2
    <2> QED BY <2>1 DEF Frames
<1>4. DOMAIN out \subseteq Txns
    <2>1. Reached \in 0 .. Count
        <3>1. CASE stack = <<>>
            BY <1>2, <3>1 DEF Reached
        <3>2. CASE stack # <<>>
            <4>1. Top \in Frames
                BY <1>2, <3>2 DEF Top
            <4> QED BY <3>2, <4>1 DEF Reached, Frames
        <3> QED BY <3>1, <3>2
    <2>2. DOMAIN out \subseteq 1 .. Reached
        BY <1>1 DEF WalkInv
    <2> QED BY <1>1, <2>1, <2>2 DEF Txns
<1>5. ASSUME NEW t \in DOMAIN out
      PROVE  /\ out[t].IntraRoundOffset \in 0 .. Count
             /\ out[t].Created \in Nat \cup {None}
             /\ out[t].CloseAmount \in Nat \cup {None}
    <2>1. t \in Txns /\ t \in 1 .. Count
        BY <1>4 DEF Txns
    <2>2. Outermost(t) \in 1 .. t /\ out[t].IntraRoundOffset = Outermost(t) - 1
        BY <1>1, <2>1, OutermostExists DEF OffsetsCountInner
    <2>3. out[t].IntraRoundOffset \in 0 .. Count
        BY <1>1, <2>1, <2>2
    <2>4. out[t].Created = None \/ out[t].Created = LedgerId(t)
        BY <1>1 DEF CreatedIsLedgers
    <2>5. LedgerId(t) \in Nat
        BY <1>1, <2>1, ConversionAssumption DEF LedgerId, BlockInv
    <2>6. out[t].CloseAmount \in Nat \cup {None}
        BY <1>1, <2>1 DEF AmountsAreOwn, AssetClosingAmount
    <2> QED BY <2>3, <2>4, <2>5, <2>6
<1> QED BY <1>2, <1>3, <1>4, <1>5 DEF TypeOK

-----------------------------------------------------------------------------
(* The theorems *)

LEMMA ConversionStep == ConversionInv /\ [Next]_vars => ConversionInv'
<1> SUFFICES ASSUME ConversionInv, [Next]_vars PROVE ConversionInv'
    OBVIOUS
<1>1. BlockInv /\ WalkInv /\ Count \in Nat
    BY ConversionAssumption DEF ConversionInv
<1>2. ASSUME NEW t \in Txns, genTransactions(t) PROVE ConversionInv'
    <2> DEFINE row == [Intra |-> intra, AssetID |-> transactionAssetID(t, intra),
                       AssetCloseAmount |-> AssetClosingAmount(t)]
    <2>1. stack = <<>> /\ t \in First(Roots) /\ UNCHANGED <<blockVars, intra, out>>
        BY <1>2 DEF genTransactions
    <2>2. t = intra + 1 /\ t \notin DOMAIN out /\ t \in Roots /\ intra \in Nat
        BY <1>1, <2>1, RootIsNext DEF First, WalkInv
    <2>3. intra = t - 1 /\ Reached = intra /\ AssetClosingAmount(t) \in Nat
        BY <1>1, <2>1, <2>2 DEF Reached, AssetClosingAmount, Txns
    <2>4. row \in Rows /\ row.Intra = t - 1 /\ (Creates(t) => row.AssetID = LedgerId(t))
        BY <1>1, <2>2, <2>3, CreatedId DEF Rows
    <2>5. stack' = <<[txn |-> t, intra |-> t, extra |-> row]>>
        BY <1>2, <2>2 DEF genTransactions, Call
    <2>6. stack' = Append(stack, [txn |-> t, intra |-> t, extra |-> row])
        BY <2>1, <2>5
    <2> HIDE DEF row
    <2>7. row.AssetCloseAmount = AssetClosingAmount(t)
        BY DEF row
    <2> QED BY <2>1, <2>2, <2>3, <2>4, <2>6, <2>7, PushKeeps
<1>3. ASSUME NEW t \in Txns, innerTransaction(t) PROVE ConversionInv'
    <2>1. /\ stack # <<>> /\ t \in First({s \in Txns : parent[s] = Top.txn})
          /\ UNCHANGED <<blockVars, intra, out>>
          /\ stack' = Append(stack, [txn |-> t, intra |-> Top.intra + 1, extra |-> extra2(t)])
        BY <1>3 DEF innerTransaction, Call
    <2>2. /\ t = Top.intra + 1 /\ t \notin DOMAIN out /\ parent[t] = Top.txn /\ t \notin Roots
        BY <2>1, InnerIsNext
    <2>3. stack \in Seq(Frames)
        BY <1>1 DEF WalkInv, Frames
    <2>4. Top.extra \in Rows
        <3>1. Top \in Frames
            BY <2>1, <2>3 DEF Top
        <3> QED BY <3>1 DEF Frames
    <2>5. /\ AssetClosingAmount(t) \in Nat /\ ApplyId(t) \in Nat
          /\ Creates(t) => ApplyId(t) = LedgerId(t)
        <3>1. ~preV30
            BY <1>1, <2>2 DEF BlockInv
        <3>2. t \in Nat
            BY <1>1 DEF Txns
        <3> QED BY <1>1, <3>1, <3>2, CreatedId DEF AssetClosingAmount
    <2>6. /\ extra2(t) \in Rows /\ extra2(t).Intra = Top.extra.Intra
          /\ extra2(t).AssetCloseAmount = AssetClosingAmount(t)
          /\ extra2(t).AssetID = ApplyId(t)
        BY <2>4, <2>5 DEF extra2, Rows
    <2>7. Reached = Top.intra
        BY <2>1 DEF Reached
    <2> QED BY <2>1, <2>2, <2>5, <2>6, <2>7, PushKeeps
<1>4. CASE signedTxnWithAdToTransaction
    BY <1>4, ReturnKeeps
<1>5. CASE decodeFails \/ GenerateBlock \/ UNCHANGED vars
    <2>1. UNCHANGED <<kind, parent, preV30, stack, intra, out>> /\ UNCHANGED blockVars
        BY <1>5 DEF decodeFails, GenerateBlock, vars, blockVars
    <2>2. BlockInv' /\ Roots' = Roots /\ Reached' = Reached
        BY <1>1, <2>1, BlockStays DEF Roots, Reached, Top
    <2>3. WalkInv' /\ RowInv'
        BY <2>1, <2>2 DEF ConversionInv, WalkInv, RowInv, AssetClosingAmount, Creates, LedgerId,
                          Txns, Rows
    <2>4. OffsetsCountInner' /\ CreatedIsLedgers' /\ AmountsAreOwn'
        BY <2>1, <2>2 DEF ConversionInv, OffsetsCountInner, CreatedIsLedgers, AmountsAreOwn,
                          Outermost, AssetClosingAmount, Creates, LedgerId
    <2> QED BY <2>2, <2>3, <2>4 DEF ConversionInv
<1> QED BY <1>2, <1>3, <1>4, <1>5 DEF Next

\* The invariant of the recursion.
THEOREM ConversionInvariant == Spec => []ConversionInv
<1> QED BY ConversionInitially, ConversionStep, PTL DEF Spec

\* The offsets that signedTxnWithAdToTransaction gives count inner transactions,
\* for blocks of any size and nesting.
THEOREM OffsetsCount == Spec => []OffsetsCountInner
<1>1. ConversionInv => OffsetsCountInner
    BY DEF ConversionInv
<1> QED BY <1>1, ConversionInvariant, PTL

\* The created index is the ledger's, before version 30 and after it, at any depth.
THEOREM CreatedAreLedgers == Spec => []CreatedIsLedgers
<1>1. ConversionInv => CreatedIsLedgers
    BY DEF ConversionInv
<1> QED BY <1>1, ConversionInvariant, PTL

\* A transfer's closing amount is its own at any depth, though extra2 starts as
\* a copy of the surrounding call's row.
THEOREM AmountsOwn == Spec => []AmountsAreOwn
<1>1. ConversionInv => AmountsAreOwn
    BY DEF ConversionInv
<1> QED BY <1>1, ConversionInvariant, PTL

\* What is converted has its types, and no offset or count exceeds the number of
\* transactions of the block.
THEOREM ConversionTypes == Spec => []TypeOK
<1> DEFINE Known == outcome \in {"none", "failed", "block"}
<1>1. Init => Known
    BY DEF Init
<1>2. Known /\ [Next]_vars => Known'
    BY DEF Next, genTransactions, innerTransaction, decodeFails, signedTxnWithAdToTransaction,
           GenerateBlock, vars
<1>3. ConversionInv /\ Known => TypeOK
    BY TypesFollow
<1> QED BY <1>1, <1>2, <1>3, ConversionInvariant, PTL DEF Spec

\* The state deltas come out in one order, all of them, for maps of any size and
\* however range goes through them.
THEOREM DeltasAreStable == Spec => []DeltasStable
<1>1. Init => DeltasStable
    <2> SUFFICES ASSUME Init PROVE DeltasStable
        OBVIOUS
    <2>1. DOMAIN out = {}
        BY DEF Init
    <2> QED BY <2>1 DEF DeltasStable
<1>2. ConversionInv /\ DeltasStable /\ [Next]_vars => DeltasStable'
    BY DeltasStep
<1> QED BY <1>1, <1>2, ConversionInvariant, PTL DEF Spec
=============================================================================
