----------------------------- MODULE Conversion -----------------------------
(***************************************************************************)
(* GenerateBlock and what it calls (internal/utils/convert_block.go and    *)
(* convert_stxn.go): the transactions of a block, with the inner ones of   *)
(* application calls, become the transactions of an indexer answer.        *)
(*                                                                         *)
(* Most of the code copies fields.  The subject here are those that are    *)
(* computed or passed down: the offset within the round, which the         *)
(* recursion counts through inner transactions, the index of what a        *)
(* transaction created, the amount an asset transfer closed out, and the   *)
(* state deltas, which are maps and come out as lists.  The transactions   *)
(* of a block, inner ones included, are numbered in the order in which     *)
(* they are nested and listed; the recursion is the stack of its calls.    *)
(***************************************************************************)
EXTENDS Integers, SequencesExt

CONSTANTS
    Count,     \* transactions in the block, inner ones included
    Counter,   \* TxnCounter of the block before
    Accounts,  \* accounts of an application call: 0 is the sender
    Keys       \* keys of their local state

Txns  == 1 .. Count
\* "other" stands for the types that name nothing created in the block.
Kinds == {"other", "axfer", "acfg", "newAsset", "appl", "newApp"}
Apps  == {"appl", "newApp"}
None  == -1    \* a nil pointer

ASSUME ConversionAssumption ==
    /\ Count \in Nat /\ Counter \in Nat \ {0}
    /\ Accounts \subseteq Nat /\ IsFiniteSet(Accounts)
    /\ Keys \subseteq Nat /\ IsFiniteSet(Keys)

VARIABLES
    kind, parent,  \* the block: type of each transaction, 0 for a top-level one
    LocalDeltas,   \* what an application call changed, by account: a set of keys
    preV30,        \* no ApplyData ids and no inner transactions yet
    stack,         \* the calls of signedTxnWithAdToTransaction
    intra,         \* the variable of genTransactions
    out,           \* the converted transactions
    outcome        \* what genTransactions returns

blockVars == <<kind, parent, LocalDeltas, preV30>>
vars == <<blockVars, stack, intra, out, outcome>>

-----------------------------------------------------------------------------
(* The block, as the ledger makes it *)

Roots == {t \in Txns : parent[t] = 0}

\* Transaction t is listed within one of the calls that surround the one before.
Nested(p) ==
    \A t \in Txns :
        \/ p[t] = 0
        \/ p[t] = t - 1
        \/ p[t] < t - 1 /\ \A s \in p[t] + 1 .. t - 1 : p[s] >= p[t]

Creates(t) == kind[t] \in {"newAsset", "newApp"}

\* The index the ledger gave.  Before version 30 it is the transaction's number;
\* afterwards it is in ApplyData, and any other numbering will do.
LedgerId(t) == IF preV30 THEN Counter + t ELSE Counter + Count + 1 - t

\* Txn.ConfigAsset, Txn.ApplicationID or Txn.XferAsset: 0 if it creates one.
OwnId(t)  == IF kind[t] \in {"acfg", "appl", "axfer"} THEN Counter ELSE 0

\* ApplyData.ConfigAsset and ApplyData.ApplicationID.
ApplyId(t) == IF Creates(t) /\ ~preV30 THEN LedgerId(t) ELSE 0

TxnCounter == Counter + Count

\* ApplyData.AssetClosingAmount, another one for every transfer.
AssetClosingAmount(t) == IF kind[t] = "axfer" THEN t ELSE 0

-----------------------------------------------------------------------------
(* The conversion *)

\* Mutant: the position is taken for the number, which starts at one.
transactionAssetIDOffByOne(t, n) ==
    IF kind[t] = "other" THEN 0
    ELSE IF OwnId(t) # 0 THEN OwnId(t)
    ELSE IF ApplyId(t) # 0 THEN ApplyId(t)
    ELSE TxnCounter - Cardinality(Roots) + n

\* Its own id, or the one in ApplyData, or the one that the position gives.
transactionAssetID(t, n) ==
    IF kind[t] = "other" THEN 0
    ELSE IF OwnId(t) # 0 THEN OwnId(t)
    ELSE IF ApplyId(t) # 0 THEN ApplyId(t)
    ELSE TxnCounter - Cardinality(Roots) + n + 1

\* Mutant: the keys stay in the order in which the map gave them.
SortStringsNot(keys) == keys

\* sort.Strings and sort.Slice: the keys of a map, which are distinct, lowest first.
SortStrings(keys) ==
    CHOOSE sorted \in SetToSeqs(ToSet(keys)) :
        \A i, j \in DOMAIN sorted : i < j => sorted[i] < sorted[j]

\* The keys of a map, sorted; range gives them in any order.  No keys is nil.
stateDeltaToStateDelta(order) == SortStrings(order)

\* The orders in which range gives the keys of every account's map.
KeyOrders ==
    {keys \in [DOMAIN LocalDeltas -> SetToAllKPermutations(Keys)] :
        \A k \in DOMAIN LocalDeltas : keys[k] \in SetToSeqs(LocalDeltas[k])}

\* One entry for each account of the list; one whose delta is nil is left out.
AccountStateDeltas(found, keys) ==
    LET d[i \in 0 .. Len(found)] ==
            IF i = 0 THEN <<>>
            ELSE IF stateDeltaToStateDelta(keys[found[i]]) = <<>> THEN d[i - 1]
            ELSE Append(d[i - 1], [Address |-> found[i],
                                   Delta   |-> stateDeltaToStateDelta(keys[found[i]])])
    IN  d[Len(found)]

\* Only application calls have deltas; accounts are listed lowest first.
LocalStateDelta(t, accts, keys) ==
    IF kind[t] \notin Apps THEN <<>>
    ELSE AccountStateDeltas(SortStrings(accts), keys)

Top == stack[Len(stack)]

\* The next of a sequence of transactions that is not converted yet.
First(S) == {t \in S : t \notin DOMAIN out /\ \A s \in S : s \in DOMAIN out \/ t <= s}

\* Mutant: the transaction is counted by its caller and again by itself.
CallCountsTwice(t, n, extra) == [txn |-> t, intra |-> n + 2, extra |-> extra]

\* A call with intra n; what it returns counts the transaction itself.
Call(t, n, extra) == [txn |-> t, intra |-> n + 1, extra |-> extra]

\* genTransactions: the next top-level transaction is decoded.
genTransactions(t) ==
    /\ outcome = "none" /\ stack = <<>> /\ t \in First(Roots)
    /\ stack' = <<Call(t, intra, [Intra   |-> intra,
                                  AssetID |-> transactionAssetID(t, intra),
                                  AssetCloseAmount |-> AssetClosingAmount(t)])>>
    /\ UNCHANGED <<blockVars, intra, out, outcome>>

\* DecodeSignedTxn fails: no transactions at all.
decodeFails ==
    /\ outcome = "none" /\ stack = <<>> /\ First(Roots) # {}
    /\ outcome' = "failed"
    /\ UNCHANGED <<blockVars, stack, intra, out>>

\* Mutant: the closing amount is the surrounding call's.
extra2Inherits(t) == [Top.extra EXCEPT !.AssetID = ApplyId(t)]

\* extra2 of an inner transaction: the outermost's row with its own id and amount.
extra2(t) == [Top.extra EXCEPT !.AssetID = ApplyId(t),
                               !.AssetCloseAmount = AssetClosingAmount(t)]

innerTransaction(t) ==
    /\ stack # <<>> /\ t \in First({s \in Txns : parent[s] = Top.txn})
    /\ stack' = Append(stack, Call(t, Top.intra, extra2(t)))
    /\ UNCHANGED <<blockVars, intra, out, outcome>>

\* The part of the type: the id it names, None where the type has none, and the
\* amount that a transfer closed out.
Payload(f) ==
    [Id |-> IF kind[f.txn] = "other" THEN None ELSE OwnId(f.txn),
     CloseAmount |-> IF kind[f.txn] = "axfer" THEN f.extra.AssetCloseAmount ELSE None]

\* What becomes of the transaction: an index if its type names the id 0.
Converted(f, delta) ==
    [IntraRoundOffset |-> f.extra.Intra,
     CloseAmount |-> Payload(f).CloseAmount,
     LocalStateDelta |-> delta,
     Created |-> IF Payload(f).Id = 0 /\ (kind[f.txn] \in Apps => f.extra.AssetID > 0)
                 THEN f.extra.AssetID ELSE None]

\* Mutant: the count of an inner call is not taken over.
nextIntraForgotten(calls, f) == calls

\* intra = nextintra in the caller, if it is a call.
nextIntra(calls, f) ==
    IF calls = <<>> THEN calls
    ELSE [calls EXCEPT ![Len(calls)] =
             [txn |-> @.txn, intra |-> f.intra, extra |-> @.extra]]

signedTxnWithAdToTransaction ==
    /\ stack # <<>> /\ First({s \in Txns : parent[s] = Top.txn}) = {}
    /\ \E accts \in SetToSeqs(DOMAIN LocalDeltas), keys \in KeyOrders :
          out' = [t \in DOMAIN out \cup {Top.txn} |->
                    IF t # Top.txn THEN out[t]
                    ELSE Converted(Top, LocalStateDelta(t, accts, keys))]
    /\ stack' = nextIntra(SubSeq(stack, 1, Len(stack) - 1), Top)
    /\ intra' = IF Len(stack) = 1 THEN Top.intra ELSE intra
    /\ UNCHANGED <<blockVars, outcome>>

GenerateBlock ==
    /\ outcome = "none" /\ stack = <<>> /\ First(Roots) = {}
    /\ outcome' = "block"
    /\ UNCHANGED <<blockVars, stack, intra, out>>

-----------------------------------------------------------------------------
Init ==
    /\ kind \in [Txns -> Kinds]
    /\ parent \in [Txns -> 0 .. Count]
    /\ \A t \in Txns : parent[t] < t
    /\ Nested(parent)
    /\ \A t \in Txns \ Roots : kind[parent[t]] \in Apps
    /\ LocalDeltas \in UNION {[S -> SUBSET Keys] : S \in SUBSET Accounts}
    /\ LocalDeltas = <<>> \/ \E t \in Txns : kind[t] \in Apps
    /\ preV30 \in BOOLEAN
    /\ preV30 => Roots = Txns
    /\ stack = <<>>
    /\ intra = 0
    /\ out = <<>>
    /\ outcome = "none"

Next ==
    \/ \E t \in Txns : genTransactions(t) \/ innerTransaction(t)
    \/ decodeFails
    \/ signedTxnWithAdToTransaction
    \/ GenerateBlock

Spec == Init /\ [][Next]_vars

-----------------------------------------------------------------------------
(* Properties *)

\* What the conversion holds; no count exceeds the transactions of the block.
TypeOK ==
    /\ DOMAIN out \subseteq Txns
    /\ \A t \in DOMAIN out : /\ out[t].IntraRoundOffset \in 0 .. Count
                             /\ out[t].Created \in Nat \cup {None}
                             /\ out[t].CloseAmount \in Nat \cup {None}
    /\ intra \in 0 .. Count
    /\ \A i \in DOMAIN stack : stack[i].txn \in Txns /\ stack[i].intra \in 0 .. Count
    /\ outcome \in {"none", "failed", "block"}

\* The transaction that surrounds t at the top level.
LastUpTo(R, t) == CHOOSE r \in R : r <= t /\ \A s \in R : s <= t => s <= r
Outermost(t)   == LastUpTo(Roots, t)

\* However transactions are nested, the offset of a top-level one is the number
\* of transactions before it, inner ones included, and an inner one has the
\* offset of the top-level one it belongs to.
OffsetsCountInner ==
    \A t \in DOMAIN out : out[t].IntraRoundOffset = Outermost(t) - 1

\* "pre v30 transactions do not have ApplyData.ConfigAsset or InnerTxns so txn
\* counter + payset pos calculation is OK": the index of what a transaction
\* created is the one the ledger gave, in every version and at every depth.
CreatedIsLedgers ==
    \A t \in DOMAIN out :
        out[t].Created = IF Creates(t) THEN LedgerId(t) ELSE None

\* At every depth a transfer carries the amount that it closed out itself, not
\* that of a transaction around or before it.
AmountsAreOwn ==
    \A t \in DOMAIN out :
        out[t].CloseAmount = IF kind[t] = "axfer" THEN AssetClosingAmount(t) ELSE None

\* Every account that changed and every key, in ascending order.
ListsAllSorted(d) ==
    /\ \A i, j \in DOMAIN d : i < j => d[i].Address < d[j].Address
    /\ {d[i].Address : i \in DOMAIN d} = {k \in DOMAIN LocalDeltas : LocalDeltas[k] # {}}
    /\ \A i \in DOMAIN d :
          /\ ToSet(d[i].Delta) = LocalDeltas[d[i].Address]
          /\ \A m, n \in DOMAIN d[i].Delta : m < n => d[i].Delta[m] < d[i].Delta[n]

\* "people always seem to notice results changing": the list of deltas does not
\* depend on the order in which the maps are read; it has every account that
\* changed and every key, in ascending order.
DeltasStable ==
    \A t \in {u \in DOMAIN out : kind[u] \in Apps} : ListsAllSorted(out[t].LocalStateDelta)

\* What the offsets and the indices rest on: the recursion meets the transactions
\* in their order, so that its count is the number of the last one it has met;
\* and the row of a call has the call's own id and amount.
Reached == IF stack = <<>> THEN intra ELSE Top.intra

Rows == [Intra : Nat, AssetID : Nat, AssetCloseAmount : Nat]

BlockInv ==
    /\ kind \in [Txns -> Kinds] /\ parent \in [Txns -> 0 .. Count]
    /\ preV30 \in BOOLEAN /\ (preV30 => Roots = Txns)
    /\ \A t \in Txns : parent[t] < t
    /\ Nested(parent)
    /\ LocalDeltas \in UNION {[S -> SUBSET Keys] : S \in SUBSET Accounts}

WalkInv ==
    /\ intra \in 0 .. Count
    /\ stack \in Seq([txn : Txns, intra : 0 .. Count, extra : Rows])
    /\ DOMAIN out \cup {stack[i].txn : i \in DOMAIN stack} = 1 .. Reached
    /\ \A s \in Txns : parent[s] \in DOMAIN out => s \in DOMAIN out
    /\ \A i \in DOMAIN stack : stack[i].txn \notin DOMAIN out
    /\ \A i, j \in DOMAIN stack : i < j => stack[i].txn < stack[j].txn
    /\ stack # <<>> =>
          stack[1].txn \in Roots /\ \A s \in Roots : s <= Reached => s <= stack[1].txn

RowInv ==
    \A i \in DOMAIN stack :
        /\ stack[i].extra.Intra = stack[1].txn - 1
        /\ stack[i].extra.AssetCloseAmount = AssetClosingAmount(stack[i].txn)
        /\ Creates(stack[i].txn) => stack[i].extra.AssetID = LedgerId(stack[i].txn)

ConversionInv ==
    BlockInv /\ WalkInv /\ RowInv /\ OffsetsCountInner /\ CreatedIsLedgers /\ AmountsAreOwn
=============================================================================
