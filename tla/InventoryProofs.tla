--------------------------- MODULE InventoryProofs ---------------------------
(***************************************************************************)
(* Theorems about Inventory for every number of buckets, keys and versions *)
(* and every page size, and without its bounds on writes and kills.        *)
(***************************************************************************)
EXTENDS Inventory, FiniteSetTheorems, SequenceTheorems, WellFoundedInduction, TLAPS

-----------------------------------------------------------------------------
(* Finite sets of keys, and the rank of a key in one.                      *)

LEMMA LeastNumber ==
    ASSUME NEW T \in SUBSET Nat, T # {}
    PROVE  \E k \in T : \A j \in T : k <= j
  <1>1. PICK k \in T : \A j \in T : ~(<<j, k>> \in OpToRel(<, Nat))
    BY NatLessThanWellFounded, WFMin
  <1>2. \A j \in T : j \in Nat
    OBVIOUS
  <1>3. \A j \in T : ~(j < k)
    BY <1>1, <1>2 DEF OpToRel
  <1>4. QED
    BY <1>2, <1>3

LEMMA GreatestNumber ==
    ASSUME NEW n \in Nat, NEW T \in SUBSET (1 .. n), T # {}
    PROVE  \E k \in T : \A j \in T : j <= k
  <1> DEFINE Mirror == {n - k : k \in T}
  <1> \A k \in T : k \in Nat /\ 1 <= k /\ k <= n
    OBVIOUS
  <1>1. Mirror \in SUBSET Nat /\ Mirror # {}
    <2>1. \A k \in T : n - k \in Nat
      OBVIOUS
    <2>2. QED
      BY <2>1
  <1>2. PICK m \in Mirror : \A j \in Mirror : m <= j
    BY <1>1, LeastNumber
  <1>3. PICK k \in T : m = n - k
    BY <1>2
  <1>4. \A j \in T : n - k <= n - j
    BY <1>2, <1>3
  <1>5. QED
    BY <1>4

LEMMA KeysNat ==
    ASSUME NEW T \in SUBSET Keys
    PROVE  \A k \in T : k \in Nat /\ 1 <= k /\ k <= KeyCount
  BY CountAssumption DEF Keys

LEMMA KeysFinite ==
    ASSUME NEW T \in SUBSET Keys
    PROVE  IsFiniteSet(T) /\ Cardinality(T) \in Nat
  <1>1. IsFiniteSet(Keys)
    BY CountAssumption, FS_Interval DEF Keys
  <1>2. QED
    BY <1>1, FS_Subset, FS_CardinalityType

LEMMA RankType ==
    ASSUME NEW T \in SUBSET Keys, NEW k \in T
    PROVE  Smaller(T, k) \in Nat /\ Smaller(T, k) < Cardinality(T)
  <1> DEFINE Below == {j \in T : j < k}
  <1>1. Below \in SUBSET Keys /\ Below \cup {k} \in SUBSET T /\ k \notin Below
    BY KeysNat
  <1>2. IsFiniteSet(Below) /\ IsFiniteSet(T) /\ Cardinality(Below) \in Nat /\ Cardinality(T) \in Nat
    BY <1>1, KeysFinite
  <1>3. Cardinality(Below \cup {k}) = Cardinality(Below) + 1
    BY <1>1, <1>2, FS_AddElement
  <1>4. Cardinality(Below \cup {k}) <= Cardinality(T)
    BY <1>1, <1>2, FS_Subset
  <1>5. QED
    BY <1>2, <1>3, <1>4 DEF Smaller

LEMMA RankGrows ==
    ASSUME NEW T \in SUBSET Keys, NEW j \in T, NEW k \in T, j < k
    PROVE  Smaller(T, j) < Smaller(T, k)
  <1> DEFINE Below == {i \in T : i < k}
  <1>1. Below \in SUBSET Keys /\ j \in Below
    OBVIOUS
  <1>2. {i \in Below : i < j} = {i \in T : i < j}
    BY KeysNat
  <1>3. Smaller(Below, j) < Cardinality(Below)
    BY <1>1, RankType
  <1>4. QED
    BY <1>2, <1>3 DEF Smaller

(* The greatest element has all the others below it.                       *)
LEMMA GreatestRank ==
    ASSUME NEW T \in SUBSET Keys, T # {}
    PROVE  \E k \in T : (\A j \in T : j <= k) /\ Smaller(T, k) = Cardinality(T) - 1
  <1>1. PICK k \in T : \A j \in T : j <= k
    BY GreatestNumber, CountAssumption DEF Keys
  <1>2. {j \in T : j < k} = T \ {k}
    BY <1>1, KeysNat
  <1>3. Cardinality(T \ {k}) = Cardinality(T) - 1
    BY KeysFinite, FS_RemoveElement
  <1>4. QED
    BY <1>1, <1>2, <1>3 DEF Smaller

(* Every rank below the size of a set is that of one of its elements.      *)
LEMMA RankExists ==
    ASSUME NEW T \in SUBSET Keys, NEW r \in Nat, r < Cardinality(T)
    PROVE  \E k \in T : Smaller(T, k) = r
  <1> DEFINE High == {k \in T : Smaller(T, k) >= r}
  <1>1. T # {} /\ Cardinality(T) \in Nat
    BY KeysFinite, FS_EmptySet
  <1>2. High # {} /\ High \in SUBSET Nat
    <2>1. PICK k \in T : Smaller(T, k) = Cardinality(T) - 1
      BY <1>1, GreatestRank
    <2>2. QED
      BY <1>1, <2>1, KeysNat
  <1>3. PICK k \in High : \A j \in High : k <= j
    BY <1>2, LeastNumber
  <1>4. Smaller(T, k) \in Nat /\ Smaller(T, k) >= r
    BY <1>3, RankType
  <1>5. ASSUME Smaller(T, k) > r
        PROVE  FALSE
    <2> DEFINE Below == {j \in T : j < k}
    <2>1. Below \in SUBSET Keys /\ Cardinality(Below) = Smaller(T, k)
      BY DEF Smaller
    <2>2. Below # {}
      BY <1>4, <1>5, <2>1, FS_EmptySet
    <2>3. PICK j \in Below : Smaller(Below, j) = Cardinality(Below) - 1
      BY <2>1, <2>2, GreatestRank
    <2>4. {i \in Below : i < j} = {i \in T : i < j}
      BY KeysNat
    <2>5. Smaller(T, j) = Smaller(Below, j)
      BY <2>4 DEF Smaller
    <2>6. Smaller(T, j) >= r
      BY <1>4, <1>5, <2>1, <2>3, <2>5
    <2>7. QED
      BY <1>3, <2>3, <2>6, KeysNat
  <1>6. QED
    BY <1>3, <1>4, <1>5

-----------------------------------------------------------------------------
(* What a page holds.                                                      *)

LEMMA PageKeysType ==
    ASSUME NEW b \in Buckets
    PROVE  /\ PageKeys(b) \in SUBSET Keys /\ Remaining(b) \in SUBSET Keys
           /\ PageKeys(b) \subseteq Remaining(b)
           /\ Cardinality(PageKeys(b)) \in Nat
  <1>1. PageKeys(b) \in SUBSET Keys /\ Remaining(b) \in SUBSET Keys /\ PageKeys(b) \subseteq Remaining(b)
    BY DEF PageKeys, Remaining
  <1>2. QED
    BY <1>1, KeysFinite

(* A page starts with the first key that remains and leaves no gap.        *)
LEMMA PageKeysFirst ==
    ASSUME NEW b \in Buckets
    PROVE  /\ Remaining(b) # {} => PageKeys(b) # {}
           /\ \A k \in PageKeys(b), j \in Remaining(b) : j <= k => j \in PageKeys(b)
  <1>1. ASSUME Remaining(b) # {}
        PROVE  PageKeys(b) # {}
    <2>1. Cardinality(Remaining(b)) \in Nat \ {0}
      BY <1>1, PageKeysType, KeysFinite, FS_EmptySet
    <2>2. PICK k \in Remaining(b) : Smaller(Remaining(b), k) = 0
      BY <2>1, PageKeysType, RankExists
    <2>3. QED
      BY <2>2, PageAssumption DEF PageKeys
  <1>2. ASSUME NEW k \in PageKeys(b), NEW j \in Remaining(b), j <= k
        PROVE  j \in PageKeys(b)
    <2>1. CASE j = k
      BY <2>1
    <2>2. CASE j < k
      <3>1. k \in Remaining(b) /\ Smaller(Remaining(b), k) < PageSize
        BY DEF PageKeys
      <3>2. /\ Smaller(Remaining(b), j) < Smaller(Remaining(b), k)
            /\ Smaller(Remaining(b), j) \in Nat /\ Smaller(Remaining(b), k) \in Nat
        BY <2>2, <3>1, PageKeysType, RankGrows, RankType
      <3>3. Smaller(Remaining(b), j) < PageSize
        BY <3>1, <3>2, PageAssumption
      <3>4. QED
        BY <3>3 DEF PageKeys
    <2>3. QED
      BY <1>2, <2>1, <2>2, PageKeysType, KeysNat
  <1>3. QED
    BY <1>1, <1>2

LEMMA KeyAtRank ==
    ASSUME NEW b \in Buckets, NEW i \in 1 .. Cardinality(PageKeys(b))
    PROVE  KeyAt(b, i) \in PageKeys(b) /\ Smaller(PageKeys(b), KeyAt(b, i)) = i - 1
  <1>1. i - 1 \in Nat /\ i - 1 < Cardinality(PageKeys(b))
    BY PageKeysType
  <1>2. \E k \in PageKeys(b) : Smaller(PageKeys(b), k) = i - 1
    BY <1>1, PageKeysType, RankExists
  <1>3. QED
    BY <1>2 DEF KeyAt

(* A page has just the keys it should have, in their order.                *)
LEMMA KeyAtOrder ==
    ASSUME NEW b \in Buckets
    PROVE  /\ \A i, j \in 1 .. Cardinality(PageKeys(b)) : i < j => KeyAt(b, i) < KeyAt(b, j)
           /\ \A k \in PageKeys(b) : \E i \in 1 .. Cardinality(PageKeys(b)) : KeyAt(b, i) = k
  <1> DEFINE n == Cardinality(PageKeys(b))
             R(k) == Smaller(PageKeys(b), k)
  <1>1. n \in Nat /\ \A k \in PageKeys(b) : k \in Nat
    BY PageKeysType, KeysNat
  <1>2. \A k, j \in PageKeys(b) : R(k) \in Nat /\ R(k) < n /\ (j < k => R(j) < R(k))
    BY PageKeysType, RankType, RankGrows
  <1>3. \A i \in 1 .. n : KeyAt(b, i) \in PageKeys(b) /\ R(KeyAt(b, i)) = i - 1
    BY KeyAtRank
  <1> HIDE DEF n, R
  <1>4. \A i, j \in 1 .. n : i < j => KeyAt(b, i) < KeyAt(b, j)
    <2> SUFFICES ASSUME NEW i \in 1 .. n, NEW j \in 1 .. n, i < j, ~(KeyAt(b, i) < KeyAt(b, j))
                 PROVE  FALSE
      OBVIOUS
    <2>1. KeyAt(b, j) < KeyAt(b, i) \/ KeyAt(b, i) = KeyAt(b, j)
      BY <1>1, <1>3
    <2>2. R(KeyAt(b, i)) = i - 1 /\ R(KeyAt(b, j)) = j - 1
      BY <1>3
    <2>3. CASE KeyAt(b, j) < KeyAt(b, i)
      BY <1>1, <1>2, <1>3, <2>2, <2>3
    <2>4. CASE KeyAt(b, i) = KeyAt(b, j)
      BY <1>1, <2>2, <2>4
    <2>5. QED
      BY <2>1, <2>3, <2>4
  <1>5. ASSUME NEW k \in PageKeys(b)
        PROVE  \E i \in 1 .. n : KeyAt(b, i) = k
    <2>1. R(k) + 1 \in 1 .. n /\ R(k) \in Nat
      BY <1>1, <1>2
    <2>2. KeyAt(b, R(k) + 1) \in PageKeys(b) /\ R(KeyAt(b, R(k) + 1)) = R(k)
      BY <1>3, <2>1
    <2>3. KeyAt(b, R(k) + 1) = k
      BY <1>1, <1>2, <2>2
    <2>4. QED
      BY <2>1, <2>3
  <1>6. QED
    BY <1>4, <1>5 DEF n

LEMMA PageRowsSeq ==
    ASSUME NEW b \in Buckets, store[b] \in [Keys -> 0 .. MaxVersion]
    PROVE  /\ PageRows(b) \in Seq(Rows)
           /\ Len(PageRows(b)) = Cardinality(PageKeys(b))
           /\ \A i \in 1 .. Cardinality(PageKeys(b)) :
                 /\ PageRows(b)[i].bucket = b
                 /\ PageRows(b)[i].key = KeyAt(b, i)
                 /\ PageRows(b)[i].version = store[b][KeyAt(b, i)]
  <1> DEFINE n == Cardinality(PageKeys(b))
  <1>1. n \in Nat
    BY PageKeysType
  <1>2. \A i \in 1 .. n : KeyAt(b, i) \in Keys /\ store[b][KeyAt(b, i)] \in 1 .. MaxVersion
    <2>1. \A k \in PageKeys(b) : k \in Keys /\ store[b][k] \in 1 .. MaxVersion
      BY BoundsAssumption DEF PageKeys, Remaining
    <2>2. QED
      BY <2>1, KeyAtRank
  <1>3. \A i \in 1 .. n :
           [bucket |-> b, key |-> KeyAt(b, i), version |-> store[b][KeyAt(b, i)]] \in Rows
    BY <1>2 DEF Rows
  <1>4. PageRows(b) = [i \in 1 .. n |->
           [bucket |-> b, key |-> KeyAt(b, i), version |-> store[b][KeyAt(b, i)]]]
    BY DEF PageRows
  <1>5. PageRows(b) \in [1 .. n -> Rows]
    BY <1>3, <1>4
  <1>6. PageRows(b) \in Seq(Rows) /\ Len(PageRows(b)) = n
    BY <1>1, <1>5
  <1>7. \A i \in 1 .. n : PageRows(b)[i] =
           [bucket |-> b, key |-> KeyAt(b, i), version |-> store[b][KeyAt(b, i)]]
    BY <1>4
  <1>8. QED
    BY <1>6, <1>7

LEMMA LastKeysRight ==
    ASSUME rows \in Seq(Rows), NEW b \in Buckets
    PROVE  \/ RowsOf(b) = {} /\ LastKeys[b] = 0
           \/ \E i \in RowsOf(b) : (\A j \in RowsOf(b) : j <= i) /\ LastKeys[b] = rows[i].key
  <1>1. Len(rows) \in Nat /\ RowsOf(b) \in SUBSET (1 .. Len(rows))
    BY DEF RowsOf
  <1>2. RowsOf(b) # {} => \E i \in RowsOf(b) : \A j \in RowsOf(b) : j <= i
    BY <1>1, GreatestNumber
  <1>3. QED
    BY <1>2 DEF LastKeys

LEMMA LastKeysType ==
    ASSUME rows \in Seq(Rows)
    PROVE  LastKeys \in [Buckets -> 0 .. KeyCount]
  <1>1. \A b \in Buckets : LastKeys[b] \in 0 .. KeyCount
    <2> TAKE b \in Buckets
    <2>1. CASE RowsOf(b) = {} /\ LastKeys[b] = 0
      BY <2>1, CountAssumption
    <2>2. CASE \E i \in RowsOf(b) : LastKeys[b] = rows[i].key
      <3>1. PICK i \in RowsOf(b) : LastKeys[b] = rows[i].key
        BY <2>2
      <3>2. rows[i] \in Rows
        BY DEF RowsOf
      <3>3. rows[i].key \in Keys
        BY <3>2 DEF Rows
      <3>4. QED
        BY <3>1, <3>3, CountAssumption DEF Keys
    <2>3. QED
      BY <2>1, <2>2, LastKeysRight
  <1>2. QED
    BY <1>1 DEF LastKeys

-----------------------------------------------------------------------------
(* Type correctness.                                                       *)

LEMMA PageType ==
    ASSUME TypeOK
    PROVE  PageRows(bucket) \in Seq(Rows)
  <1>1. bucket \in Buckets /\ store[bucket] \in [Keys -> 0 .. MaxVersion]
    BY DEF TypeOK
  <1>2. QED
    BY <1>1, PageRowsSeq

(* What reaches the checkpoint of a page is again a sequence of rows.      *)
LEMMA ExtendType ==
    ASSUME TypeOK, NEW n \in 0 .. Len(page), Extend(n)
    PROVE  rows' \in Seq(Rows)
  <1>1. rows \in Seq(Rows) /\ page \in Seq(Rows)
    BY DEF TypeOK
  <1>2. SubSeq(page, 1, n) \in Seq(Rows)
    BY <1>1, SubSeqProperties
  <1>3. rows \o SubSeq(page, 1, n) \in Seq(Rows)
    BY <1>1, <1>2, ConcatProperties
  <1>4. QED
    BY <1>1, <1>3 DEF Extend

LEMMA InitType == Init => TypeOK
  <1> SUFFICES ASSUME Init PROVE TypeOK
    OBVIOUS
  <1>1. store \in [Buckets -> [Keys -> 0 .. MaxVersion]] /\ begun = store
    BY BoundsAssumption DEF Init
  <1>2. <<>> \in Seq(Rows)
    OBVIOUS
  <1>3. bucket \in Buckets /\ cursor \in [Buckets -> 0 .. KeyCount]
    BY CountAssumption DEF Init, Buckets
  <1>4. gzip \in BOOLEAN
    BY ModesAssumption DEF Init
  <1>5. rows \in Seq(Rows) /\ page \in Seq(Rows) /\ digest \in Seq(Rows)
    BY <1>2 DEF Init
  <1>6. {writes, kills} \subseteq Nat
    BY SMT DEF Init
  <1>7. {store, begun} \subseteq [Buckets -> [Keys -> 0 .. MaxVersion]]
    BY <1>1
  <1>8. more \in BOOLEAN /\ renamed \in BOOLEAN
    BY Zenon DEF Init
  <1>9. QED
    BY <1>3, <1>4, <1>5, <1>6, <1>7, <1>8 DEF Init, TypeOK

LEMMA StopType ==
    ASSUME Stop
    PROVE  /\ pc' = "off" /\ bucket' \in Buckets /\ cursor' \in [Buckets -> 0 .. KeyCount]
           /\ page' \in Seq(Rows) /\ more' \in BOOLEAN /\ digest' \in Seq(Rows)
  <1>1. 1 \in Buckets /\ 0 \in 0 .. KeyCount /\ <<>> \in Seq(Rows)
    BY CountAssumption DEF Buckets
  <1>2. QED
    BY <1>1 DEF Stop

LEMMA NextBucketType ==
    ASSUME bucket \in Buckets, NextBucket
    PROVE  bucket' \in Buckets /\ pc' \in {"list", "rename"}
  BY CountAssumption DEF NextBucket, Buckets

LEMMA StepType == TypeOK /\ [Next]_vars => TypeOK'
  <1> SUFFICES ASSUME TypeOK, [Next]_vars PROVE TypeOK'
    OBVIOUS
  <1> USE DEF TypeOK
  <1>1. ASSUME NEW b \in Buckets, NEW k \in Keys, Write(b, k)
        PROVE  TypeOK'
    <2>1. store' \in [Buckets -> [Keys -> 0 .. MaxVersion]]
      BY <1>1, BoundsAssumption DEF Write
    <2>2. writes' \in Nat /\ UNCHANGED <<begun, checkpoint, results, listing, kills>>
      BY <1>1 DEF Write
    <2>3. QED
      BY <2>1, <2>2 DEF checkpoint, results, listing
  <1>2. CASE Start
    BY <1>2, LastKeysType DEF Start, objects, results, bounds
  <1>3. CASE List
    <2>1. page' \in Seq(Rows) /\ digest' \in Seq(Rows)
      BY <1>3, PageType, ConcatProperties DEF List
    <2>2. CASE page' = <<>>
      <3>1. bucket' \in Buckets /\ pc' \in {"list", "rename"}
        BY <1>3, <2>2, NextBucketType DEF List
      <3>2. QED
        BY <1>3, <2>1, <2>2, <3>1 DEF List, objects, checkpoint, results, bounds
    <2>3. CASE page' # <<>>
      <3>1. Len(page') \in 1 .. Len(page')
        BY <2>1, <2>3, EmptySeq
      <3>2. page'[Len(page')] \in Rows
        BY <2>1, <3>1, ElementOfSeq
      <3>3. page'[Len(page')].key \in 0 .. KeyCount
        BY <3>2, CountAssumption DEF Rows, Keys
      <3>4. cursor' \in [Buckets -> 0 .. KeyCount]
        BY <1>3, <2>3, <3>3 DEF List
      <3>5. QED
        BY <1>3, <2>1, <2>3, <3>4 DEF List, objects, checkpoint, results, bounds
    <2>4. QED
      BY <2>2, <2>3
  <1>4. CASE AppendPage
    <2>1. rows' \in Seq(Rows)
      BY <1>4, ExtendType, LenProperties DEF AppendPage
    <2>2. bucket' \in Buckets /\ pc' \in {"list", "rename"}
      BY <1>4, NextBucketType DEF AppendPage
    <2>3. QED
      BY <1>4, <2>1, <2>2 DEF AppendPage, objects, results, bounds
  <1>5. CASE Rename
    BY <1>5 DEF Rename, objects, results, bounds
  <1>6. CASE Summarise
    BY <1>6, StopType DEF Summarise, objects, checkpoint, bounds
  <1>7. CASE KillRewrite
    <2>1. rows' \in Seq(Rows)
      BY <1>7, SubSeqProperties, ElementOfSeq DEF KillRewrite
    <2>2. QED
      BY <1>7, <2>1 DEF KillRewrite, objects, results, listing
  <1>8. CASE KillAppend
    <2>1. rows' \in Seq(Rows)
      BY <1>8, ExtendType DEF KillAppend
    <2>2. QED
      BY <1>8, <2>1, StopType DEF KillAppend, objects, results
  <1>9. CASE Kill \/ RenameFails
    BY <1>9, StopType DEF Kill, RenameFails, objects, checkpoint, results, bounds
  <1>10. CASE Canonicalize
    <2>1. Listed \in SUBSET Rows
      BY ElementOfSeq DEF Listed
    <2>2. QED
      BY <1>10, <2>1 DEF Canonicalize, objects, checkpoint, listing
  <1>11. CASE UNCHANGED vars
    BY <1>11 DEF vars, objects, checkpoint, results, listing, bounds
  <1>12. QED
    BY <1>1, <1>2, <1>3, <1>4, <1>5, <1>6, <1>7, <1>8, <1>9, <1>10, <1>11 DEF Next, ListingStep

(* Every variable holds a value of its kind (inventory_r2).                *)
THEOREM TypeCorrect == Spec => []TypeOK
  BY InitType, StepType, PTL DEF Spec

-----------------------------------------------------------------------------
(* The summary.  The hash is at every step that of the checkpoint and the  *)
(* page at hand, and nothing changes the checkpoint after its rename.      *)

Phases ==
    /\ pc # "append" => page = <<>>
    /\ pc = "off" => bucket = 1
    /\ renamed => pc \in {"off", "summary"}
    /\ pc = "summary" => renamed
    /\ summary # None => renamed /\ pc = "off"

All == rows \o page

HashInv ==
    /\ tail = "nothing" /\ pc # "off" => digest = All
    /\ SummaryBindsRows

LEMMA PhasesStep == TypeOK /\ Phases /\ [Next]_vars => Phases'
  <1> SUFFICES ASSUME TypeOK, Phases, [Next]_vars PROVE Phases'
    OBVIOUS
  <1> USE DEF Phases
  <1>1. ASSUME NEW b \in Buckets, NEW k \in Keys, Write(b, k)
        PROVE  Phases'
    BY <1>1 DEF Write, checkpoint, results, listing
  <1>2. CASE Start
    BY <1>2 DEF Start, results
  <1>3. CASE List
    BY <1>3 DEF List, NextBucket, checkpoint, results
  <1>4. CASE AppendPage
    BY <1>4 DEF AppendPage, NextBucket, results
  <1>5. CASE Rename
    BY <1>5 DEF Rename, results
  <1>6. CASE Summarise
    BY <1>6 DEF Summarise, Stop, checkpoint
  <1>7. CASE KillRewrite
    BY <1>7 DEF KillRewrite, results, listing
  <1>8. CASE KillAppend
    BY <1>8 DEF KillAppend, Stop, results
  <1>9. CASE Kill \/ RenameFails
    BY <1>9 DEF Kill, RenameFails, Stop, checkpoint, results
  <1>10. CASE Canonicalize
    BY <1>10 DEF Canonicalize, checkpoint, listing
  <1>11. CASE UNCHANGED vars
    BY <1>11 DEF vars, checkpoint, results, listing
  <1>12. QED
    BY <1>1, <1>2, <1>3, <1>4, <1>5, <1>6, <1>7, <1>8, <1>9, <1>10, <1>11 DEF Next, ListingStep

LEMMA EmptyPage ==
    ASSUME TypeOK, page = <<>>
    PROVE  All = rows
  BY ConcatEmptySeq DEF TypeOK, All

LEMMA AppendWhole ==
    ASSUME TypeOK, AppendPage, tail = "nothing"
    PROVE  rows' = All
  BY SubSeqFull DEF TypeOK, AppendPage, Extend, All

LEMMA HashStep == TypeOK /\ TypeOK' /\ Phases /\ Phases' /\ HashInv /\ [Next]_vars => HashInv'
  <1> SUFFICES ASSUME TypeOK, TypeOK', Phases, Phases', HashInv, [Next]_vars PROVE HashInv'
    OBVIOUS
  <1> USE DEF HashInv, SummaryBindsRows
  <1>0. page' = <<>> => All' = rows'
    BY ConcatEmptySeq DEF TypeOK, All
  <1>1. ASSUME NEW b \in Buckets, NEW k \in Keys, Write(b, k)
        PROVE  HashInv'
    BY <1>1 DEF Write, checkpoint, results, listing, All
  <1>2. CASE Start
    BY <1>0, <1>2 DEF Start, results, Phases
  <1>3. CASE List
    <2>1. tail = "nothing" => digest = rows
      BY <1>3, EmptyPage DEF List, Phases
    <2>2. QED
      BY <1>3, <2>1 DEF List, checkpoint, results, All
  <1>4. CASE AppendPage
    <2>1. tail = "nothing" => rows' = digest
      BY <1>4, AppendWhole DEF AppendPage
    <2>2. QED
      BY <1>0, <1>4, <2>1 DEF AppendPage, results, Phases
  <1>5. CASE Rename
    BY <1>5 DEF Rename, results, All, Phases
  <1>6. CASE Summarise
    BY <1>6, EmptyPage DEF Summarise, Stop, checkpoint, Phases
  <1>7. CASE KillRewrite
    BY <1>7 DEF KillRewrite, results, listing, Phases
  <1>8. CASE KillAppend
    BY <1>8 DEF KillAppend, Stop, results, Phases
  <1>9. CASE Kill \/ RenameFails
    BY <1>9 DEF Kill, RenameFails, Stop, checkpoint, results
  <1>10. CASE Canonicalize
    BY <1>10 DEF Canonicalize, checkpoint, listing, All
  <1>11. CASE UNCHANGED vars
    BY <1>11 DEF vars, checkpoint, results, listing, All
  <1>12. QED
    BY <1>1, <1>2, <1>3, <1>4, <1>5, <1>6, <1>7, <1>8, <1>9, <1>10, <1>11 DEF Next, ListingStep

LEMMA InitHash == Init => Phases /\ HashInv
  BY DEF Init, Phases, HashInv, SummaryBindsRows

(* The hash in the summary is that of the rows in the inventory, through   *)
(* any number of kills and resumes (inventory_r2).                         *)
THEOREM SummaryIsBound == Spec => []SummaryBindsRows
  <1>1. TypeOK /\ Phases /\ HashInv /\ [Next]_vars => (TypeOK /\ Phases /\ HashInv)'
    BY StepType, PhasesStep, HashStep
  <1>2. HashInv => SummaryBindsRows
    BY DEF HashInv
  <1>3. QED
    BY InitType, InitHash, <1>1, <1>2, PTL DEF Spec

-----------------------------------------------------------------------------
(* The coverage.  A checkpoint is without gaps: before a row of it there   *)
(* is one for every earlier object that existed at the beginning, so the   *)
(* last keys are where a resume may go on.                                 *)

(* Row r is the object k of bucket b, as it was at the beginning or later. *)
Matches(r, b, k) == r.bucket = b /\ r.key = k /\ begun[b][k] <= r.version

Found(s, b, k) == \E j \in 1 .. Len(s) : Matches(s[j], b, k)

Ordered(s) ==
    \A i, j \in 1 .. Len(s) : i < j /\ s[i].bucket = s[j].bucket => s[i].key < s[j].key

Due(r, b, k) == begun[b][k] # 0 /\ (b < r.bucket \/ (b = r.bucket /\ k <= r.key))

Gapless(s) ==
    \A i \in 1 .. Len(s), b \in Buckets, k \in Keys :
        Due(s[i], b, k) => \E j \in 1 .. i : Matches(s[j], b, k)

(* The bucket is listed to its end.                                        *)
Passed(b) ==
    \/ pc \in {"rename", "summary"}
    \/ pc \in {"list", "append"} /\ b < bucket
    \/ pc = "append" /\ b = bucket /\ ~more

ListInv ==
    /\ Ordered(All) /\ Gapless(All)
    /\ \A i \in 1 .. Len(All) : All[i].key <= cursor[All[i].bucket]
    /\ \A b \in Buckets, k \in Keys :
          begun[b][k] # 0 /\ (k <= cursor[b] \/ Passed(b)) => Found(All, b, k)

CoverInv ==
    /\ \A b \in Buckets, k \in Keys : begun[b][k] <= store[b][k]
    /\ Ordered(rows) /\ Gapless(rows)
    /\ tail = "nothing" /\ pc # "off" => ListInv
    /\ renamed /\ tail = "nothing" =>
          \A b \in Buckets, k \in Keys : begun[b][k] # 0 => Found(rows, b, k)

LEMMA RowTypes ==
    ASSUME NEW s \in Seq(Rows)
    PROVE  /\ Len(s) \in Nat
           /\ \A i \in 1 .. Len(s) : /\ s[i] \in Rows
                                    /\ s[i].bucket \in Buckets /\ s[i].bucket \in Nat
                                    /\ s[i].key \in Keys /\ s[i].key \in Nat
                                    /\ s[i].version \in Nat
  <1>1. \A r \in Rows : /\ r.bucket \in Buckets /\ r.bucket \in Nat
                       /\ r.key \in Keys /\ r.key \in Nat /\ r.version \in Nat
    BY DEF Rows, Buckets, Keys
  <1>2. \A i \in 1 .. Len(s) : s[i] \in Rows
    BY ElementOfSeq
  <1>3. QED
    BY <1>1, <1>2

LEMMA ConcatParts ==
    ASSUME NEW s \in Seq(Rows), NEW t \in Seq(Rows)
    PROVE  /\ s \o t \in Seq(Rows) /\ Len(s \o t) = Len(s) + Len(t)
           /\ \A i \in 1 .. Len(s) : (s \o t)[i] = s[i]
           /\ \A i \in 1 .. Len(t) : (s \o t)[Len(s) + i] = t[i]
  <1>1. Len(s) \in Nat /\ Len(t) \in Nat
    OBVIOUS
  <1>2. ASSUME NEW i \in 1 .. Len(t)
        PROVE  (s \o t)[Len(s) + i] = t[i]
    BY <1>1
  <1>3. QED
    BY <1>2, ConcatProperties

(* What is true of a checkpoint is true of its beginning.                  *)
LEMMA PrefixCovers ==
    ASSUME NEW s \in Seq(Rows), NEW t \in Seq(Rows), Ordered(s), Gapless(s),
           Len(t) <= Len(s), \A i \in 1 .. Len(t) : t[i] = s[i]
    PROVE  Ordered(t) /\ Gapless(t)
  <1>1. Len(s) \in Nat /\ Len(t) \in Nat
    BY RowTypes
  <1>2. Ordered(t)
    BY <1>1 DEF Ordered
  <1>3. Gapless(t)
    <2> SUFFICES ASSUME NEW i \in 1 .. Len(t), NEW b \in Buckets, NEW k \in Keys, Due(t[i], b, k)
                 PROVE  \E j \in 1 .. i : Matches(t[j], b, k)
      BY DEF Gapless
    <2>1. i \in 1 .. Len(s) /\ Due(s[i], b, k)
      BY <1>1
    <2>2. PICK j \in 1 .. i : Matches(s[j], b, k)
      BY <2>1 DEF Gapless
    <2>3. t[j] = s[j]
      BY <1>1
    <2>4. QED
      BY <2>2, <2>3
  <1>4. QED
    BY <1>2, <1>3

LEMMA CutCovers ==
    ASSUME NEW s \in Seq(Rows), NEW n \in 0 .. Len(s), Ordered(s), Gapless(s)
    PROVE  Ordered(SubSeq(s, 1, n)) /\ Gapless(SubSeq(s, 1, n))
  <1> DEFINE cut == SubSeq(s, 1, n)
  <1>1. /\ cut \in Seq(Rows) /\ Len(cut) = n /\ Len(s) \in Nat
        /\ \A i \in 1 .. n : cut[i] = s[i]
    BY SubSeqProperties
  <1> HIDE DEF cut
  <1>2. Len(cut) <= Len(s) /\ \A i \in 1 .. Len(cut) : cut[i] = s[i]
    BY <1>1
  <1>3. Ordered(cut) /\ Gapless(cut)
    BY <1>1, <1>2, PrefixCovers
  <1>4. QED
    BY <1>3 DEF cut

LEMMA PartCovers ==
    ASSUME rows \in Seq(Rows), page \in Seq(Rows), NEW n \in 0 .. Len(page),
           Ordered(All), Gapless(All)
    PROVE  Ordered(rows \o SubSeq(page, 1, n)) /\ Gapless(rows \o SubSeq(page, 1, n))
  <1> DEFINE part == SubSeq(page, 1, n)
  <1>1. /\ part \in Seq(Rows) /\ Len(part) = n /\ Len(page) \in Nat /\ Len(rows) \in Nat
        /\ \A i \in 1 .. n : part[i] = page[i]
    BY SubSeqProperties
  <1> HIDE DEF part
  <1>2. /\ rows \o part \in Seq(Rows) /\ Len(rows \o part) = Len(rows) + n
        /\ \A i \in 1 .. Len(rows) : (rows \o part)[i] = rows[i]
        /\ \A i \in 1 .. n : (rows \o part)[Len(rows) + i] = part[i]
    BY <1>1, ConcatParts
  <1>3. /\ All \in Seq(Rows) /\ Len(All) = Len(rows) + Len(page)
        /\ \A i \in 1 .. Len(rows) : All[i] = rows[i]
        /\ \A i \in 1 .. Len(page) : All[Len(rows) + i] = page[i]
    BY ConcatParts DEF All
  <1>4. ASSUME NEW i \in 1 .. Len(rows) + n
        PROVE  (rows \o part)[i] = All[i]
    <2>1. CASE i \in 1 .. Len(rows)
      BY <1>2, <1>3, <2>1
    <2>2. CASE i \notin 1 .. Len(rows)
      <3>1. PICK x \in 1 .. n : i = Len(rows) + x
        <4>1. i - Len(rows) \in 1 .. n /\ i = Len(rows) + (i - Len(rows))
          BY <1>1, <2>2
        <4>2. QED
          BY <4>1
      <3>2. x \in 1 .. Len(page)
        BY <1>1
      <3>3. QED
        BY <1>1, <1>2, <1>3, <3>1, <3>2
    <2>3. QED
      BY <2>1, <2>2
  <1>5. Len(rows \o part) <= Len(All)
    BY <1>1, <1>2, <1>3
  <1>6. Ordered(rows \o part) /\ Gapless(rows \o part)
    BY <1>2, <1>3, <1>4, <1>5, PrefixCovers
  <1>7. QED
    BY <1>6 DEF part

(* A bucket's next page continues the checkpoint without a gap.            *)
LEMMA PageCovers ==
    ASSUME TypeOK, pc = "list", page = <<>>, ListInv, PageRows(bucket) # <<>>,
           \A b \in Buckets, k \in Keys : begun[b][k] <= store[b][k],
           NEW s, s = rows \o PageRows(bucket)
    PROVE  /\ s \in Seq(Rows) /\ Ordered(s) /\ Gapless(s)
           /\ Len(s) = Len(rows) + Cardinality(PageKeys(bucket))
           /\ \A i \in 1 .. Len(rows) : s[i] = rows[i]
           /\ \A i \in 1 .. Cardinality(PageKeys(bucket)) :
                 /\ s[Len(rows) + i].bucket = bucket
                 /\ s[Len(rows) + i].key = KeyAt(bucket, i)
           /\ \A k \in PageKeys(bucket) : Found(s, bucket, k)
  <1> DEFINE n == Cardinality(PageKeys(bucket))
             m == Len(rows)
             p == PageRows(bucket)
  <1>1. /\ rows \in Seq(Rows) /\ m \in Nat /\ bucket \in Buckets
        /\ store \in [Buckets -> [Keys -> 0 .. MaxVersion]]
        /\ begun \in [Buckets -> [Keys -> 0 .. MaxVersion]]
        /\ cursor \in [Buckets -> 0 .. KeyCount]
        /\ All = rows
    BY EmptyPage DEF TypeOK
  <1>2. /\ p \in Seq(Rows) /\ Len(p) = n /\ n \in Nat
        /\ \A i \in 1 .. n : /\ p[i].bucket = bucket /\ p[i].key = KeyAt(bucket, i)
                            /\ p[i].version = store[bucket][KeyAt(bucket, i)]
    BY <1>1, PageRowsSeq, PageKeysType
  <1>3. /\ \A i, j \in 1 .. n : i < j => KeyAt(bucket, i) < KeyAt(bucket, j)
        /\ \A k \in PageKeys(bucket) : \E i \in 1 .. n : KeyAt(bucket, i) = k
        /\ \A i \in 1 .. n : KeyAt(bucket, i) \in PageKeys(bucket)
    BY <1>1, KeyAtOrder, KeyAtRank
  <1>4. \A k \in PageKeys(bucket) : k \in Keys /\ k \in Nat /\ k > cursor[bucket]
    BY <1>1, KeysNat DEF PageKeys, Remaining
  <1> HIDE DEF n, m, p
  <1>5. /\ s \in Seq(Rows) /\ Len(s) = m + n
        /\ \A i \in 1 .. m : s[i] = rows[i]
        /\ \A i \in 1 .. n : s[m + i] = p[i]
    BY <1>1, <1>2, ConcatParts DEF m, p
  <1> m \in Nat /\ n \in Nat
    BY <1>1, <1>2
  <1>6. \A i \in 1 .. m + n : i \in 1 .. m \/ \E j \in 1 .. n : i = m + j
    <2> TAKE i \in 1 .. m + n
    <2>1. i \in 1 .. m \/ (i - m \in 1 .. n /\ i = m + (i - m))
      BY <1>1, <1>2
    <2>2. QED
      BY <2>1
  <1>7. Ordered(s)
    <2> SUFFICES ASSUME NEW i \in 1 .. m + n, NEW j \in 1 .. m + n, i < j,
                        s[i].bucket = s[j].bucket
                 PROVE  s[i].key < s[j].key
      BY <1>5 DEF Ordered
    <2>1. CASE j \in 1 .. m
      BY <1>1, <1>5, <2>1 DEF ListInv, Ordered, m
    <2>2. CASE \E y \in 1 .. n : j = m + y
      <3>1. PICK y \in 1 .. n : j = m + y
        BY <2>2
      <3>2. s[j].bucket = bucket /\ s[j].key = KeyAt(bucket, y)
        BY <1>2, <1>5, <3>1
      <3>3. CASE i \in 1 .. m
        <4>1. rows[i].key <= cursor[bucket]
          BY <1>1, <1>5, <3>2, <3>3 DEF ListInv, m
        <4>2. KeyAt(bucket, y) > cursor[bucket] /\ KeyAt(bucket, y) \in Nat
          BY <1>3, <1>4
        <4>3. rows[i].key \in Nat /\ cursor[bucket] \in Nat
          BY <1>1, <3>3, RowTypes, CountAssumption DEF m
        <4>4. QED
          BY <1>5, <3>2, <3>3, <4>1, <4>2, <4>3
      <3>4. CASE \E x \in 1 .. n : i = m + x
        <4>1. PICK x \in 1 .. n : i = m + x
          BY <3>4
        <4>2. x < y
          BY <3>1, <4>1
        <4>3. s[i].key = KeyAt(bucket, x)
          BY <1>2, <1>5, <4>1
        <4>4. QED
          BY <1>3, <3>2, <4>2, <4>3
      <3>5. QED
        BY <1>6, <3>3, <3>4
    <2>3. QED
      BY <1>6, <2>1, <2>2
  <1>8. \A y \in 1 .. n, k \in Keys : begun[bucket][k] # 0 /\ k = KeyAt(bucket, y) => Matches(s[m + y], bucket, k)
    <2> TAKE y \in 1 .. n, k \in Keys
    <2> HAVE begun[bucket][k] # 0 /\ k = KeyAt(bucket, y)
    <2>1. s[m + y].bucket = bucket /\ s[m + y].key = k /\ s[m + y].version = store[bucket][k]
      BY <1>2, <1>5
    <2>2. begun[bucket][k] <= store[bucket][k]
      BY <1>1
    <2>3. QED
      BY <2>1, <2>2 DEF Matches
  <1>9. Gapless(s)
    <2> SUFFICES ASSUME NEW i \in 1 .. m + n, NEW b \in Buckets, NEW k \in Keys, Due(s[i], b, k)
                 PROVE  \E j \in 1 .. i : Matches(s[j], b, k)
      BY <1>5 DEF Gapless
    <2>1. CASE i \in 1 .. m
      <3>1. PICK j \in 1 .. i : Matches(rows[j], b, k)
        BY <1>1, <1>5, <2>1 DEF ListInv, Gapless, m
      <3>2. j \in 1 .. m
        BY <1>1, <2>1
      <3>3. QED
        BY <1>5, <3>1, <3>2
    <2>2. CASE \E y \in 1 .. n : i = m + y
      <3>1. PICK y \in 1 .. n : i = m + y
        BY <2>2
      <3>2. s[i].bucket = bucket /\ s[i].key = KeyAt(bucket, y)
        BY <1>2, <1>5, <3>1
      <3>3. CASE b < bucket \/ k <= cursor[b]
        <4>1. begun[b][k] # 0
          BY DEF Due
        <4>2. Found(rows, b, k)
          BY <1>1, <3>3, <4>1 DEF ListInv, Passed
        <4>3. PICK j \in 1 .. m : Matches(rows[j], b, k)
          BY <4>2 DEF Found, m
        <4>4. j \in 1 .. i
          BY <3>1
        <4>5. s[j] = rows[j]
          BY <1>5
        <4>6. QED
          BY <4>3, <4>4, <4>5
      <3>4. CASE ~(b < bucket) /\ ~(k <= cursor[b])
        <4>1. b = bucket /\ k <= KeyAt(bucket, y) /\ begun[b][k] # 0
          BY <3>2, <3>4 DEF Due
        <4>2. store[b][k] # 0
          BY <1>1, <4>1
        <4>3. k \in Remaining(bucket)
          BY <1>1, <3>4, <4>1, <4>2, CountAssumption DEF Remaining, Keys
        <4>4. k \in PageKeys(bucket)
          BY <1>1, <1>3, <4>1, <4>3, PageKeysFirst
        <4>5. PICK x \in 1 .. n : KeyAt(bucket, x) = k
          BY <1>3, <4>4
        <4>6. x <= y
          <5>1. CASE y < x
            <6>1. KeyAt(bucket, y) < k /\ KeyAt(bucket, y) \in Nat /\ k \in Nat
              BY <1>3, <1>4, <4>5, <5>1
            <6>2. QED
              BY <4>1, <6>1
          <5>2. QED
            BY <5>1
        <4>7. m + x \in 1 .. i
          BY <3>1, <4>6
        <4>8. Matches(s[m + x], b, k)
          BY <1>8, <4>1, <4>5
        <4>9. QED
          BY <4>7, <4>8
      <3>5. QED
        BY <3>3, <3>4
    <2>3. QED
      BY <1>6, <2>1, <2>2
  <1>10. \A k \in PageKeys(bucket) : Found(s, bucket, k)
    <2> TAKE k \in PageKeys(bucket)
    <2>1. PICK x \in 1 .. n : KeyAt(bucket, x) = k
      BY <1>3
    <2>2. m + x \in 1 .. Len(s) /\ k \in Keys
      BY <1>1, <1>2, <1>4, <1>5
    <2>3. s[m + x].bucket = bucket /\ s[m + x].key = k /\ s[m + x].version = store[bucket][k]
      BY <1>2, <1>5, <2>1
    <2>4. Matches(s[m + x], bucket, k)
      BY <1>1, <2>2, <2>3 DEF Matches
    <2>5. QED
      BY <2>2, <2>4 DEF Found
  <1>11. QED
    BY <1>2, <1>5, <1>7, <1>9, <1>10 DEF m, n

(* What the listing has to show of its rows after a step.                  *)
LEMMA ListInvNext ==
    ASSUME NEW s, All' = s, begun' = begun, Ordered(s), Gapless(s),
           \A i \in 1 .. Len(s) : s[i].key <= cursor'[s[i].bucket],
           \A b \in Buckets, k \in Keys :
              begun[b][k] # 0 /\ (k <= cursor'[b] \/ Passed(b)') => Found(s, b, k)
    PROVE  ListInv'
  <1>1. Ordered(All)'
    BY DEF Ordered
  <1>2. ASSUME NEW i \in 1 .. Len(s), NEW b \in Buckets, NEW k \in Keys, Due(s[i], b, k)'
        PROVE  \E j \in 1 .. i : Matches(s[j], b, k)'
    <2>1. Due(s[i], b, k)
      BY <1>2 DEF Due
    <2>2. PICK j \in 1 .. i : Matches(s[j], b, k)
      BY <2>1 DEF Gapless
    <2>3. Matches(s[j], b, k)'
      BY <2>2 DEF Matches
    <2>4. QED
      BY <2>3
  <1>3. Gapless(All)'
    BY <1>2 DEF Gapless
  <1>4. ASSUME NEW b \in Buckets, NEW k \in Keys, begun[b][k] # 0, k <= cursor'[b] \/ Passed(b)'
        PROVE  Found(All, b, k)'
    <2>1. PICK j \in 1 .. Len(s) : Matches(s[j], b, k)
      BY <1>4 DEF Found
    <2>2. Matches(s[j], b, k)'
      BY <2>1 DEF Matches
    <2>3. QED
      BY <2>2 DEF Found
  <1>5. \A i \in 1 .. Len(All)' : All'[i].key <= cursor'[All'[i].bucket]
    OBVIOUS
  <1>6. \A b \in Buckets, k \in Keys :
           begun'[b][k] # 0 /\ (k <= cursor'[b] \/ Passed(b)') => Found(All, b, k)'
    BY <1>4
  <1>7. QED
    BY <1>1, <1>3, <1>5, <1>6 DEF ListInv

(* The objects that a page does not bring are in the checkpoint already.   *)
LEMMA RemainingCovers ==
    ASSUME TypeOK, ListInv, \A b \in Buckets, k \in Keys : begun[b][k] <= store[b][k],
           NEW k \in Keys, begun[bucket][k] # 0
    PROVE  Found(All, bucket, k) \/ k \in Remaining(bucket)
  <1>1. /\ bucket \in Buckets /\ cursor[bucket] \in 0 .. KeyCount
        /\ begun[bucket][k] \in Nat /\ store[bucket][k] \in Nat
    BY DEF TypeOK
  <1>2. store[bucket][k] # 0
    BY <1>1
  <1>3. CASE k <= cursor[bucket]
    BY <1>1, <1>3 DEF ListInv
  <1>4. CASE ~(k <= cursor[bucket])
    <2>1. k > cursor[bucket]
      BY <1>1, <1>4, CountAssumption DEF Keys
    <2>2. QED
      BY <1>2, <2>1 DEF Remaining
  <1>5. QED
    BY <1>3, <1>4

LEMMA NextBucketPasses ==
    ASSUME bucket \in Buckets, NextBucket, NEW b \in Buckets, Passed(b)'
    PROVE  b < bucket \/ b = bucket
  <1>1. bucket \in Nat /\ b \in Nat /\ BucketCount \in Nat /\ b <= BucketCount
    BY CountAssumption DEF Buckets
  <1>2. CASE bucket = BucketCount
    BY <1>1, <1>2
  <1>3. CASE bucket # BucketCount
    <2>1. pc' = "list" /\ bucket' = bucket + 1
      BY <1>3 DEF NextBucket
    <2>2. b < bucket + 1
      BY <2>1 DEF Passed
    <2>3. QED
      BY <1>1, <2>2
  <1>4. QED
    BY <1>2, <1>3

LEMMA ListKeeps ==
    ASSUME TypeOK, TypeOK', Phases, Phases', CoverInv, List, tail = "nothing"
    PROVE  ListInv'
  <1>1. /\ pc = "list" /\ page = <<>> /\ All = rows /\ ListInv
        /\ rows' = rows /\ begun' = begun /\ page' = PageRows(bucket)
        /\ \A b \in Buckets, k \in Keys : begun[b][k] <= store[b][k]
    BY EmptyPage DEF List, Phases, CoverInv, objects, checkpoint
  <1>2. bucket \in Buckets /\ bucket \in Nat /\ rows \in Seq(Rows) /\ Len(rows) \in Nat
    BY DEF TypeOK, Buckets
  <1>3. CASE page' = <<>>
    <2>1. Remaining(bucket) = {}
      <3>1. Len(PageRows(bucket)) = Cardinality(PageKeys(bucket))
        BY <1>2, PageRowsSeq DEF TypeOK
      <3>2. Cardinality(PageKeys(bucket)) = 0
        BY <1>1, <1>3, <3>1
      <3>3. PageKeys(bucket) = {}
        BY <1>2, <3>2, PageKeysType, KeysFinite, FS_EmptySet
      <3>4. QED
        BY <1>2, <3>3, PageKeysFirst
    <2>2. All' = All /\ cursor' = cursor /\ NextBucket
      BY <1>1, <1>3, ConcatEmptySeq DEF List, All, TypeOK
    <2>3. ASSUME NEW b \in Buckets, NEW k \in Keys, begun[b][k] # 0, k <= cursor[b] \/ Passed(b)'
          PROVE  Found(All, b, k)
      <3>1. k <= cursor[b] \/ b < bucket \/ b = bucket
        BY <1>2, <2>2, <2>3, NextBucketPasses
      <3>2. CASE b = bucket
        BY <1>1, <2>1, <2>3, <3>2, RemainingCovers
      <3>3. CASE k <= cursor[b] \/ b < bucket
        BY <1>1, <2>3, <3>3 DEF ListInv, Passed
      <3>4. QED
        BY <3>1, <3>2, <3>3
    <2>4. QED
      BY <1>1, <2>2, <2>3, ListInvNext DEF ListInv
  <1>4. CASE page' # <<>>
    <2> DEFINE s == rows \o PageRows(bucket)
               n == Cardinality(PageKeys(bucket))
               m == Len(rows)
    <2>1. /\ s \in Seq(Rows) /\ Ordered(s) /\ Gapless(s) /\ Len(s) = m + n
          /\ \A i \in 1 .. m : s[i] = rows[i]
          /\ \A i \in 1 .. n : s[m + i].bucket = bucket /\ s[m + i].key = KeyAt(bucket, i)
          /\ \A k \in PageKeys(bucket) : Found(s, bucket, k)
      BY <1>1, <1>4, PageCovers
    <2>2. /\ n \in Nat \ {0} /\ Len(PageRows(bucket)) = n
          /\ PageRows(bucket)[n].key = KeyAt(bucket, n)
      <3>1. /\ PageRows(bucket) \in Seq(Rows) /\ Len(PageRows(bucket)) = n
            /\ \A i \in 1 .. n : PageRows(bucket)[i].key = KeyAt(bucket, i)
        BY <1>2, PageRowsSeq DEF TypeOK
      <3>2. n \in Nat \ {0}
        BY <1>1, <1>4, <3>1
      <3>3. QED
        BY <3>1, <3>2
    <2>3. All' = s
      BY <1>1 DEF All
    <2>4. /\ pc' = "append" /\ bucket' = bucket /\ more' = (PageKeys(bucket) # Remaining(bucket))
          /\ cursor' = [cursor EXCEPT ![bucket] = KeyAt(bucket, n)]
      BY <1>1, <1>4, <2>2 DEF List
    <2>5. /\ cursor \in [Buckets -> 0 .. KeyCount]
          /\ \A i \in 1 .. n : /\ KeyAt(bucket, i) \in PageKeys(bucket)
                              /\ KeyAt(bucket, i) \in Nat /\ KeyAt(bucket, i) > cursor[bucket]
                              /\ KeyAt(bucket, i) <= KeyAt(bucket, n)
      <3>1. \A k \in PageKeys(bucket) : k \in Nat /\ k > cursor[bucket]
        BY <1>2, PageKeysType, KeysNat DEF PageKeys, Remaining
      <3>2. \A i \in 1 .. n : KeyAt(bucket, i) \in PageKeys(bucket)
        BY <1>2, KeyAtRank
      <3>3. \A i \in 1 .. n : i < n => KeyAt(bucket, i) < KeyAt(bucket, n)
        BY <1>2, <2>2, KeyAtOrder
      <3>4. \A i \in 1 .. n : KeyAt(bucket, i) <= KeyAt(bucket, n)
        BY <2>2, <3>1, <3>2, <3>3
      <3>5. QED
        BY <3>1, <3>2, <3>4 DEF TypeOK
    <2> HIDE DEF s, n, m
    <2>6. m \in Nat /\ m = Len(rows)
      BY <1>2 DEF m
    <2>7. ASSUME NEW i \in 1 .. Len(s)
          PROVE  s[i].key <= cursor'[s[i].bucket]
      <3>1. CASE i \in 1 .. m
        <4>1. /\ s[i] = rows[i] /\ rows[i].bucket \in Buckets /\ rows[i].key \in Nat
              /\ rows[i].key <= cursor[rows[i].bucket]
          BY <1>1, <1>2, <2>1, <2>6, <3>1, RowTypes DEF ListInv
        <4>2. CASE rows[i].bucket = bucket
          <5>1. n \in 1 .. n
            BY <2>2
          <5>2. KeyAt(bucket, n) > cursor[bucket] /\ KeyAt(bucket, n) \in Nat /\ cursor[bucket] \in Nat
            BY <1>2, <2>5, <5>1, CountAssumption
          <5>3. cursor'[bucket] = KeyAt(bucket, n)
            BY <1>2, <2>4, <2>5
          <5>4. QED
            BY <4>1, <4>2, <5>2, <5>3
        <4>3. CASE rows[i].bucket # bucket
          BY <2>4, <2>5, <4>1, <4>3
        <4>4. QED
          BY <4>2, <4>3
      <3>2. CASE i \notin 1 .. m
        <4>1. PICK x \in 1 .. n : i = m + x
          <5>1. i - m \in 1 .. n /\ i = m + (i - m)
            BY <2>1, <2>2, <2>6, <3>2
          <5>2. QED
            BY <5>1
        <4>2. cursor'[bucket] = KeyAt(bucket, n)
          BY <1>2, <2>4, <2>5
        <4>3. QED
          BY <2>1, <2>5, <4>1, <4>2
      <3>3. QED
        BY <3>1, <3>2
    <2>8. ASSUME NEW b \in Buckets, NEW k \in Keys, begun[b][k] # 0, k <= cursor'[b] \/ Passed(b)'
          PROVE  Found(s, b, k)
      <3>1. ASSUME Found(rows, b, k)
            PROVE  Found(s, b, k)
        <4>1. PICK j \in 1 .. m : Matches(rows[j], b, k)
          BY <2>6, <3>1 DEF Found
        <4>2. j \in 1 .. Len(s) /\ s[j] = rows[j]
          BY <2>1, <2>2, <2>6
        <4>3. QED
          BY <4>1, <4>2 DEF Found
      <3>2. CASE b # bucket
        <4>1. k <= cursor[b] \/ Passed(b)
          BY <1>1, <2>4, <2>5, <2>8, <3>2 DEF Passed
        <4>2. QED
          BY <1>1, <2>8, <3>1, <4>1 DEF ListInv
      <3>3. CASE b = bucket /\ ~Found(rows, b, k)
        <4>1. k \in Remaining(bucket)
          BY <1>1, <2>8, <3>3, RemainingCovers
        <4>2. CASE k <= cursor'[b]
          <5>1. n \in 1 .. n /\ cursor'[b] = KeyAt(bucket, n)
            BY <1>2, <2>2, <2>4, <2>5, <3>3
          <5>2. k \in PageKeys(bucket)
            BY <1>2, <2>5, <4>1, <4>2, <5>1, PageKeysFirst
          <5>3. QED
            BY <2>1, <3>3, <5>2
        <4>3. CASE Passed(b)'
          <5>1. ~more'
            BY <1>2, <2>4, <3>3, <4>3 DEF Passed
          <5>2. k \in PageKeys(bucket)
            BY <2>4, <4>1, <5>1
          <5>3. QED
            BY <2>1, <3>3, <5>2
        <4>4. QED
          BY <2>8, <4>2, <4>3
      <3>4. QED
        BY <3>1, <3>2, <3>3
    <2>9. QED
      BY <1>1, <2>1, <2>3, <2>7, <2>8, ListInvNext
  <1>5. QED
    BY <1>3, <1>4

LEMMA CoverNext ==
    ASSUME CoverInv, begun' = begun, NEW s, rows' = s, Ordered(s), Gapless(s),
           \A b \in Buckets, k \in Keys : begun[b][k] <= store'[b][k],
           tail' = "nothing" /\ pc' # "off" => ListInv',
           renamed' /\ tail' = "nothing" =>
              \A b \in Buckets, k \in Keys : begun[b][k] # 0 => Found(s, b, k)
    PROVE  CoverInv'
  <1>1. Ordered(rows)'
    BY DEF Ordered
  <1>2. ASSUME NEW i \in 1 .. Len(s), NEW b \in Buckets, NEW k \in Keys, Due(s[i], b, k)'
        PROVE  \E j \in 1 .. i : Matches(s[j], b, k)'
    <2>1. Due(s[i], b, k)
      BY <1>2 DEF Due
    <2>2. PICK j \in 1 .. i : Matches(s[j], b, k)
      BY <2>1 DEF Gapless
    <2>3. Matches(s[j], b, k)'
      BY <2>2 DEF Matches
    <2>4. QED
      BY <2>3
  <1>3. Gapless(rows)'
    BY <1>2 DEF Gapless
  <1>4. ASSUME renamed', tail' = "nothing", NEW b \in Buckets, NEW k \in Keys, begun'[b][k] # 0
        PROVE  Found(rows, b, k)'
    <2>1. PICK j \in 1 .. Len(s) : Matches(s[j], b, k)
      BY <1>4 DEF Found
    <2>2. Matches(s[j], b, k)'
      BY <2>1 DEF Matches
    <2>3. QED
      BY <2>2 DEF Found
  <1>5. QED
    BY <1>1, <1>3, <1>4 DEF CoverInv

(* A resume goes on behind the last keys.                                  *)
LEMMA StartCovers ==
    ASSUME TypeOK, Phases, CoverInv, Start
    PROVE  ListInv'
  <1>1. /\ pc = "off" /\ page = <<>> /\ bucket = 1 /\ pc' = "list"
        /\ rows' = rows /\ page' = page /\ bucket' = bucket /\ begun' = begun /\ cursor' = LastKeys
    BY DEF Start, Phases, objects
  <1>2. rows \in Seq(Rows) /\ All' = rows
    BY <1>1, EmptyPage DEF All, TypeOK
  <1>3. Ordered(rows) /\ Gapless(rows)
    BY DEF CoverInv
  <1>4. ASSUME NEW i \in 1 .. Len(rows)
        PROVE  rows[i].key <= LastKeys[rows[i].bucket]
    <2>1. /\ rows[i].bucket \in Buckets /\ rows[i].key \in Nat /\ i \in RowsOf(rows[i].bucket)
          /\ Len(rows) \in Nat
      BY <1>2, RowTypes DEF RowsOf
    <2>2. PICK j \in RowsOf(rows[i].bucket) : i <= j /\ LastKeys[rows[i].bucket] = rows[j].key
      BY <1>2, <2>1, LastKeysRight
    <2>3. j \in 1 .. Len(rows) /\ rows[j].bucket = rows[i].bucket
      BY DEF RowsOf
    <2>4. CASE i = j
      BY <2>1, <2>2, <2>4
    <2>5. CASE i # j
      <3>1. i < j
        BY <2>1, <2>2, <2>3, <2>5
      <3>2. rows[i].key < rows[j].key
        BY <1>3, <2>3, <3>1 DEF Ordered
      <3>3. rows[j].key \in Nat
        BY <1>2, <2>3, RowTypes
      <3>4. QED
        BY <2>1, <2>2, <3>2, <3>3
    <2>6. QED
      BY <2>4, <2>5
  <1>5. ASSUME NEW b \in Buckets, NEW k \in Keys, begun[b][k] # 0, k <= LastKeys[b] \/ Passed(b)'
        PROVE  Found(rows, b, k)
    <2>1. ~Passed(b)'
      BY <1>1 DEF Passed, Buckets
    <2>2. k <= LastKeys[b]
      BY <1>5, <2>1
    <2>3. LastKeys[b] # 0
      BY <2>2, KeysNat
    <2>4. PICK i \in RowsOf(b) : LastKeys[b] = rows[i].key
      BY <1>2, <2>3, LastKeysRight
    <2>5. i \in 1 .. Len(rows) /\ Due(rows[i], b, k)
      BY <1>5, <2>2, <2>4 DEF RowsOf, Due
    <2>6. PICK j \in 1 .. i : Matches(rows[j], b, k)
      BY <1>3, <2>5 DEF Gapless
    <2>7. j \in 1 .. Len(rows)
      BY <1>2, <2>5, RowTypes
    <2>8. QED
      BY <2>6, <2>7 DEF Found
  <1>6. QED
    BY <1>1, <1>2, <1>3, <1>4, <1>5, ListInvNext

LEMMA CoverStep == TypeOK /\ TypeOK' /\ Phases /\ Phases' /\ CoverInv /\ [Next]_vars => CoverInv'
  <1> SUFFICES ASSUME TypeOK, TypeOK', Phases, Phases', CoverInv, [Next]_vars PROVE CoverInv'
    OBVIOUS
  <1> DEFINE Grown == \A b \in Buckets, k \in Keys : begun[b][k] <= store[b][k]
             Complete == \A b \in Buckets, k \in Keys : begun[b][k] # 0 => Found(rows, b, k)
  <1>a. /\ Grown /\ Ordered(rows) /\ Gapless(rows) /\ rows \in Seq(Rows) /\ page \in Seq(Rows)
        /\ tail = "nothing" /\ pc # "off" => ListInv
        /\ renamed /\ tail = "nothing" => Complete
        /\ renamed => pc \in {"off", "summary"}
    BY DEF CoverInv, TypeOK, Phases
  <1>b. ListInv => /\ Ordered(All) /\ Gapless(All)
                   /\ \A i \in 1 .. Len(All) : All[i].key <= cursor[All[i].bucket]
                   /\ \A b \in Buckets, k \in Keys :
                        begun[b][k] # 0 /\ (k <= cursor[b] \/ Passed(b)) => Found(All, b, k)
    BY DEF ListInv
  <1>c. page = <<>> => All = rows
    BY EmptyPage
  <1>1. ASSUME NEW c \in Buckets, NEW l \in Keys, Write(c, l)
        PROVE  CoverInv'
    <2>1. UNCHANGED <<begun, checkpoint, listing>> /\ store' = [store EXCEPT ![c][l] = @ + 1]
      BY <1>1 DEF Write
    <2>2. /\ All' = All /\ \A b \in Buckets : Passed(b)' => Passed(b)
          /\ UNCHANGED <<rows, tail, renamed, pc, cursor, begun>>
      BY <2>1 DEF checkpoint, listing, All, Passed
    <2>3. \A b \in Buckets, k \in Keys : begun[b][k] <= store'[b][k]
      <3> TAKE b \in Buckets, k \in Keys
      <3>1. begun[b][k] <= store[b][k] /\ begun[b][k] \in Nat /\ store[b][k] \in Nat
        BY <1>a DEF TypeOK
      <3>2. store'[b][k] \in {store[b][k], store[b][k] + 1}
        BY <2>1 DEF TypeOK
      <3>3. QED
        BY <3>1, <3>2
    <2>4. tail' = "nothing" /\ pc' # "off" => ListInv'
      BY <1>a, <1>b, <2>2, ListInvNext
    <2>5. QED
      BY <1>a, <2>2, <2>3, <2>4, CoverNext
  <1>2. CASE Start
    <2>1. UNCHANGED <<store, begun, rows, renamed>> /\ ~renamed
      BY <1>2 DEF Start, objects
    <2>2. QED
      BY <1>2, <1>a, <2>1, StartCovers, CoverNext
  <1>3. CASE List
    <2>1. UNCHANGED <<store, begun, rows, tail, renamed>> /\ pc = "list"
      BY <1>3 DEF List, objects, checkpoint
    <2>2. QED
      BY <1>3, <1>a, <2>1, ListKeeps, CoverNext
  <1>4. CASE AppendPage
    <2>1. /\ UNCHANGED <<store, begun, renamed, cursor>> /\ pc = "append" /\ page' = <<>>
          /\ tail' = "nothing" <=> tail = "nothing"
      BY <1>4 DEF AppendPage, objects
    <2>2. CASE tail = "nothing"
      <3>1. rows' = All /\ All' = All
        <4>1. rows' = All
          BY <1>4, <2>2, AppendWhole
        <4>2. All' = rows'
          BY <2>1, ConcatEmptySeq DEF TypeOK, All
        <4>3. QED
          BY <4>1, <4>2
      <3>2. \A b \in Buckets : Passed(b)' => Passed(b)
        <4> SUFFICES ASSUME NEW b \in Buckets, Passed(b)' PROVE Passed(b)
          OBVIOUS
        <4>1. CASE more
          BY <1>4, <4>1 DEF AppendPage, Passed
        <4>2. CASE ~more
          <5>1. b < bucket \/ b = bucket
            BY <1>4, <4>2, NextBucketPasses DEF AppendPage, TypeOK
          <5>2. QED
            BY <2>1, <4>2, <5>1 DEF Passed
        <4>3. QED
          BY <4>1, <4>2
      <3>3. ListInv'
        BY <1>a, <1>b, <2>1, <2>2, <3>1, <3>2, ListInvNext
      <3>4. QED
        BY <1>a, <1>b, <2>1, <2>2, <3>1, <3>3, CoverNext
    <2>3. CASE tail # "nothing"
      <3>1. rows' = rows
        BY <1>4, <2>3 DEF AppendPage, Extend
      <3>2. QED
        BY <1>a, <2>1, <2>3, <3>1, CoverNext
    <2>4. QED
      BY <2>2, <2>3
  <1>5. CASE Rename
    <2>1. /\ UNCHANGED <<store, begun, rows, page, tail, cursor>> /\ pc = "rename" /\ page = <<>>
          /\ All' = All /\ \A b \in Buckets : Passed(b)
      BY <1>5 DEF Rename, objects, Phases, All, Passed
    <2>2. tail = "nothing" => ListInv'
      BY <1>a, <1>b, <2>1, ListInvNext
    <2>3. tail = "nothing" => Complete
      BY <1>a, <1>b, <1>c, <2>1
    <2>4. QED
      BY <1>a, <2>1, <2>2, <2>3, CoverNext
  <1>6. CASE Summarise
    <2>1. UNCHANGED <<store, begun, rows, tail, renamed>> /\ pc' = "off"
      BY <1>6 DEF Summarise, Stop, objects, checkpoint
    <2>2. QED
      BY <1>a, <2>1, CoverNext
  <1>7. CASE KillRewrite
    <2>1. UNCHANGED <<store, begun>> /\ tail' = "incomplete"
      BY <1>7 DEF KillRewrite, objects
    <2>2. PICK n \in 0 .. Len(rows) : rows' = SubSeq(rows, 1, n)
      BY <1>7 DEF KillRewrite
    <2>3. Ordered(rows') /\ Gapless(rows')
      BY <1>a, <2>2, CutCovers
    <2>4. QED
      BY <1>a, <2>1, <2>3, CoverNext
  <1>8. CASE KillAppend
    <2>1. UNCHANGED <<store, begun>> /\ tail' # "nothing" /\ pc = "append"
      BY <1>8 DEF KillAppend, objects
    <2>2. PICK n \in 0 .. Len(page) : Extend(n)
      BY <1>8 DEF KillAppend
    <2>3. Ordered(rows') /\ Gapless(rows')
      <3>1. CASE tail = "nothing"
        <4>1. rows' = rows \o SubSeq(page, 1, n)
          BY <2>2, <3>1 DEF Extend
        <4>2. QED
          BY <1>a, <1>b, <2>1, <3>1, <4>1, PartCovers
      <3>2. CASE tail # "nothing"
        BY <1>a, <2>2, <3>2 DEF Extend
      <3>3. QED
        BY <3>1, <3>2
    <2>4. QED
      BY <1>a, <2>1, <2>3, CoverNext
  <1>9. CASE Kill \/ RenameFails
    <2>1. UNCHANGED <<store, begun, rows, tail, renamed>> /\ pc' = "off"
      BY <1>9 DEF Kill, RenameFails, Stop, objects, checkpoint
    <2>2. QED
      BY <1>a, <2>1, CoverNext
  <1>10. CASE UNCHANGED <<objects, checkpoint, listing>>
    <2>1. /\ UNCHANGED <<store, begun, rows, tail, renamed, pc, cursor>>
          /\ All' = All /\ \A b \in Buckets : Passed(b)' => Passed(b)
      BY <1>10 DEF objects, checkpoint, listing, All, Passed
    <2>2. tail' = "nothing" /\ pc' # "off" => ListInv'
      BY <1>a, <1>b, <2>1, ListInvNext
    <2>3. QED
      BY <1>a, <2>1, <2>2, CoverNext
  <1>11. CASE Canonicalize
    BY <1>10, <1>11 DEF Canonicalize
  <1>12. CASE UNCHANGED vars
    BY <1>10, <1>12 DEF vars
  <1>13. QED
    BY <1>1, <1>2, <1>3, <1>4, <1>5, <1>6, <1>7, <1>8, <1>9, <1>11, <1>12 DEF Next, ListingStep

LEMMA InitCover == Init => CoverInv
  <1> SUFFICES ASSUME Init PROVE CoverInv
    OBVIOUS
  <1>1. Len(rows) = 0 /\ pc = "off" /\ renamed = FALSE
    BY DEF Init
  <1>2. \A b \in Buckets, k \in Keys : begun[b][k] <= store[b][k]
    <2>1. \A b \in Buckets, k \in Keys : begun[b][k] = store[b][k] /\ store[b][k] \in Nat
      BY DEF Init
    <2>2. QED
      BY <2>1
  <1>3. Ordered(rows) /\ Gapless(rows)
    BY <1>1 DEF Ordered, Gapless
  <1>4. QED
    BY <1>1, <1>2, <1>3 DEF CoverInv

LEMMA AtMostOne ==
    ASSUME NEW T, \A i, j \in T : i = j
    PROVE  Cardinality(T) <= 1
  <1>1. CASE T = {}
    <2>1. Cardinality(T) = 0
      BY <1>1, FS_EmptySet
    <2>2. QED
      BY <2>1
  <1>2. CASE T # {}
    <2>1. PICK i : T = {i}
      BY <1>2
    <2>2. Cardinality(T) = 1
      BY <2>1, FS_Singleton
    <2>3. QED
      BY <2>2
  <1>3. QED
    BY <1>1, <1>2

LEMMA CoverSuffices == TypeOK /\ CoverInv => InventoryCoversStore
  <1> SUFFICES ASSUME TypeOK, CoverInv, renamed, tail = "nothing", NEW b \in Buckets, NEW k \in Keys,
                      NEW at, at = {i \in 1 .. Len(rows) : rows[i].bucket = b /\ rows[i].key = k}
               PROVE  /\ Cardinality(at) <= 1
                      /\ begun[b][k] # 0 => \E i \in at : rows[i].version >= begun[b][k]
    BY DEF InventoryCoversStore
  <1>1. rows \in Seq(Rows) /\ Len(rows) \in Nat /\ begun[b][k] \in Nat /\ k \in Nat
    BY KeysNat DEF TypeOK
  <1>2. \A i, j \in at : i = j
    <2> SUFFICES ASSUME NEW i \in at, NEW j \in at, i < j PROVE FALSE
      BY <1>1
    <2>1. rows[i].key < rows[j].key
      BY DEF CoverInv, Ordered
    <2>2. QED
      BY <1>1, <2>1
  <1>3. Cardinality(at) <= 1
    BY <1>2, AtMostOne
  <1>4. ASSUME begun[b][k] # 0
        PROVE  \E i \in at : rows[i].version >= begun[b][k]
    <2>1. PICK j \in 1 .. Len(rows) : Matches(rows[j], b, k)
      BY <1>4 DEF CoverInv, Found
    <2>2. rows[j].version \in Nat
      BY <1>1, RowTypes
    <2>3. QED
      BY <1>1, <2>1, <2>2 DEF Matches
  <1>5. QED
    BY <1>3, <1>4

(* An inventory that reads to its end has every object of the beginning,   *)
(* exactly once and not older, whatever was killed, resumed or written in  *)
(* between (inventory_r2).                                                 *)
THEOREM ListingCovers == Spec => []InventoryCoversStore
  <1>1. TypeOK /\ Phases /\ CoverInv /\ [Next]_vars => (TypeOK /\ Phases /\ CoverInv)'
    BY StepType, PhasesStep, CoverStep
  <1>2. QED
    BY InitType, InitHash, InitCover, <1>1, CoverSuffices, PTL DEF Spec

-----------------------------------------------------------------------------
(* The canonical inventory is that of a renamed one, which stays as it is. *)

CanonInv ==
    canonical \notin {None, Partial} => renamed /\ tail = "nothing" /\ canonical = Listed

LEMMA RenamedStays ==
    ASSUME Phases, [Next]_vars, renamed
    PROVE  renamed' /\ tail' = tail /\ rows' = rows
  <1> USE DEF Phases
  <1>1. ASSUME NEW b \in Buckets, NEW k \in Keys, Write(b, k)
        PROVE  renamed' /\ tail' = tail /\ rows' = rows
    BY <1>1 DEF Write, checkpoint
  <1>2. CASE ListingStep
    BY <1>2 DEF ListingStep, List, AppendPage, Rename, RenameFails, Summarise, checkpoint
  <1>3. CASE Start \/ KillRewrite \/ KillAppend \/ Kill
    BY <1>3 DEF Start, KillRewrite, KillAppend, Kill, checkpoint
  <1>4. CASE Canonicalize \/ UNCHANGED vars
    BY <1>4 DEF Canonicalize, vars, checkpoint
  <1>5. QED
    BY <1>1, <1>2, <1>3, <1>4 DEF Next

LEMMA CanonStep == Phases /\ CanonInv /\ [Next]_vars => CanonInv'
  <1> SUFFICES ASSUME Phases, CanonInv, [Next]_vars, canonical' \notin {None, Partial} PROVE CanonInv'
    BY DEF CanonInv
  <1>1. CASE canonical' = canonical
    BY <1>1, RenamedStays DEF CanonInv, Listed
  <1>2. CASE canonical' # canonical
    <2>1. Canonicalize
      BY <1>2 DEF Next, ListingStep, Write, Start, List, AppendPage, Rename, RenameFails,
                  Summarise, KillRewrite, KillAppend, Kill, results, vars
    <2>2. QED
      BY <2>1 DEF Canonicalize, CanonInv, Listed, checkpoint
  <1>3. QED
    BY <1>1, <1>2

LEMMA CanonSuffices == TypeOK /\ CoverInv /\ CanonInv => CanonicalCoversStore
  <1> SUFFICES ASSUME TypeOK, CoverInv, CanonInv, canonical \notin {None, Partial},
                      NEW b \in Buckets, NEW k \in Keys, begun[b][k] # 0
               PROVE  \E r \in canonical : r.bucket = b /\ r.key = k
    BY DEF CanonicalCoversStore
  <1>1. Found(rows, b, k) /\ canonical = Listed
    BY DEF CanonInv, CoverInv
  <1>2. PICK j \in 1 .. Len(rows) : rows[j].bucket = b /\ rows[j].key = k
    BY <1>1 DEF Found, Matches
  <1>3. QED
    BY <1>1, <1>2 DEF Listed

(* The canonical inventory, to which the deletion is bound, has every      *)
(* object of the beginning (canonicalize_inventory).                       *)
THEOREM CanonicalCovers == Spec => []CanonicalCoversStore
  <1>1. /\ TypeOK /\ Phases /\ CoverInv /\ CanonInv /\ [Next]_vars
        => (TypeOK /\ Phases /\ CoverInv /\ CanonInv)'
    BY StepType, PhasesStep, CoverStep, CanonStep
  <1>2. Init => CanonInv
    BY DEF Init, CanonInv
  <1>3. QED
    BY InitType, InitHash, InitCover, <1>1, <1>2, CanonSuffices, PTL DEF Spec
=============================================================================
