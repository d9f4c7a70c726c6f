----------------------------- MODULE Inventory -----------------------------
(***************************************************************************)
(* inventory_r2 and canonicalize_inventory.  The listing of the buckets is *)
(* appended, page by page, to a checkpoint; a killed listing is resumed    *)
(* behind the last key the checkpoint holds of each bucket; when all       *)
(* buckets are listed the checkpoint is renamed and a summary with its     *)
(* hash is written.  The canonical inventory is made from a renamed one.   *)
(*                                                                         *)
(* A checkpoint is plain text, of which a resume cuts off an incomplete    *)
(* last line, or a series of gzip members, one per page, of which an       *)
(* incomplete last member stays where it is.  A reader stops, or fails, at *)
(* that member: the model keeps the rows that can be read and says what    *)
(* is behind them.                                                         *)
(***************************************************************************)
EXTENDS Integers, Sequences, FiniteSets

CONSTANTS BucketCount, KeyCount,   \* buckets, and keys in each, in listing order
          PageSize,
          Modes,                   \* gzip checkpoints or plain ones, or both
          None,                    \* no summary, no canonical inventory
          Partial,                 \* a canonical inventory whose writer was killed
          MaxVersion, MaxWrites, MaxKills   \* bounds

Buckets == 1 .. BucketCount
Keys    == 1 .. KeyCount

ASSUME CountAssumption == BucketCount \in Nat \ {0} /\ KeyCount \in Nat
ASSUME PageAssumption == PageSize \in Nat \ {0}
ASSUME ModesAssumption == Modes \subseteq BOOLEAN
ASSUME BoundsAssumption == MaxVersion \in Nat \ {0} /\ {MaxWrites, MaxKills} \subseteq Nat

Rows == [bucket : Buckets, key : Keys, version : 1 .. MaxVersion]

ASSUME SentinelAssumption == None # Partial

VARIABLES
    store,     \* store[b][k]: version of the object, 0 = there is none
    begun,     \* the store when the listing was first started
    gzip,      \* the checkpoint's form
    rows,      \* the rows of the checkpoint that can be read
    tail,      \* behind them: nothing, an incomplete page, or more pages
    renamed,   \* the checkpoint has its final name
    summary,   \* the rows the summary's hash was computed from
    canonical, \* the rows of the canonical inventory
    pc, bucket, cursor,  \* the listing: next step, bucket, last keys
    page, more,          \* the page at hand; more pages follow in its bucket
    digest,    \* the rows hashed so far
    writes, kills

objects    == <<store, begun>>
checkpoint == <<gzip, rows, tail, renamed>>
results    == <<summary, canonical>>
listing    == <<pc, bucket, cursor, page, more, digest>>
bounds     == <<writes, kills>>
vars       == <<objects, checkpoint, results, listing, bounds>>

-----------------------------------------------------------------------------
(* Pages and cursors.                                                      *)

(* The keys behind the cursor, which is exclusive.                         *)
Remaining(b) == {k \in Keys : k > cursor[b] /\ store[b][k] # 0}

Smaller(S, k) == Cardinality({j \in S : j < k})

PageKeys(b) == {k \in Remaining(b) : Smaller(Remaining(b), k) < PageSize}

(* The i-th key of the page.                                               *)
KeyAt(b, i) == CHOOSE k \in PageKeys(b) : Smaller(PageKeys(b), k) = i - 1

PageRows(b) ==
    [i \in 1 .. Cardinality(PageKeys(b)) |->
        [bucket |-> b, key |-> KeyAt(b, i), version |-> store[b][KeyAt(b, i)]]]

(* The last key that the checkpoint holds of each bucket.                  *)
RowsOf(b) == {i \in 1 .. Len(rows) : rows[i].bucket = b}

LastKeys ==
    [b \in Buckets |->
        IF RowsOf(b) = {} THEN 0
        ELSE rows[CHOOSE i \in RowsOf(b) : \A j \in RowsOf(b) : j <= i].key]

-----------------------------------------------------------------------------
Init ==
    /\ store \in [Buckets -> [Keys -> 0 .. 1]]
    /\ begun = store
    /\ gzip \in Modes
    /\ rows = <<>> /\ tail = "nothing" /\ renamed = FALSE
    /\ summary = None /\ canonical = None
    /\ pc = "off" /\ bucket = 1 /\ cursor = [b \in Buckets |-> 0]
    /\ page = <<>> /\ more = FALSE /\ digest = <<>>
    /\ writes = 0 /\ kills = 0

(* A producer writes an object, or creates one.                            *)
Write(b, k) ==
    /\ writes < MaxWrites /\ store[b][k] < MaxVersion
    /\ writes' = writes + 1
    /\ store' = [store EXCEPT ![b][k] = @ + 1]
    /\ UNCHANGED <<begun, checkpoint, results, listing, kills>>

-----------------------------------------------------------------------------
(* inventory_r2.                                                           *)

Stop == /\ pc' = "off" /\ bucket' = 1 /\ cursor' = [b \in Buckets |-> 0]
        /\ page' = <<>> /\ more' = FALSE /\ digest' = <<>>

(* Mutation: an existing checkpoint is refused.                            *)
StartAfresh ==
    /\ pc = "off" /\ ~renamed /\ rows = <<>> /\ tail = "nothing"
    /\ pc' = "list" /\ digest' = <<>> /\ cursor' = LastKeys
    /\ UNCHANGED <<objects, gzip, rows, renamed, tail, results, bucket, page, more, bounds>>

(* Mutation: the hash of a resumed listing starts anew.                    *)
StartHashAnew ==
    /\ pc = "off" /\ ~renamed
    /\ pc' = "list" /\ digest' = <<>> /\ cursor' = LastKeys
    /\ tail' = IF gzip THEN tail ELSE "nothing"
    /\ UNCHANGED <<objects, gzip, rows, renamed, results, bucket, page, more, bounds>>

(* Start the listing, or resume it; one that was renamed is not repeated.  *)
(* Of a plain checkpoint the incomplete last line is cut off.  A gzip      *)
(* checkpoint with pages behind an incomplete one may also fail to read.   *)
Start ==
    /\ pc = "off" /\ ~renamed
    /\ pc' = "list" /\ digest' = rows /\ cursor' = LastKeys
    /\ tail' = IF gzip THEN tail ELSE "nothing"
    /\ UNCHANGED <<objects, gzip, rows, renamed, results, bucket, page, more, bounds>>

(* The plain checkpoint is written anew by a resume, which may be killed   *)
(* before it is done.                                                      *)
KillRewrite ==
    /\ pc = "off" /\ ~renamed /\ ~gzip /\ rows # <<>> /\ kills < MaxKills
    /\ kills' = kills + 1
    /\ \E n \in 0 .. Len(rows) : rows' = SubSeq(rows, 1, n)
    /\ tail' = "incomplete"
    /\ UNCHANGED <<objects, gzip, renamed, results, listing, writes>>

NextBucket ==
    /\ pc' = IF bucket = BucketCount THEN "rename" ELSE "list"
    /\ bucket' = IF bucket = BucketCount THEN 1 ELSE bucket + 1

(* Mutation: the listing goes on behind the last key of any bucket.        *)
ListBehindAny ==
    /\ pc = "list"
    /\ page' = PageRows(bucket)
    /\ more' = (PageKeys(bucket) # Remaining(bucket))
    /\ digest' = digest \o page'
    /\ IF page' = <<>>
       THEN NextBucket /\ UNCHANGED cursor
       ELSE /\ cursor' = [b \in Buckets |-> page'[Len(page')].key]
            /\ pc' = "append" /\ UNCHANGED bucket
    /\ UNCHANGED <<objects, checkpoint, results, bounds>>

(* Ask for the next page of the bucket; the answer tells if it is the last.*)
List ==
    /\ pc = "list"
    /\ page' = PageRows(bucket)
    /\ more' = (PageKeys(bucket) # Remaining(bucket))
    /\ digest' = digest \o page'
    /\ IF page' = <<>>
       THEN NextBucket /\ UNCHANGED cursor
       ELSE /\ cursor' = [cursor EXCEPT ![bucket] = page'[Len(page')].key]
            /\ pc' = "append" /\ UNCHANGED bucket
    /\ UNCHANGED <<objects, checkpoint, results, bounds>>

(* n rows of the page reach the checkpoint.                                *)
Extend(n) == rows' = IF tail = "nothing" THEN rows \o SubSeq(page, 1, n) ELSE rows

AppendPage ==
    /\ pc = "append"
    /\ Extend(Len(page))
    /\ tail' = IF tail = "nothing" THEN "nothing" ELSE "pages"
    /\ IF more THEN pc' = "list" /\ UNCHANGED bucket ELSE NextBucket
    /\ page' = <<>>
    /\ UNCHANGED <<objects, gzip, renamed, results, cursor, more, digest, bounds>>

(* Killed while it appends, the listing leaves the complete lines of a     *)
(* part of the page; of a gzip member they can all be there.               *)
KillAppend ==
    /\ pc = "append" /\ kills < MaxKills
    /\ kills' = kills + 1
    /\ \E n \in 0 .. Len(page) : (n < Len(page) \/ gzip) /\ Extend(n)
    /\ tail' = IF tail = "nothing" THEN "incomplete" ELSE "pages"
    /\ Stop
    /\ UNCHANGED <<objects, gzip, renamed, results, writes>>

Kill ==
    /\ pc # "off" /\ kills < MaxKills
    /\ kills' = kills + 1
    /\ Stop
    /\ UNCHANGED <<objects, checkpoint, results, writes>>

(* The checkpoint exists once an append to it has begun: if all pages were *)
(* empty there is none, and the rename fails.                              *)
Exists == rows # <<>> \/ tail # "nothing"

Rename ==
    /\ pc = "rename" /\ Exists
    /\ renamed' = TRUE
    /\ pc' = "summary"
    /\ UNCHANGED <<objects, gzip, rows, tail, results, bucket, cursor, page, more, digest, bounds>>

RenameFails ==
    /\ pc = "rename" /\ ~Exists
    /\ Stop
    /\ UNCHANGED <<objects, checkpoint, results, bounds>>

Summarise ==
    /\ pc = "summary"
    /\ summary' = digest
    /\ Stop
    /\ UNCHANGED <<objects, checkpoint, canonical, bounds>>

-----------------------------------------------------------------------------
(* canonicalize_inventory.                                                 *)

Listed == {rows[i] : i \in 1 .. Len(rows)}

Conflicting == \E r, s \in Listed : r.bucket = s.bucket /\ r.key = s.key /\ r # s

(* The inventory, under its final name, is made canonical if it reads to   *)
(* its end without conflicting rows, unless an earlier attempt has left    *)
(* something.                                                              *)
Canonicalize ==
    /\ renamed /\ canonical = None
    /\ tail = "nothing" /\ ~Conflicting
    /\ \/ canonical' = Listed /\ UNCHANGED kills
       \/ kills < MaxKills /\ kills' = kills + 1 /\ canonical' = Partial
    /\ UNCHANGED <<objects, checkpoint, summary, listing, writes>>

ListingStep == List \/ AppendPage \/ Rename \/ RenameFails \/ Summarise

Next == \/ \E b \in Buckets, k \in Keys : Write(b, k)
        \/ Start \/ ListingStep
        \/ KillRewrite \/ KillAppend \/ Kill
        \/ Canonicalize

Spec == Init /\ [][Next]_vars

(* A listing goes on, and one that was killed is resumed.                  *)
FairSpec == Spec /\ WF_vars(ListingStep) /\ WF_vars(Start)

-----------------------------------------------------------------------------
(* Every variable holds a value of its kind.                               *)
TypeOK ==
    /\ {store, begun} \subseteq [Buckets -> [Keys -> 0 .. MaxVersion]]
    /\ gzip \in BOOLEAN
    /\ rows \in Seq(Rows)
    /\ tail \in {"nothing", "incomplete", "pages"}
    /\ renamed \in BOOLEAN
    /\ summary = None \/ summary \in Seq(Rows)
    /\ canonical \in {None, Partial} \/ canonical \in SUBSET Rows
    /\ pc \in {"off", "list", "append", "rename", "summary"}
    /\ bucket \in Buckets
    /\ cursor \in [Buckets -> 0 .. KeyCount]
    /\ page \in Seq(Rows) /\ digest \in Seq(Rows)
    /\ more \in BOOLEAN
    /\ {writes, kills} \subseteq Nat

(* The hash in the summary is that of the rows in the inventory, whatever  *)
(* part of them the run found in the checkpoint and whatever it listed.    *)
SummaryBindsRows == summary # None /\ tail = "nothing" => summary = rows

(* An inventory that reads to its end has every object that was in the     *)
(* store when the listing began, exactly once, in a version not older, in  *)
(* spite of kills, resumes and writes in between.                          *)
InventoryCoversStore ==
    renamed /\ tail = "nothing" => \A b \in Buckets, k \in Keys :
        LET at == {i \in 1 .. Len(rows) : rows[i].bucket = b /\ rows[i].key = k}
        IN  /\ Cardinality(at) <= 1
            /\ begun[b][k] # 0 => \E i \in at : rows[i].version >= begun[b][k]

(* So has the canonical inventory, to which the deletion is bound.         *)
CanonicalCoversStore ==
    canonical \notin {None, Partial} => \A b \in Buckets, k \in Keys :
        begun[b][k] # 0 => \E r \in canonical : r.bucket = b /\ r.key = k

(* A listing ends with a summary, through any number of kills, unless the  *)
(* store stays empty, the listing was killed between rename and summary,   *)
(* or pages were appended behind an incomplete one.                        *)
ListingCompletes ==
    /\ <>(\E b \in Buckets, k \in Keys : store[b][k] # 0)
    /\ []~(\/ tail = "pages"
           \/ renamed /\ summary = None /\ pc # "summary")
    => <>(summary # None)

(* A completed inventory reads back to its end: an incomplete page that a  *)
(* kill left in the checkpoint does no harm to what a resume appends.      *)
CompleteInventoryReads == summary # None => tail = "nothing"
=============================================================================
