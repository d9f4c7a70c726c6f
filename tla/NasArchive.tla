----------------------------- MODULE NasArchive -----------------------------
(***************************************************************************)
(* The evacuation of an object store to a mounted NAS.  Copy workers store *)
(* small objects in packs and larger ones apart: fetch, rename the payload *)
(* into place, write its receipt.  A watcher restarts workers that died.   *)
(* When all are complete the finalizer lists the store, or is handed an    *)
(* earlier listing, reconciles it with the receipts, rehashing every       *)
(* payload, and only if the coverage is complete deletes the objects it    *)
(* names in receipted batches.  The deletion goes by name: it takes        *)
(* whatever version the store holds by then.                               *)
(*                                                                         *)
(* The content of an object is its version, which its ETag identifies.  A  *)
(* unit is named after the objects in it, not after their contents.        *)
(***************************************************************************)
EXTENDS Integers, FiniteSets

F == INSTANCE Functions

CONSTANTS KeyCount,      \* objects, numbered in listing order
          Worker,
          Share,         \* Share[k]: the worker that object k falls to
          Size,          \* Size[k][v]: bytes of version v of object k
          Overhead,      \* bytes that frame an object inside a pack
          SmallBytes, PackBytes, MaxRecords, BatchSize,
          Absent,        \* no payload, no receipt
          Rotten,        \* a payload of the right size that lost its bytes
          PackRank,      \* order of the packs' directory names, a hash
          Initial,       \* what the store may hold at first
          MaxVersion, MaxWrites, MaxCrashes, MaxRot, MaxLate  \* bounds

Keys     == 1 .. KeyCount
Versions == 1 .. MaxVersion

ASSUME KeyCountAssumption == KeyCount \in Nat
ASSUME ShareAssumption == Share \in [Keys -> Worker]
ASSUME SizeAssumption == Size \in [Keys -> [Versions -> Nat]]
ASSUME LimitsAssumption ==
    {Overhead, SmallBytes, PackBytes} \subseteq Nat /\ {MaxRecords, BatchSize} \subseteq Nat \ {0}
ASSUME RankAssumption == PackRank \in [SUBSET Keys -> Nat]
ASSUME BoundsAssumption == {MaxVersion, MaxWrites, MaxCrashes, MaxRot, MaxLate} \subseteq Nat

VARIABLES
    r2,          \* r2[k]: version of object k in the store, 0 = none
    written,     \* written[k]: the newest version anyone has written
    payload,     \* payload[u]: content of the unit's payload on the NAS
    receipt,     \* receipt[u]: what the unit's COMPLETE receipt binds
    inventory,   \* the migration inventory: versions listed, 0 = not listed
    complete,    \* workers with a COMPLETE progress receipt for it
    noticed,     \* the worker whose report the watcher found not COMPLETE
    wpc, todo, fetched,    \* copy workers: next step, units left, staged bytes
    stage, cursor, final,  \* finalizer: step, position, the final inventory
    listings,    \* every raw listing completed so far
    deleted,     \* deleted[i]: objects named by deletion batch receipt i
    lost,        \* history: objects last deleted in a version not listed
    writes, crashes, rots, late

store     == <<r2, written, lost>>
archive   == <<payload, receipt>>
watcher   == <<complete, noticed>>
workers   == <<wpc, todo, fetched>>
finalizer == <<stage, cursor, final>>
listing   == <<inventory, listings>>
bounds    == <<writes, crashes, rots, late>>
vars      == <<store, archive, listing, watcher, workers, finalizer, deleted, bounds>>

Units == {[kind |-> "pack", keys |-> ks] : ks \in (SUBSET Keys) \ {{}}} \cup
         {[kind |-> "object", keys |-> {k}] : k \in Keys}

Torn == 0   \* the first bytes of a larger object

Contents == [Keys -> 0 .. MaxVersion]

Nothing == [k \in Keys |-> 0]

(* An empty store has no listing (see ListNext), hence no migration.       *)
ASSUME InitialAssumption == Initial \subseteq Contents \ {Nothing}
ASSUME SentinelAssumption ==
    Absent # Rotten /\ {Absent, Rotten} \cap (Contents \cup [records : Contents, content : Contents]) = {}

-----------------------------------------------------------------------------
(* The lanes of a worker.                                                  *)

Listed(inv) == {k \in Keys : inv[k] # 0}

Bytes(k) == Size[k][inventory[k]]
Frame(k) == Bytes(k) + Overhead

Mine(w) == {k \in Listed(inventory) : Share[k] = w}

Packable(w) == {k \in Mine(w) : Bytes(k) <= SmallBytes /\ Frame(k) <= PackBytes}

Large(w) == {k \in Mine(w) : Bytes(k) > SmallBytes}

(* The pack each small record falls into, numbered from 1.                 *)
Packing(w) ==
    LET at[k \in 0 .. KeyCount] ==
          IF k = 0 THEN [pack |-> 1, used |-> 0, records |-> 0]
          ELSE LET last == at[k - 1]
               IN  IF k \notin Packable(w) THEN last
                   ELSE IF last.records > 0 /\ \/ last.used + Frame(k) > PackBytes
                                               \/ last.records >= MaxRecords
                   THEN [pack |-> last.pack + 1, used |-> Frame(k), records |-> 1]
                   ELSE [pack |-> last.pack, used |-> last.used + Frame(k),
                         records |-> last.records + 1]
    IN  at

Packs(w) == {{k \in Packable(w) : Packing(w)[k].pack = n} : n \in 1 .. KeyCount} \ {{}}

(* Mutation: the group that is being filled at the end is not emitted.     *)
WorkUnitsDropsLast(w) ==
    {[kind |-> "pack", keys |-> g] :
        g \in {p \in Packs(w) : \E k \in Packable(w) : \A j \in p : j < k}} \cup
    {[kind |-> "object", keys |-> {k}] : k \in Large(w)}

WorkUnits(w) ==
    {[kind |-> "pack", keys |-> g] : g \in Packs(w)} \cup
    {[kind |-> "object", keys |-> {k}] : k \in Large(w)}

(* Packs first, in listing order.                                          *)
Precedes(u, t) ==
    \/ u.kind = "pack" /\ t.kind = "object"
    \/ u.kind = t.kind /\ \E k \in u.keys : \A j \in t.keys : k <= j

Current(w) == CHOOSE u \in todo[w] : \A t \in todo[w] : Precedes(u, t)

(* The length of the unit's file with these versions, framing aside.       *)
Total(u, versions) == F!SumFunction([k \in u.keys |-> Size[k][versions[k]]])

SameSize(u) == Total(u, receipt[u].records) = Total(u, inventory)

(* A unit whose receipt and payload agree, at the total size the inventory *)
(* gives it, is not copied again; its recorded metadata is not compared.   *)
Intact(u) == receipt[u] # Absent /\ payload[u] = receipt[u].content

Skippable(u) == Intact(u) /\ SameSize(u)

-----------------------------------------------------------------------------
Init ==
    /\ written \in Initial
    /\ r2 = written
    /\ payload = [u \in Units |-> Absent]
    /\ receipt = [u \in Units |-> Absent]
    /\ inventory = r2 /\ listings = {inventory}
    /\ complete = {} /\ noticed = {}
    /\ wpc = [w \in Worker |-> "off"]
    /\ todo = [w \in Worker |-> {}]
    /\ fetched = [w \in Worker |-> Nothing]
    /\ stage = "wait" /\ cursor = 0 /\ final = Nothing
    /\ deleted = [i \in 0 .. KeyCount |-> {}]
    /\ lost = {}
    /\ writes = 0 /\ crashes = 0 /\ rots = 0 /\ late = 0

(* A producer writes a new version of an object, at any time before the    *)
(* terminal receipt; what comes later is out of the evacuation's scope.    *)
Write(k) ==
    /\ writes < MaxWrites /\ written[k] < MaxVersion
    /\ stage # "done"
    /\ writes' = writes + 1
    /\ written' = [written EXCEPT ![k] = @ + 1]
    /\ r2' = [r2 EXCEPT ![k] = written'[k]]
    /\ lost' = lost \ {k}
    /\ UNCHANGED <<archive, listing, watcher, workers, finalizer, deleted, crashes, rots, late>>

(* The NAS damages a payload whose objects the store still holds, before   *)
(* the finalizer has rehashed it for the last time.                        *)
Rot(u) ==
    /\ rots < MaxRot /\ stage \in {"wait", "list", "verify"}
    /\ payload[u] \notin {Absent, Rotten}
    /\ \A k \in u.keys : r2[k] # 0
    /\ rots' = rots + 1
    /\ payload' = [payload EXCEPT ![u] = Rotten]
    /\ UNCHANGED <<store, receipt, listing, watcher, workers, finalizer, deleted,
                   writes, crashes, late>>

-----------------------------------------------------------------------------
(* Copy workers.                                                           *)

(* The watcher reads a report that is missing or not COMPLETE.             *)
Notice(w) ==
    /\ noticed = {} /\ w \notin complete
    /\ noticed' = {w}
    /\ UNCHANGED <<store, archive, listing, complete, workers, finalizer, deleted, bounds>>

(* Then it asks for the worker's session and starts the worker if there is *)
(* none: one that has finished since the report was read is started again. *)
Launch(w) ==
    /\ w \in noticed
    /\ noticed' = {}
    /\ IF wpc[w] # "off" \/ (w \in complete /\ late >= MaxLate)
       THEN UNCHANGED <<wpc, todo, late>>
       ELSE /\ wpc' = [wpc EXCEPT ![w] = "unit"]
            /\ todo' = [todo EXCEPT ![w] = WorkUnits(w)]
            /\ late' = IF w \in complete THEN late + 1 ELSE late
    /\ UNCHANGED <<store, archive, listing, complete, fetched, finalizer, deleted,
                   writes, crashes, rots>>

(* The worker ends without a COMPLETE receipt: an error, or a kill.        *)
Die(w) ==
    /\ wpc' = [wpc EXCEPT ![w] = "off"]
    /\ todo' = [todo EXCEPT ![w] = {}]
    /\ fetched' = [fetched EXCEPT ![w] = Nothing]

Crash(w) ==
    /\ wpc[w] # "off" /\ crashes < MaxCrashes
    /\ crashes' = crashes + 1
    /\ Die(w)
    /\ UNCHANGED <<store, archive, listing, watcher, finalizer, deleted, writes, rots, late>>

(* Through with a unit: the worker's report says RUNNING.                  *)
Done(w, u) ==
    /\ complete' = complete \ {w}
    /\ todo' = [todo EXCEPT ![w] = @ \ {u}]
    /\ wpc' = [wpc EXCEPT ![w] = "unit"]
    /\ fetched' = [fetched EXCEPT ![w] = Nothing]

(* Mutation: a payload of the right size needs only a new receipt.         *)
BeginAdopts(w) ==
    /\ wpc[w] = "unit" /\ todo[w] # {}
    /\ LET u == Current(w) IN
         \/ Skippable(u) /\ Done(w, u)
         \/ /\ ~Skippable(u) /\ payload[u] \notin {Absent, Rotten}
            /\ \A k \in u.keys : r2[k] = inventory[k]
            /\ fetched' = [fetched EXCEPT ![w] = payload[u]]
            /\ wpc' = [wpc EXCEPT ![w] = "receipt"]
            /\ UNCHANGED <<todo, complete>>
         \/ /\ ~Skippable(u) /\ payload[u] \in {Absent, Rotten}
            /\ wpc' = [wpc EXCEPT ![w] = "get"] /\ UNCHANGED <<todo, fetched, complete>>
    /\ UNCHANGED <<store, archive, listing, noticed, finalizer, deleted, bounds>>

(* Skip the next unit, or check its objects against the inventory.         *)
Begin(w) ==
    /\ wpc[w] = "unit" /\ todo[w] # {}
    /\ LET u == Current(w) IN
         \/ Skippable(u) /\ Done(w, u)
         \/ /\ ~Skippable(u) /\ UNCHANGED complete
            /\ IF \A k \in u.keys : r2[k] = inventory[k]
               THEN wpc' = [wpc EXCEPT ![w] = "get"] /\ UNCHANGED <<todo, fetched>>
               ELSE Die(w)
    /\ UNCHANGED <<store, archive, listing, noticed, finalizer, deleted, bounds>>

(* The bytes are read after the metadata was.  An object that shrank, or,  *)
(* outside a pack, changed size, fails the copy; of one that grew a pack   *)
(* keeps the declared number of bytes.                                     *)
Readable(u, k) ==
    /\ r2[k] # 0
    /\ IF u.kind = "pack" THEN Size[k][r2[k]] >= Bytes(k) ELSE Size[k][r2[k]] = Bytes(k)

Get(w) ==
    /\ wpc[w] = "get"
    /\ LET u == Current(w) IN
         IF \A k \in u.keys : Readable(u, k)
         THEN /\ fetched' = [fetched EXCEPT ![w] =
                    [k \in Keys |-> IF k \in u.keys /\ Size[k][r2[k]] = Bytes(k)
                                    THEN r2[k] ELSE Torn]]
              /\ wpc' = [wpc EXCEPT ![w] = "replace"]
              /\ UNCHANGED todo
         ELSE Die(w)
    /\ UNCHANGED <<store, archive, listing, watcher, finalizer, deleted, bounds>>

Replace(w) ==
    /\ wpc[w] = "replace"
    /\ payload' = [payload EXCEPT ![Current(w)] = fetched[w]]
    /\ wpc' = [wpc EXCEPT ![w] = "receipt"]
    /\ UNCHANGED <<store, receipt, listing, watcher, todo, fetched, finalizer, deleted, bounds>>

Recorded(u) == [k \in Keys |-> IF k \in u.keys THEN inventory[k] ELSE 0]

WriteReceipt(w) ==
    /\ wpc[w] = "receipt"
    /\ receipt' = [receipt EXCEPT ![Current(w)] =
                      [records |-> Recorded(Current(w)), content |-> fetched[w]]]
    /\ Done(w, Current(w))
    /\ UNCHANGED <<store, payload, listing, noticed, finalizer, deleted, bounds>>

(* Mutation: the completion reports of the workers share a file.           *)
FinishSharesFile(w) ==
    /\ wpc[w] = "unit" /\ todo[w] = {}
    /\ complete' = {w}
    /\ Die(w)
    /\ UNCHANGED <<store, archive, listing, noticed, finalizer, deleted, bounds>>

Finish(w) ==
    /\ wpc[w] = "unit" /\ todo[w] = {}
    /\ complete' = complete \cup {w}
    /\ Die(w)
    /\ UNCHANGED <<store, archive, listing, noticed, finalizer, deleted, bounds>>

WorkerStep(w) == Begin(w) \/ Get(w) \/ Replace(w) \/ WriteReceipt(w) \/ Finish(w)

-----------------------------------------------------------------------------
(* The finalizer.                                                          *)

(* All workers are complete: begin a fresh listing of the store, or take   *)
(* an existing one of whatever age (--raw-final-inventory).                *)
BeginFinal ==
    /\ stage = "wait" /\ complete = Worker
    /\ cursor' = 0
    /\ \/ stage' = "list" /\ final' = Nothing
       \/ stage' = "verify" /\ final' \in listings
    /\ UNCHANGED <<store, archive, listing, watcher, workers, deleted, bounds>>

Restart == stage' = "wait" /\ cursor' = 0 /\ final' = Nothing

(* The listing is paginated: one page at a time, in key order.  If all the *)
(* pages are empty there is no file to rename, which ends the run.         *)
ListNext ==
    /\ stage = "list"
    /\ LET next   == cursor + 1
           listed == [final EXCEPT ![next] = r2[next]]
       IN  IF next < KeyCount
           THEN stage' = "list" /\ cursor' = next /\ final' = listed /\ UNCHANGED listings
           ELSE IF listed = Nothing
           THEN Restart /\ UNCHANGED listings
           ELSE /\ stage' = "verify" /\ cursor' = 0 /\ final' = listed
                /\ listings' = listings \cup {listed}
    /\ UNCHANGED <<store, archive, inventory, watcher, workers, deleted, bounds>>

Receipts == {u \in Units : receipt[u] # Absent}

BadPayloads == {u \in Receipts : ~Intact(u)}

(* Receipts are read in the order of their paths, packs first; the first   *)
(* good one that names an object covers it.                                *)
ReadsBefore(u, t) ==
    \/ u.kind = "pack" /\ t.kind = "object"
    \/ u.kind = "pack" /\ t.kind = "pack" /\ PackRank[u.keys] <= PackRank[t.keys]
    \/ u = t

Covers(u, k) ==
    /\ u \in Receipts \ BadPayloads /\ k \in u.keys
    /\ \A t \in Receipts \ BadPayloads : k \in t.keys => ReadsBefore(u, t)

(* Mutation: the recorded metadata need not be that of the inventory.      *)
MatchedByIdentity(k) == \E u \in Receipts : Covers(u, k)

Matched(k) == \E u \in Receipts : Covers(u, k) /\ receipt[u].records[k] = final[k]

CoverageComplete == BadPayloads = {} /\ \A k \in Listed(final) : Matched(k)

(* Reconcile the final inventory with the archive.  If coverage is not     *)
(* complete the finalizer ends and nothing is deleted.                     *)
VerifyCoverage ==
    /\ stage = "verify"
    /\ IF CoverageComplete
       THEN stage' = "delete" /\ cursor' = 0 /\ UNCHANGED final
       ELSE Restart
    /\ UNCHANGED <<store, archive, listing, watcher, workers, deleted, bounds>>

(* The rows of the batch at the cursor, in inventory order.                *)
Position(k) == Cardinality({j \in Listed(final) : j < k})

Batch == {k \in Listed(final) : Position(k) \div BatchSize = cursor}

BatchDone == deleted[cursor] = Batch

(* A batch whose receipt names the same objects is not deleted again.      *)
SkipBatch ==
    /\ stage = "delete" /\ Batch # {} /\ BatchDone
    /\ cursor' = cursor + 1
    /\ UNCHANGED <<store, archive, listing, watcher, workers, stage, final, deleted, bounds>>

(* Some objects of the batch may fail to be deleted, which ends the run.   *)
DeleteBatch ==
    /\ stage = "delete" /\ Batch # {} /\ ~BatchDone
    /\ \E gone \in SUBSET Batch :
         /\ r2' = [k \in Keys |-> IF k \in gone THEN 0 ELSE r2[k]]
         /\ lost' = lost \cup {k \in gone : r2[k] \notin {0, final[k]}}
         /\ IF gone = Batch
            THEN stage' = "receipt" /\ UNCHANGED <<cursor, final, crashes>>
            ELSE Restart /\ crashes < MaxCrashes /\ crashes' = crashes + 1
    /\ UNCHANGED <<written, archive, listing, watcher, workers, deleted, writes, rots, late>>

ReceiptBatch ==
    /\ stage = "receipt"
    /\ deleted' = [deleted EXCEPT ![cursor] = Batch]
    /\ stage' = "delete" /\ cursor' = cursor + 1
    /\ UNCHANGED <<store, archive, listing, watcher, workers, final, bounds>>

(* The bucket must be empty now; if it is not the run fails.               *)
Terminal ==
    /\ stage = "delete" /\ Batch = {}
    /\ IF r2 = Nothing THEN stage' = "done" /\ UNCHANGED <<cursor, final>> ELSE Restart
    /\ UNCHANGED <<store, archive, listing, watcher, workers, deleted, bounds>>

FinalizerCrash ==
    /\ stage \notin {"wait", "done"} /\ crashes < MaxCrashes
    /\ crashes' = crashes + 1
    /\ Restart
    /\ UNCHANGED <<store, archive, listing, watcher, workers, deleted, writes, rots, late>>

(* When the archive can no longer cover the store and every worker is      *)
(* stopped, a new migration inventory is listed and its copy starts over;  *)
(* the archive keeps what it holds.                                        *)
MigrateAnew ==
    /\ stage = "wait" /\ \A w \in Worker : wpc[w] = "off"
    /\ r2 # Nothing /\ (inventory # r2 \/ BadPayloads # {})
    /\ inventory' = r2 /\ listings' = listings \cup {r2}
    /\ complete' = {} /\ noticed' = {}
    /\ UNCHANGED <<store, archive, workers, finalizer, deleted, bounds>>

FinalizerStep == \/ BeginFinal \/ ListNext \/ VerifyCoverage \/ SkipBatch
                 \/ DeleteBatch \/ ReceiptBatch \/ Terminal

Next == \/ \E k \in Keys : Write(k)
        \/ \E u \in Units : Rot(u)
        \/ \E w \in Worker : Notice(w) \/ Launch(w) \/ WorkerStep(w) \/ Crash(w)
        \/ MigrateAnew
        \/ FinalizerStep
        \/ FinalizerCrash

Spec == Init /\ [][Next]_vars

(* Every round of the watcher reads each worker's report, a worker goes on *)
(* while it lives, and the finalizer polls and is run again when it failed.*)
Fairness ==
    /\ \A w \in Worker : SF_vars(Notice(w)) /\ WF_vars(Launch(w)) /\ WF_vars(WorkerStep(w))
    /\ WF_vars(FinalizerStep)

-----------------------------------------------------------------------------
(* Every variable holds a value of its kind.                               *)
TypeOK ==
    /\ r2 \in Contents /\ written \in Contents
    /\ payload \in [Units -> {Absent, Rotten} \cup Contents]
    /\ receipt \in [Units -> {Absent} \cup [records : Contents, content : Contents]]
    /\ inventory \in Contents /\ final \in Contents
    /\ listings \subseteq Contents
    /\ complete \subseteq Worker /\ noticed \subseteq Worker
    /\ wpc \in [Worker -> {"off", "unit", "get", "replace", "receipt"}]
    /\ todo \in [Worker -> SUBSET Units]
    /\ fetched \in [Worker -> Contents]
    /\ stage \in {"wait", "list", "verify", "delete", "receipt", "done"}
    /\ cursor \in 0 .. KeyCount
    /\ deleted \in [0 .. KeyCount -> SUBSET Keys]
    /\ lost \subseteq Keys
    /\ {writes, crashes, rots, late} \subseteq Nat

(* A copy that reads back holds, for every object, the very version its    *)
(* receipt records, unless the object has been overwritten since: the      *)
(* window between metadata check and read (_fetch_pack_record) loses       *)
(* nothing that is still current.                                          *)
RecordedOrSuperseded ==
    \A u \in Units : Intact(u) => \A k \in u.keys :
        \/ receipt[u].content[k] = receipt[u].records[k]
        \/ receipt[u].records[k] < written[k]

Archived(k) ==
    \E u \in Units : Intact(u) /\ k \in u.keys /\ receipt[u].content[k] = written[k]

(* The newest version of an object that is no longer in the store is on    *)
(* the NAS, in a payload that agrees with its receipt.  There is one way   *)
(* to lose it, deletion by name: the object was rewritten between the      *)
(* listing the finalizer reconciled, fresh or supplied, and the batch.     *)
DeletedIsArchived ==
    \A k \in Keys \ lost : r2[k] = 0 /\ written[k] > 0 => Archived(k)

(* A worker with a COMPLETE receipt left out no object of its share: every *)
(* small and every large one is named by a receipt (the two lanes and the  *)
(* last, partly filled pack of migrate_worker).                            *)
CompleteWorkersCoverShare ==
    \A w \in complete : \A k \in Mine(w) : \E u \in Receipts : k \in u.keys

(* No payload is renamed over from the reconciliation to the end of the    *)
(* deletion, not even by a worker that the watcher started again.          *)
PayloadsStay ==
    [][(stage \in {"delete", "receipt"}) => UNCHANGED payload]_vars

(* About to list a store that is empty already: the finalizer was killed   *)
(* after its last deletion and before its terminal receipt.                *)
Emptied == stage \in {"wait", "list"} /\ r2 = Nothing

(* Objects that are written once, and payloads that stay as they were      *)
(* written: then the store is emptied, through any finite number of worker *)
(* and finalizer failures, and the finalizer gets its terminal receipt     *)
(* unless it has to list the empty store.                                  *)
Evacuates ==
    [](writes = 0 /\ rots = 0) =>
        <>(r2 = Nothing) /\ ([]~Emptied => <>(stage = "done"))
=============================================================================
