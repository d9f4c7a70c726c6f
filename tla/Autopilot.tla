----------------------------- MODULE Autopilot -----------------------------
(***************************************************************************)
(* The controller of the remaining sources and the processes around it.    *)
(* Sources advance one after the other: a storage guard, download,         *)
(* extraction, one worker process per partition, publication of the        *)
(* packages, verification, compaction, release of the local payload, and   *)
(* the source's receipt.  A shell loop starts the controller again until   *)
(* it reports COMPLETE.                                                    *)
(*                                                                         *)
(* Workers run in sessions of their own and outlive a controller that dies *)
(* or gives up.  A worker fills its partition's SQLite database in one     *)
(* transaction; SQLite keeps what was committed in a write-ahead log, which*)
(* the last connection to close copies into the database file.             *)
(***************************************************************************)
EXTENDS Integers, FiniteSets

CONSTANTS SourceCount,      \* queued sources, numbered in registry order
          PartitionCount,
          RawSize, TreeSize, DerivedSize,   \* bytes each source stages
          Envelope,         \* Envelope[s]: multiplied estimate of source s
          Reserve, Capacity,
          MaxWorkers,       \* bound: live workers of one partition
          MaxKills,         \* bound: controllers that fail or are killed
          MaxDeaths         \* bound: workers that fail or are killed

Sources    == 1 .. SourceCount
Partitions == 1 .. PartitionCount
Slots      == 1 .. MaxWorkers

ASSUME CountAssumption == {SourceCount, PartitionCount} \subseteq Nat \ {0}
ASSUME BoundsAssumption == MaxWorkers \in Nat \ {0} /\ {MaxKills, MaxDeaths} \subseteq Nat
ASSUME StorageAssumption ==
    /\ {RawSize, TreeSize, DerivedSize, Envelope} \subseteq [Sources -> Nat]
    /\ {Reserve, Capacity} \subseteq Nat
ASSUME EnvelopeAssumption ==
    \A s \in Sources : RawSize[s] + TreeSize[s] + DerivedSize[s] <= Envelope[s]

VARIABLES
    raw,       \* raw[s]: the download, which is renamed when it is whole
    tree,      \* tree[s]: the extracted files, "gutted" = marked but incomplete
    derived,   \* derived[s]: derived streams are on the disk
    db, wal,   \* db[s][p]: the database file; wal[s][p]: rows only in its log
    linked,    \* linked[s][p]: slots whose worker has that database open
    receipt,   \* receipt[s][p]: the partition's COMPLETE receipt
    worker,    \* worker[s][p][n]: where the process is
    package,   \* package[s][p]: the database in the published package
    canonical, \* canonical[s]: the source is compacted
    done,      \* done[s]: the source's COMPLETE receipt
    pc, cur, part,  \* the controller: next step, source, partition or path
    children,  \* children[p]: its worker that runs, 0 = none, Failed = it did
    staged,    \* the database copied into the outbox
    kills, deaths

disk    == <<raw, tree, derived>>
shards  == <<db, wal, linked, receipt, worker>>
remote  == <<package, canonical>>
control == <<pc, cur, part, children, staged>>
bounds  == <<kills, deaths>>
vars    == <<disk, shards, remote, done, control, bounds>>

Failed == -1

NoChildren == [p \in Partitions |-> 0]

-----------------------------------------------------------------------------
(* Storage.                                                                *)

Used(s) == (IF raw[s] # "none" THEN RawSize[s] ELSE 0)
         + (IF tree[s] # "none" THEN TreeSize[s] ELSE 0)
         + (IF derived[s] THEN DerivedSize[s] ELSE 0)

Free ==
    LET free[s \in 0 .. SourceCount] == IF s = 0 THEN Capacity ELSE free[s - 1] - Used(s)
    IN  free[SourceCount]

(* The guard asks for the whole envelope, whatever of it is already used.  *)
SafeToStage(s) == Free >= Envelope[s] + Reserve

-----------------------------------------------------------------------------
Init ==
    /\ raw = [s \in Sources |-> "none"]
    /\ tree = [s \in Sources |-> "none"]
    /\ derived = [s \in Sources |-> FALSE]
    /\ db = [s \in Sources |-> [p \in Partitions |-> "none"]]
    /\ wal = [s \in Sources |-> [p \in Partitions |-> FALSE]]
    /\ linked = [s \in Sources |-> [p \in Partitions |-> {}]]
    /\ receipt = [s \in Sources |-> [p \in Partitions |-> FALSE]]
    /\ worker = [s \in Sources |-> [p \in Partitions |-> [n \in Slots |-> "none"]]]
    /\ package = [s \in Sources |-> [p \in Partitions |-> "none"]]
    /\ canonical = [s \in Sources |-> FALSE]
    /\ done = [s \in Sources |-> FALSE]
    /\ pc = "off" /\ cur = 1 /\ part = 1
    /\ children = NoChildren /\ staged = "none"
    /\ kills = 0 /\ deaths = 0

(* The controller ends without COMPLETE; its workers go on.                *)
Stop == pc' = "off" /\ cur' = 1 /\ part' = 1 /\ children' = NoChildren /\ staged' = "none"

Goto(step) == pc' = step /\ part' = 1 /\ UNCHANGED <<cur, children, staged>>

(* The retry loop starts the controller.                                   *)
Start ==
    /\ pc = "off"
    /\ Goto("source")
    /\ UNCHANGED <<disk, shards, remote, done, bounds>>

(* An outage fails the controller's command, or the controller is killed,  *)
(* and its command with it: a publication or a compaction that survives    *)
(* the controller that called it is left out, unlike the workers.          *)
(* A removal of the extracted files that is cut short may leave the marker.*)
Kill ==
    /\ pc \notin {"off", "done"} /\ kills < MaxKills
    /\ kills' = kills + 1
    /\ \/ UNCHANGED tree
       \/ /\ pc = "release" /\ part = 2 /\ tree[cur] # "none"
          /\ tree' = [tree EXCEPT ![cur] = "gutted"]
    /\ Stop
    /\ UNCHANGED <<raw, derived, shards, remote, done, deaths>>

-----------------------------------------------------------------------------
(* Acquisition.                                                            *)

(* Skip a source with a COMPLETE receipt; stage another one if the storage *)
(* guard allows, or pause.                                                 *)
BeginSource ==
    /\ pc = "source"
    /\ IF done[cur]
       THEN IF cur = SourceCount THEN Goto("done")
            ELSE cur' = cur + 1 /\ UNCHANGED <<pc, part, children, staged>>
       ELSE IF SafeToStage(cur) THEN Goto("download") ELSE Stop
    /\ UNCHANGED <<disk, shards, remote, done, bounds>>

(* The bytes go to a .part file, behind those an earlier attempt left.  A  *)
(* .part file that lacks nothing asks for an empty range, which is refused.*)
Download ==
    /\ pc = "download"
    /\ \/ raw[cur] = "done" /\ Goto("extract") /\ UNCHANGED raw
       \/ /\ raw[cur] = "none"
          /\ raw' = [raw EXCEPT ![cur] = "part"] /\ UNCHANGED control
       \/ /\ raw[cur] = "part"
          /\ raw' = [raw EXCEPT ![cur] = "whole"] /\ Goto("rename")
       \/ raw[cur] = "whole" /\ Stop /\ UNCHANGED raw
    /\ UNCHANGED <<tree, derived, shards, remote, done, bounds>>

Rename ==
    /\ pc = "rename"
    /\ raw' = [raw EXCEPT ![cur] = "done"]
    /\ Goto("extract")
    /\ UNCHANGED <<tree, derived, shards, remote, done, bounds>>

(* The marker that makes the tree "ready" is written last.                 *)
Extract ==
    /\ pc = "extract"
    /\ \/ tree[cur] \in {"ready", "gutted"} /\ Goto("launch") /\ UNCHANGED tree
       \/ /\ tree[cur] = "none"
          /\ tree' = [tree EXCEPT ![cur] = "partial"] /\ UNCHANGED control
       \/ /\ tree[cur] = "partial"
          /\ tree' = [tree EXCEPT ![cur] = "ready"] /\ Goto("launch")
    /\ UNCHANGED <<raw, derived, shards, remote, done, bounds>>

-----------------------------------------------------------------------------
(* Partitions.                                                             *)

Live == {"new", "ready", "open", "write", "commit"}

FreeSlots(s, p) == {n \in Slots : worker[s][p][n] = "none"}

NextPart == IF part = PartitionCount THEN "poll" ELSE "launch"

(* Launch a worker for the next partition without a COMPLETE receipt,      *)
(* whether or not one of an earlier controller is still at work on it.     *)
Launch ==
    /\ pc = "launch"
    /\ \/ receipt[cur][part] /\ UNCHANGED <<worker, children>>
       \/ /\ ~receipt[cur][part]
          /\ FreeSlots(cur, part) # {}
          /\ LET n == CHOOSE n \in FreeSlots(cur, part) : \A m \in FreeSlots(cur, part) : n <= m
             IN  /\ worker' = [worker EXCEPT ![cur][part][n] = "new"]
                 /\ children' = [children EXCEPT ![part] = n]
    /\ pc' = NextPart
    /\ part' = IF part = PartitionCount THEN 1 ELSE part + 1
    /\ UNCHANGED <<disk, db, wal, linked, receipt, remote, done, cur, staged, bounds>>

(* Mutation: a failed worker is not noticed.                               *)
PollSuccesses ==
    /\ pc = "poll" /\ children = NoChildren
    /\ Goto("publish")
    /\ UNCHANGED <<disk, shards, remote, done, bounds>>

(* The controller gives up as soon as one worker failed.                   *)
Poll ==
    /\ pc = "poll"
    /\ \/ (\E p \in Partitions : children[p] = Failed) /\ Stop
       \/ children = NoChildren /\ Goto("publish")
    /\ UNCHANGED <<disk, shards, remote, done, bounds>>

At(s, p, n, state) ==
    /\ worker' = [worker EXCEPT ![s][p][n] = state]
    /\ UNCHANGED control

(* The process ends; a controller that launched it sees its exit code.     *)
Ends(s, p, n, code) ==
    /\ worker' = [worker EXCEPT ![s][p][n] = "none"]
    /\ children' = [children EXCEPT ![p] = IF s = cur /\ @ = n THEN code ELSE @]
    /\ UNCHANGED <<pc, cur, part, staged>>

(* The log is copied to the database file and removed.                     *)
Settle(s, p, last) ==
    IF last /\ wal[s][p]
    THEN /\ db' = [db EXCEPT ![s][p] = "rows"]
         /\ wal' = [wal EXCEPT ![s][p] = FALSE]
    ELSE UNCHANGED <<db, wal>>

(* A connection is closed; the last one settles the log, unless its process*)
(* was killed.                                                             *)
Disconnect(s, p, n, clean) ==
    /\ linked' = [linked EXCEPT ![s][p] = @ \ {n}]
    /\ Settle(s, p, clean /\ linked[s][p] = {n})

(* The worker needs the artifact, and the extracted tree, which it makes   *)
(* itself if it has to.                                                    *)
WorkerStart(s, p, n) ==
    /\ worker[s][p][n] = "new"
    /\ IF raw[s] = "done"
       THEN /\ At(s, p, n, "ready")
            /\ tree' = [tree EXCEPT ![s] = IF @ = "gutted" THEN @ ELSE "ready"]
       ELSE Ends(s, p, n, Failed) /\ UNCHANGED tree
    /\ UNCHANGED <<raw, derived, db, wal, linked, receipt, remote, done, bounds>>

(* Mutation: a worker starts from a fresh database.                        *)
WorkerOpenFresh(s, p, n) ==
    /\ worker[s][p][n] = "ready"
    /\ At(s, p, n, "open")
    /\ db' = [db EXCEPT ![s][p] = "empty"]
    /\ wal' = [wal EXCEPT ![s][p] = FALSE]
    /\ linked' = [linked EXCEPT ![s][p] = @ \cup {n}]
    /\ UNCHANGED <<disk, receipt, remote, done, bounds>>

WorkerOpen(s, p, n) ==
    /\ worker[s][p][n] = "ready"
    /\ At(s, p, n, "open")
    /\ db' = [db EXCEPT ![s][p] = IF @ = "none" THEN "empty" ELSE @]
    /\ linked' = [linked EXCEPT ![s][p] = @ \cup {n}]
    /\ UNCHANGED <<disk, wal, receipt, remote, done, bounds>>

Locked(s, p, n) ==
    /\ n \in linked[s][p]
    /\ \E m \in linked[s][p] \ {n} : worker[s][p][m] = "write"

(* The first row opens the transaction.  It fails if the source's files are*)
(* gone, or when another worker holds the lock for too long.               *)
WorkerBegin(s, p, n) ==
    /\ worker[s][p][n] = "open"
    /\ \/ /\ tree[s] = "ready" /\ ~Locked(s, p, n)
          /\ At(s, p, n, "write")
          /\ derived' = [derived EXCEPT ![s] = TRUE]
          /\ UNCHANGED <<db, wal, linked>>
       \/ /\ tree[s] # "ready" \/ Locked(s, p, n)
          /\ Ends(s, p, n, Failed) /\ Disconnect(s, p, n, TRUE)
          /\ UNCHANGED derived
    /\ UNCHANGED <<raw, tree, receipt, remote, done, bounds>>

(* A stream that is derived after the release brings the directory back.   *)
WorkerDerive(s, p, n) ==
    /\ worker[s][p][n] = "write" /\ ~derived[s]
    /\ derived' = [derived EXCEPT ![s] = TRUE]
    /\ UNCHANGED <<raw, tree, shards, remote, done, control, bounds>>

(* Everything is derived and committed, to the log, of which a long one is *)
(* copied to the file at once; or files the worker still needs are gone.   *)
WorkerCommit(s, p, n) ==
    /\ worker[s][p][n] = "write"
    /\ \/ /\ At(s, p, n, "commit")
          /\ IF n \in linked[s][p]
             THEN /\ wal' = [wal EXCEPT ![s][p] = TRUE]
                  /\ \/ UNCHANGED db
                     \/ db' = [db EXCEPT ![s][p] = "rows"]
             ELSE UNCHANGED <<db, wal>>
          /\ UNCHANGED linked
       \/ /\ tree[s] # "ready"
          /\ Ends(s, p, n, Failed) /\ Disconnect(s, p, n, TRUE)
    /\ UNCHANGED <<disk, receipt, remote, done, bounds>>

(* Close the database, then write the partition's COMPLETE receipt.        *)
WorkerClose(s, p, n) ==
    /\ worker[s][p][n] = "commit"
    /\ Ends(s, p, n, 0)
    /\ Disconnect(s, p, n, TRUE)
    /\ receipt' = [receipt EXCEPT ![s][p] = TRUE]
    /\ UNCHANGED <<disk, remote, done, bounds>>

(* A worker fails, or is killed; an open transaction is rolled back.       *)
WorkerDies(s, p, n) ==
    /\ worker[s][p][n] \in Live /\ deaths < MaxDeaths
    /\ deaths' = deaths + 1
    /\ Ends(s, p, n, Failed)
    /\ \E clean \in BOOLEAN : Disconnect(s, p, n, clean)
    /\ UNCHANGED <<disk, receipt, remote, done, kills>>

WorkerStep(s, p, n) == \/ WorkerStart(s, p, n) \/ WorkerOpen(s, p, n) \/ WorkerBegin(s, p, n)
                       \/ WorkerDerive(s, p, n) \/ WorkerCommit(s, p, n) \/ WorkerClose(s, p, n)

-----------------------------------------------------------------------------
(* Publication and compaction.                                             *)

(* Every COMPLETE receipt must have its database, published or not.        *)
Publish ==
    /\ pc = "publish"
    /\ IF \E p \in Partitions : receipt[cur][p] /\ db[cur][p] = "none"
       THEN Stop ELSE Goto("package")
    /\ UNCHANGED <<disk, shards, remote, done, bounds>>

(* Mutation: the last partition is not noticed.                            *)
NextPackagePastEnd ==
    /\ pc' = "package" /\ part' = part + 1
    /\ staged' = "none"
    /\ UNCHANGED <<cur, children>>

NextPackage ==
    /\ pc' = IF part = PartitionCount THEN "verify" ELSE "package"
    /\ part' = IF part = PartitionCount THEN 1 ELSE part + 1
    /\ staged' = "none"
    /\ UNCHANGED <<cur, children>>

(* A package with a completion marker is durable.  For another one the     *)
(* database file is copied to the outbox, without its log; the query that  *)
(* follows opens the database, and settles a log that nobody else uses.    *)
Package ==
    /\ pc = "package"
    /\ \/ /\ package[cur][part] # "none" \/ ~receipt[cur][part]
          /\ NextPackage /\ UNCHANGED <<db, wal>>
       \/ /\ package[cur][part] = "none" /\ receipt[cur][part] /\ db[cur][part] = "none"
          /\ Stop /\ UNCHANGED <<db, wal>>
       \/ /\ package[cur][part] = "none" /\ receipt[cur][part] /\ db[cur][part] # "none"
          /\ staged' = db[cur][part] /\ pc' = "upload" /\ UNCHANGED <<cur, part, children>>
          /\ Settle(cur, part, linked[cur][part] = {})
    /\ UNCHANGED <<disk, linked, receipt, worker, remote, done, bounds>>

(* The completion marker goes last.                                        *)
Upload ==
    /\ pc = "upload"
    /\ package' = [package EXCEPT ![cur][part] = staged]
    /\ NextPackage
    /\ UNCHANGED <<disk, shards, canonical, done, bounds>>

Verify ==
    /\ pc = "verify"
    /\ IF \A p \in Partitions : package[cur][p] # "none" THEN Goto("consolidate") ELSE Stop
    /\ UNCHANGED <<disk, shards, remote, done, bounds>>

(* Mutation: the database is not compared with the package's item ledger.  *)
ConsolidateUnverified ==
    /\ pc = "consolidate"
    /\ canonical' = [canonical EXCEPT ![cur] = TRUE] /\ Goto("release")
    /\ UNCHANGED <<disk, shards, package, done, bounds>>

(* stream_consolidate refuses a database without the rows of the ledger.   *)
Consolidate ==
    /\ pc = "consolidate"
    /\ IF \A p \in Partitions : package[cur][p] = "rows"
       THEN canonical' = [canonical EXCEPT ![cur] = TRUE] /\ Goto("release")
       ELSE Stop /\ UNCHANGED canonical
    /\ UNCHANGED <<disk, shards, package, done, bounds>>

(* Remove the download, the extracted and the derived files, and then each *)
(* partition's database.                                                   *)
Release ==
    /\ pc = "release"
    /\ raw' = [raw EXCEPT ![cur] = IF part = 1 THEN "none" ELSE @]
    /\ tree' = [tree EXCEPT ![cur] = IF part = 2 THEN "none" ELSE @]
    /\ derived' = [derived EXCEPT ![cur] = IF part = 3 THEN FALSE ELSE @]
    /\ db' = [db EXCEPT ![cur] = [p \in Partitions |-> IF part = 3 + p THEN "none" ELSE @[p]]]
    /\ wal' = [wal EXCEPT ![cur] = [p \in Partitions |-> IF part = 3 + p THEN FALSE ELSE @[p]]]
    /\ linked' = [linked EXCEPT ![cur] = [p \in Partitions |-> IF part = 3 + p THEN {} ELSE @[p]]]
    /\ IF part = 3 + PartitionCount THEN Goto("receipt")
       ELSE part' = part + 1 /\ UNCHANGED <<pc, cur, children, staged>>
    /\ UNCHANGED <<receipt, worker, remote, done, bounds>>

WriteReceipt ==
    /\ pc = "receipt"
    /\ done' = [done EXCEPT ![cur] = TRUE]
    /\ IF cur = SourceCount THEN Goto("done")
       ELSE /\ pc' = "source" /\ cur' = cur + 1 /\ part' = 1
            /\ children' = NoChildren /\ UNCHANGED staged
    /\ UNCHANGED <<disk, shards, remote, bounds>>

ControllerStep == \/ BeginSource \/ Download \/ Rename \/ Extract \/ Launch \/ Poll
                  \/ Publish \/ Package \/ Upload \/ Verify \/ Consolidate
                  \/ Release \/ WriteReceipt

Next == \/ Start \/ ControllerStep \/ Kill
        \/ \E s \in Sources, p \in Partitions, n \in Slots :
              WorkerStep(s, p, n) \/ WorkerDies(s, p, n)

Spec == Init /\ [][Next]_vars

(* The controller and every worker go on, and the retry loop restarts the  *)
(* controller.                                                             *)
FairSpec ==
    /\ Spec
    /\ WF_vars(ControllerStep) /\ WF_vars(Start)
    /\ \A s \in Sources, p \in Partitions, n \in Slots : WF_vars(WorkerStep(s, p, n))

-----------------------------------------------------------------------------
(* Every variable holds a value of its kind.                               *)
TypeOK ==
    /\ raw \in [Sources -> {"none", "part", "whole", "done"}]
    /\ tree \in [Sources -> {"none", "partial", "ready", "gutted"}]
    /\ derived \in [Sources -> BOOLEAN]
    /\ db \in [Sources -> [Partitions -> {"none", "empty", "rows"}]]
    /\ wal \in [Sources -> [Partitions -> BOOLEAN]]
    /\ linked \in [Sources -> [Partitions -> SUBSET Slots]]
    /\ receipt \in [Sources -> [Partitions -> BOOLEAN]]
    /\ worker \in [Sources -> [Partitions -> [Slots -> Live \cup {"none"}]]]
    /\ package \in [Sources -> [Partitions -> {"none", "empty", "rows"}]]
    /\ canonical \in [Sources -> BOOLEAN] /\ done \in [Sources -> BOOLEAN]
    /\ pc \in {"off", "source", "download", "rename", "extract", "launch", "poll", "publish",
               "package", "upload", "verify", "consolidate", "release", "receipt", "done"}
    /\ cur \in Sources
    /\ part \in 1 .. (PartitionCount + 3)
    /\ pc \in {"launch", "package", "upload"} => part \in Partitions
    /\ children \in [Partitions -> Slots \cup {0, Failed}]
    /\ staged \in {"none", "empty", "rows"}
    /\ {kills, deaths} \subseteq Nat

(* Local payload of a source is removed only when the store holds every    *)
(* partition with its rows and the compaction of all of them, whatever     *)
(* workers and controllers ran, failed or overlapped before.               *)
ReleasedIsDurable ==
    [][\A s \in Sources :
          \/ raw[s] = "done" /\ raw'[s] = "none"
          \/ tree[s] \in {"ready", "gutted"} /\ tree'[s] = "none"
          \/ derived[s] /\ ~derived'[s]
          \/ \E p \in Partitions : db[s][p] # "none" /\ db'[s][p] = "none"
          => canonical[s] /\ \A p \in Partitions : package[s][p] = "rows"]_vars

(* The rows behind a COMPLETE partition receipt stay in its database, be it*)
(* the file or its log, until the source is compacted: no second worker on *)
(* the same partition and no kill loses them.                              *)
ReceiptedRowsStay ==
    \A s \in Sources, p \in Partitions : receipt[s][p] /\ ~canonical[s] =>
        db[s][p] = "rows" \/ wal[s][p]

(* The ways a source can be stuck for ever: a receipt whose database is    *)
(* gone; a package without rows; a whole download that was not renamed; no *)
(* room for the envelope next to the source's own payload.                 *)
Stranded  == \E s \in Sources, p \in Partitions :
                receipt[s][p] /\ db[s][p] = "none" /\ ~done[s]
                /\ ~(pc \in {"release", "receipt"} /\ cur = s)
Misfilled == \E s \in Sources, p \in Partitions : package[s][p] = "empty"
Unrenamed == \E s \in Sources : raw[s] = "whole" /\ ~(pc = "rename" /\ cur = s)
Cramped   == pc = "source" /\ ~done[cur] /\ ~SafeToStage(cur)

(* Nothing else keeps the queue from its end: through any finite number of *)
(* failed controllers and workers every source completes.                  *)
Completes == []~(Stranded \/ Misfilled \/ Unrenamed \/ Cramped) => <>(pc = "done")

(* A source whose packages and compaction are durable gets its receipt.    *)
DurableSourceCompletes == \A s \in Sources : canonical[s] ~> done[s]
=============================================================================
