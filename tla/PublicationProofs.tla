------------------------- MODULE PublicationProofs -------------------------
(***************************************************************************)
(* Proofs about Autopilot and ShardPackage, the two modules of how a       *)
(* worker's rows become a published package: type correctness, what a      *)
(* partition's receipt promises and when local payload may go; and, for    *)
(* any shards, publishers and items, what a completion marker vouches for, *)
(* that an unforced package is final, and what the two commands that read  *)
(* packages get.                                                           *)
(***************************************************************************)
EXTENDS Autopilot, ShardPackage, WellFoundedInduction, TLAPS

-----------------------------------------------------------------------------
(* Lemmas about the operators of the model.                                *)

LEMMA Counts ==
    /\ SourceCount \in Nat \ {0} /\ PartitionCount \in Nat \ {0} /\ MaxWorkers \in Nat \ {0}
    /\ Sources = 1 .. SourceCount /\ Partitions = 1 .. PartitionCount /\ Slots = 1 .. MaxWorkers
  BY CountAssumption, BoundsAssumption DEF Sources, Partitions, Slots

LEMMA LeastOf ==
    ASSUME NEW T, T \subseteq Nat, T # {}
    PROVE  \E k \in T : \A j \in T : k <= j
<1>1. PICK k \in T : \A j \in T : ~(<<j, k>> \in OpToRel(<, Nat))
  BY WFMin, NatLessThanWellFounded
<1>2. \A j \in T : ~(j < k)
  BY <1>1 DEF OpToRel
<1> QED BY <1>2

(* A worker is launched in a free slot.                                    *)
LEMMA FreeSlot ==
    ASSUME NEW s, NEW p, FreeSlots(s, p) # {}
    PROVE  (CHOOSE n \in FreeSlots(s, p) : \A m \in FreeSlots(s, p) : n <= m) \in FreeSlots(s, p)
<1>1. FreeSlots(s, p) \subseteq Nat
  BY Counts DEF FreeSlots
<1> HIDE DEF FreeSlots
<1>2. \E n \in FreeSlots(s, p) : \A m \in FreeSlots(s, p) : n <= m
  BY <1>1, LeastOf
<1> QED BY <1>2

-----------------------------------------------------------------------------
(* Types, one group of variables at a time.                                *)

DiskTyped ==
    /\ raw \in [Sources -> {"none", "part", "whole", "done"}]
    /\ tree \in [Sources -> {"none", "partial", "ready", "gutted"}]
    /\ derived \in [Sources -> BOOLEAN]

DatabaseTyped ==
    /\ db \in [Sources -> [Partitions -> {"none", "empty", "rows"}]]
    /\ wal \in [Sources -> [Partitions -> BOOLEAN]]
    /\ linked \in [Sources -> [Partitions -> SUBSET Slots]]

WorkerTyped ==
    /\ receipt \in [Sources -> [Partitions -> BOOLEAN]]
    /\ worker \in [Sources -> [Partitions -> [Slots -> Live \cup {"none"}]]]

RemoteTyped ==
    /\ package \in [Sources -> [Partitions -> {"none", "empty", "rows"}]]
    /\ canonical \in [Sources -> BOOLEAN] /\ done \in [Sources -> BOOLEAN]
    /\ {kills, deaths} \subseteq Nat

ControlTyped ==
    /\ pc \in {"off", "source", "download", "rename", "extract", "launch", "poll", "publish",
               "package", "upload", "verify", "consolidate", "release", "receipt", "done"}
    /\ cur \in Sources
    /\ part \in 1 .. (PartitionCount + 3)
    /\ pc \in {"launch", "package", "upload"} => part \in Partitions
    /\ children \in [Partitions -> Slots \cup {0, Failed}]
    /\ staged \in {"none", "empty", "rows"}

LEMMA TypeGroups ==
    /\ TypeOK <=> DiskTyped /\ DatabaseTyped /\ WorkerTyped /\ RemoteTyped /\ ControlTyped
    /\ TypeOK' <=> DiskTyped' /\ DatabaseTyped' /\ WorkerTyped' /\ RemoteTyped' /\ ControlTyped'
  BY DEF TypeOK, DiskTyped, DatabaseTyped, WorkerTyped, RemoteTyped, ControlTyped

LEMMA Cell ==
    ASSUME NEW T, NEW f \in [Sources -> [Partitions -> T]], NEW g,
           NEW s \in Sources, NEW p \in Partitions, NEW v \in T, g = [f EXCEPT ![s][p] = v]
    PROVE  /\ g \in [Sources -> [Partitions -> T]] /\ g[s][p] = v
           /\ \A t \in Sources, q \in Partitions : ~(t = s /\ q = p) => g[t][q] = f[t][q]
  OBVIOUS

(* The log is settled, a connection closed, a worker moves on.             *)
LEMMA SettleTypes ==
    ASSUME DatabaseTyped, NEW s \in Sources, NEW p \in Partitions, NEW last \in BOOLEAN, Settle(s, p, last)
    PROVE  /\ db' \in [Sources -> [Partitions -> {"none", "empty", "rows"}]]
           /\ wal' \in [Sources -> [Partitions -> BOOLEAN]]
<1>1. CASE last /\ wal[s][p]
  <2>1. db' = [db EXCEPT ![s][p] = "rows"] /\ wal' = [wal EXCEPT ![s][p] = FALSE]
    BY <1>1 DEF Settle
  <2>2. /\ db \in [Sources -> [Partitions -> {"none", "empty", "rows"}]]
        /\ wal \in [Sources -> [Partitions -> BOOLEAN]]
    BY DEF DatabaseTyped
  <2>3. db' \in [Sources -> [Partitions -> {"none", "empty", "rows"}]]
    BY <2>1, <2>2, Cell
  <2>4. wal' \in [Sources -> [Partitions -> BOOLEAN]]
    BY <2>1, <2>2, Cell
  <2> QED BY <2>3, <2>4
<1>2. CASE ~(last /\ wal[s][p])
  BY <1>2 DEF Settle, DatabaseTyped
<1> QED BY <1>1, <1>2

LEMMA DisconnectTypes ==
    ASSUME DatabaseTyped, NEW s \in Sources, NEW p \in Partitions, NEW n \in Slots, NEW clean \in BOOLEAN,
           Disconnect(s, p, n, clean)
    PROVE  DatabaseTyped'
<1>1. linked' \in [Sources -> [Partitions -> SUBSET Slots]]
  BY DEF Disconnect, DatabaseTyped
<1>2. Settle(s, p, clean /\ linked[s][p] = {n})
  BY DEF Disconnect
<1> QED BY <1>1, <1>2, SettleTypes DEF DatabaseTyped

LEMMA WorkerMoves ==
    ASSUME WorkerTyped, NEW s \in Sources, NEW p \in Partitions, NEW n \in Slots,
           NEW state \in Live \cup {"none"},
           worker' = [worker EXCEPT ![s][p][n] = state]
    PROVE  worker' \in [Sources -> [Partitions -> [Slots -> Live \cup {"none"}]]]
  BY DEF WorkerTyped

LEMMA DiskTypes ==
    ASSUME TypeOK, [Next]_vars
    PROVE  DiskTyped'
<1> USE DEF DiskTyped, disk, shards, remote, control, bounds, Stop, Goto
<1>a. TypeOK /\ DiskTyped /\ ControlTyped
  BY TypeGroups
<1>1. ASSUME Start PROVE DiskTyped'
  BY <1>1, <1>a, Counts DEF Start
<1>2. ASSUME Kill PROVE DiskTyped'
  BY <1>2, <1>a, Counts DEF Kill
<1>3. ASSUME BeginSource PROVE DiskTyped'
  BY <1>3, <1>a, Counts DEF BeginSource
<1>4. ASSUME Download PROVE DiskTyped'
  BY <1>4, <1>a, Counts DEF Download
<1>5. ASSUME Rename PROVE DiskTyped'
  BY <1>5, <1>a, Counts DEF Rename
<1>6. ASSUME Extract PROVE DiskTyped'
  BY <1>6, <1>a, Counts DEF Extract
<1>7. ASSUME Launch PROVE DiskTyped'
  BY <1>7, <1>a, Counts DEF Launch, NextPart
<1>8. ASSUME Poll PROVE DiskTyped'
  BY <1>8, <1>a, Counts DEF Poll
<1>9. ASSUME Publish PROVE DiskTyped'
  BY <1>9, <1>a, Counts DEF Publish
<1>10. ASSUME Package PROVE DiskTyped'
  BY <1>10, <1>a, Counts DEF Package, NextPackage, Settle
<1>11. ASSUME Upload PROVE DiskTyped'
  BY <1>11, <1>a, Counts DEF Upload, NextPackage
<1>12. ASSUME Verify PROVE DiskTyped'
  BY <1>12, <1>a, Counts DEF Verify
<1>13. ASSUME Consolidate PROVE DiskTyped'
  BY <1>13, <1>a, Counts DEF Consolidate
<1>14. ASSUME Release PROVE DiskTyped'
  BY <1>14, <1>a, Counts DEF Release
<1>15. ASSUME WriteReceipt PROVE DiskTyped'
  BY <1>15, <1>a, Counts DEF WriteReceipt
<1>16. ASSUME NEW s \in Sources, NEW p \in Partitions, NEW n \in Slots, WorkerStart(s, p, n) PROVE DiskTyped'
  BY <1>16, <1>a, Counts DEF WorkerStart, At, Ends
<1>17. ASSUME NEW s \in Sources, NEW p \in Partitions, NEW n \in Slots, WorkerOpen(s, p, n) PROVE DiskTyped'
  BY <1>17, <1>a, Counts DEF WorkerOpen, At
<1>18. ASSUME NEW s \in Sources, NEW p \in Partitions, NEW n \in Slots, WorkerBegin(s, p, n) PROVE DiskTyped'
  BY <1>18, <1>a, Counts DEF WorkerBegin, At, Ends, Disconnect, Settle
<1>19. ASSUME NEW s \in Sources, NEW p \in Partitions, NEW n \in Slots, WorkerDerive(s, p, n) PROVE DiskTyped'
  BY <1>19, <1>a, Counts DEF WorkerDerive
<1>20. ASSUME NEW s \in Sources, NEW p \in Partitions, NEW n \in Slots, WorkerCommit(s, p, n) PROVE DiskTyped'
  BY <1>20, <1>a, Counts DEF WorkerCommit, At, Ends, Disconnect, Settle
<1>21. ASSUME NEW s \in Sources, NEW p \in Partitions, NEW n \in Slots, WorkerClose(s, p, n) PROVE DiskTyped'
  BY <1>21, <1>a, Counts DEF WorkerClose, Ends, Disconnect, Settle
<1>22. ASSUME NEW s \in Sources, NEW p \in Partitions, NEW n \in Slots, WorkerDies(s, p, n) PROVE DiskTyped'
  BY <1>22, <1>a, Counts DEF WorkerDies, Ends, Disconnect, Settle
<1> QED BY <1>1, <1>2, <1>3, <1>4, <1>5, <1>6, <1>7, <1>8, <1>9, <1>10, <1>11, <1>12, <1>13, <1>14, <1>15, <1>16, <1>17, <1>18, <1>19, <1>20, <1>21, <1>22, <1>a DEF Next, ControllerStep, WorkerStep, vars

LEMMA DatabaseTypes ==
    ASSUME TypeOK, [Next]_vars
    PROVE  DatabaseTyped'
<1> USE DEF DatabaseTyped, disk, shards, remote, control, bounds, Stop, Goto, ControlTyped
<1>a. TypeOK /\ DatabaseTyped /\ ControlTyped
  BY TypeGroups
<1>1. ASSUME Start PROVE DatabaseTyped'
  BY <1>1, <1>a, Counts DEF Start
<1>2. ASSUME Kill PROVE DatabaseTyped'
  BY <1>2, <1>a, Counts DEF Kill
<1>3. ASSUME BeginSource PROVE DatabaseTyped'
  BY <1>3, <1>a, Counts DEF BeginSource
<1>4. ASSUME Download PROVE DatabaseTyped'
  BY <1>4, <1>a, Counts DEF Download
<1>5. ASSUME Rename PROVE DatabaseTyped'
  BY <1>5, <1>a, Counts DEF Rename
<1>6. ASSUME Extract PROVE DatabaseTyped'
  BY <1>6, <1>a, Counts DEF Extract
<1>7. ASSUME Launch PROVE DatabaseTyped'
  BY <1>7, <1>a, Counts DEF Launch, NextPart
<1>8. ASSUME Poll PROVE DatabaseTyped'
  BY <1>8, <1>a, Counts DEF Poll
<1>9. ASSUME Publish PROVE DatabaseTyped'
  BY <1>9, <1>a, Counts DEF Publish
<1>10. ASSUME Package PROVE DatabaseTyped'
  <2>1. cur \in Sources /\ part \in Partitions /\ UNCHANGED linked
    BY <1>10, <1>a DEF Package
  <2>2. UNCHANGED <<db, wal>> \/ Settle(cur, part, linked[cur][part] = {})
    BY <1>10 DEF Package
  <2> HIDE DEF DatabaseTyped
  <2>3. CASE UNCHANGED <<db, wal>>
    BY <1>a, <2>1, <2>3 DEF DatabaseTyped
  <2>4. CASE Settle(cur, part, linked[cur][part] = {})
    BY <1>a, <2>1, <2>4, SettleTypes DEF DatabaseTyped
  <2> QED BY <2>2, <2>3, <2>4
<1>11. ASSUME Upload PROVE DatabaseTyped'
  BY <1>11, <1>a, Counts DEF Upload, NextPackage
<1>12. ASSUME Verify PROVE DatabaseTyped'
  BY <1>12, <1>a, Counts DEF Verify
<1>13. ASSUME Consolidate PROVE DatabaseTyped'
  BY <1>13, <1>a, Counts DEF Consolidate
<1>14. ASSUME Release PROVE DatabaseTyped'
  BY <1>14, <1>a, Counts DEF Release
<1>15. ASSUME WriteReceipt PROVE DatabaseTyped'
  BY <1>15, <1>a, Counts DEF WriteReceipt
<1>16. ASSUME NEW s \in Sources, NEW p \in Partitions, NEW n \in Slots, WorkerStart(s, p, n) PROVE DatabaseTyped'
  BY <1>16, <1>a, Counts DEF WorkerStart, At, Ends
<1>17. ASSUME NEW s \in Sources, NEW p \in Partitions, NEW n \in Slots, WorkerOpen(s, p, n) PROVE DatabaseTyped'
  BY <1>17, <1>a, Counts DEF WorkerOpen, At
<1>18. ASSUME NEW s \in Sources, NEW p \in Partitions, NEW n \in Slots, WorkerBegin(s, p, n) PROVE DatabaseTyped'
  <2>1. UNCHANGED <<db, wal, linked>> \/ Disconnect(s, p, n, TRUE)
    BY <1>18 DEF WorkerBegin
  <2>2. CASE UNCHANGED <<db, wal, linked>>
    BY <1>a, <2>2
  <2> QED BY <1>a, <2>1, <2>2, DisconnectTypes
<1>19. ASSUME NEW s \in Sources, NEW p \in Partitions, NEW n \in Slots, WorkerDerive(s, p, n) PROVE DatabaseTyped'
  BY <1>19, <1>a, Counts DEF WorkerDerive
<1>20. ASSUME NEW s \in Sources, NEW p \in Partitions, NEW n \in Slots, WorkerCommit(s, p, n) PROVE DatabaseTyped'
  <2>1. CASE Disconnect(s, p, n, TRUE)
    BY <1>a, <2>1, DisconnectTypes
  <2>2. CASE ~Disconnect(s, p, n, TRUE)
    <3>1. UNCHANGED linked /\ (UNCHANGED wal \/ wal' = [wal EXCEPT ![s][p] = TRUE])
          /\ (UNCHANGED db \/ db' = [db EXCEPT ![s][p] = "rows"])
      BY <1>20, <2>2 DEF WorkerCommit
    <3> HIDE DEF ControlTyped
    <3>2. /\ db \in [Sources -> [Partitions -> {"none", "empty", "rows"}]]
          /\ wal \in [Sources -> [Partitions -> BOOLEAN]]
      BY <1>a
    <3>3. ASSUME UNCHANGED db PROVE db' \in [Sources -> [Partitions -> {"none", "empty", "rows"}]]
      BY <3>2, <3>3
    <3>4. ASSUME db' = [db EXCEPT ![s][p] = "rows"] PROVE db' \in [Sources -> [Partitions -> {"none", "empty", "rows"}]]
      BY <3>2, <3>4, Cell
    <3>5. ASSUME UNCHANGED wal PROVE wal' \in [Sources -> [Partitions -> BOOLEAN]]
      BY <3>2, <3>5
    <3>6. ASSUME wal' = [wal EXCEPT ![s][p] = TRUE] PROVE wal' \in [Sources -> [Partitions -> BOOLEAN]]
      BY <3>2, <3>6, Cell
    <3> QED BY <1>a, <3>1, <3>3, <3>4, <3>5, <3>6
  <2> QED BY <2>1, <2>2
<1>21. ASSUME NEW s \in Sources, NEW p \in Partitions, NEW n \in Slots, WorkerClose(s, p, n) PROVE DatabaseTyped'
  BY <1>21, <1>a, DisconnectTypes DEF WorkerClose
<1>22. ASSUME NEW s \in Sources, NEW p \in Partitions, NEW n \in Slots, WorkerDies(s, p, n) PROVE DatabaseTyped'
  BY <1>22, <1>a, DisconnectTypes DEF WorkerDies
<1> QED BY <1>1, <1>2, <1>3, <1>4, <1>5, <1>6, <1>7, <1>8, <1>9, <1>10, <1>11, <1>12, <1>13, <1>14, <1>15, <1>16, <1>17, <1>18, <1>19, <1>20, <1>21, <1>22, <1>a DEF Next, ControllerStep, WorkerStep, vars

LEMMA WorkerTypes ==
    ASSUME TypeOK, [Next]_vars
    PROVE  WorkerTyped'
<1> USE DEF WorkerTyped, disk, shards, remote, control, bounds, Stop, Goto, Live, ControlTyped
<1>a. TypeOK /\ WorkerTyped /\ ControlTyped
  BY TypeGroups
<1>1. ASSUME Start PROVE WorkerTyped'
  BY <1>1, <1>a, Counts DEF Start
<1>2. ASSUME Kill PROVE WorkerTyped'
  BY <1>2, <1>a, Counts DEF Kill
<1>3. ASSUME BeginSource PROVE WorkerTyped'
  BY <1>3, <1>a, Counts DEF BeginSource
<1>4. ASSUME Download PROVE WorkerTyped'
  BY <1>4, <1>a, Counts DEF Download
<1>5. ASSUME Rename PROVE WorkerTyped'
  BY <1>5, <1>a, Counts DEF Rename
<1>6. ASSUME Extract PROVE WorkerTyped'
  BY <1>6, <1>a, Counts DEF Extract
<1>7. ASSUME Launch PROVE WorkerTyped'
  <2>1. CASE UNCHANGED worker
    BY <1>7, <1>a, <2>1 DEF Launch
  <2>2. CASE ~UNCHANGED worker
    <3> DEFINE slot == CHOOSE n \in FreeSlots(cur, part) : \A m \in FreeSlots(cur, part) : n <= m
    <3>1. worker' = [worker EXCEPT ![cur][part][slot] = "new"] /\ FreeSlots(cur, part) # {}
      BY <1>7, <2>2 DEF Launch
    <3>4. slot \in FreeSlots(cur, part)
      BY <3>1, FreeSlot
    <3> HIDE DEF slot
    <3>2. slot \in Slots /\ cur \in Sources /\ part \in Partitions /\ UNCHANGED receipt
      BY <1>7, <1>a, <3>4 DEF Launch, FreeSlots
    <3> HIDE DEF slot, WorkerTyped
    <3>3. worker' \in [Sources -> [Partitions -> [Slots -> Live \cup {"none"}]]]
      BY <1>a, <3>1, <3>2, WorkerMoves DEF Live
    <3> QED BY <1>a, <3>2, <3>3 DEF WorkerTyped
  <2> QED BY <2>1, <2>2
<1>8. ASSUME Poll PROVE WorkerTyped'
  BY <1>8, <1>a, Counts DEF Poll
<1>9. ASSUME Publish PROVE WorkerTyped'
  BY <1>9, <1>a, Counts DEF Publish
<1>10. ASSUME Package PROVE WorkerTyped'
  BY <1>10, <1>a, Counts DEF Package, NextPackage, Settle
<1>11. ASSUME Upload PROVE WorkerTyped'
  BY <1>11, <1>a, Counts DEF Upload, NextPackage
<1>12. ASSUME Verify PROVE WorkerTyped'
  BY <1>12, <1>a, Counts DEF Verify
<1>13. ASSUME Consolidate PROVE WorkerTyped'
  BY <1>13, <1>a, Counts DEF Consolidate
<1>14. ASSUME Release PROVE WorkerTyped'
  BY <1>14, <1>a, Counts DEF Release
<1>15. ASSUME WriteReceipt PROVE WorkerTyped'
  BY <1>15, <1>a, Counts DEF WriteReceipt
<1>16. ASSUME NEW s \in Sources, NEW p \in Partitions, NEW n \in Slots, WorkerStart(s, p, n) PROVE WorkerTyped'
  <2>1. UNCHANGED receipt /\ \E state \in Live \cup {"none"} : worker' = [worker EXCEPT ![s][p][n] = state]
    BY <1>16 DEF WorkerStart, At, Ends
  <2> HIDE DEF WorkerTyped
  <2>2. worker' \in [Sources -> [Partitions -> [Slots -> Live \cup {"none"}]]]
    BY <1>a, <2>1, WorkerMoves
  <2> QED BY <1>a, <2>1, <2>2 DEF WorkerTyped
<1>17. ASSUME NEW s \in Sources, NEW p \in Partitions, NEW n \in Slots, WorkerOpen(s, p, n) PROVE WorkerTyped'
  BY <1>17, <1>a, Counts DEF WorkerOpen, At
<1>18. ASSUME NEW s \in Sources, NEW p \in Partitions, NEW n \in Slots, WorkerBegin(s, p, n) PROVE WorkerTyped'
  <2>1. UNCHANGED receipt /\ \E state \in Live \cup {"none"} : worker' = [worker EXCEPT ![s][p][n] = state]
    BY <1>18 DEF WorkerBegin, At, Ends
  <2> HIDE DEF WorkerTyped
  <2>2. worker' \in [Sources -> [Partitions -> [Slots -> Live \cup {"none"}]]]
    BY <1>a, <2>1, WorkerMoves
  <2> QED BY <1>a, <2>1, <2>2 DEF WorkerTyped
<1>19. ASSUME NEW s \in Sources, NEW p \in Partitions, NEW n \in Slots, WorkerDerive(s, p, n) PROVE WorkerTyped'
  BY <1>19, <1>a, Counts DEF WorkerDerive
<1>20. ASSUME NEW s \in Sources, NEW p \in Partitions, NEW n \in Slots, WorkerCommit(s, p, n) PROVE WorkerTyped'
  <2>1. UNCHANGED receipt /\ \E state \in Live \cup {"none"} : worker' = [worker EXCEPT ![s][p][n] = state]
    BY <1>20 DEF WorkerCommit, At, Ends
  <2> HIDE DEF WorkerTyped
  <2>2. worker' \in [Sources -> [Partitions -> [Slots -> Live \cup {"none"}]]]
    BY <1>a, <2>1, WorkerMoves
  <2> QED BY <1>a, <2>1, <2>2 DEF WorkerTyped
<1>21. ASSUME NEW s \in Sources, NEW p \in Partitions, NEW n \in Slots, WorkerClose(s, p, n) PROVE WorkerTyped'
  BY <1>21, <1>a, Counts DEF WorkerClose, Ends, Disconnect, Settle
<1>22. ASSUME NEW s \in Sources, NEW p \in Partitions, NEW n \in Slots, WorkerDies(s, p, n) PROVE WorkerTyped'
  BY <1>22, <1>a, Counts DEF WorkerDies, Ends, Disconnect, Settle
<1> QED BY <1>1, <1>2, <1>3, <1>4, <1>5, <1>6, <1>7, <1>8, <1>9, <1>10, <1>11, <1>12, <1>13, <1>14, <1>15, <1>16, <1>17, <1>18, <1>19, <1>20, <1>21, <1>22, <1>a DEF Next, ControllerStep, WorkerStep, vars

LEMMA RemoteTypes ==
    ASSUME TypeOK, [Next]_vars
    PROVE  RemoteTyped'
<1> USE DEF RemoteTyped, disk, shards, remote, control, bounds, Stop, Goto, ControlTyped
<1>a. TypeOK /\ RemoteTyped /\ ControlTyped
  BY TypeGroups
<1>1. ASSUME Start PROVE RemoteTyped'
  BY <1>1, <1>a, Counts DEF Start
<1>2. ASSUME Kill PROVE RemoteTyped'
  BY <1>2, <1>a, Counts DEF Kill
<1>3. ASSUME BeginSource PROVE RemoteTyped'
  BY <1>3, <1>a, Counts DEF BeginSource
<1>4. ASSUME Download PROVE RemoteTyped'
  BY <1>4, <1>a, Counts DEF Download
<1>5. ASSUME Rename PROVE RemoteTyped'
  BY <1>5, <1>a, Counts DEF Rename
<1>6. ASSUME Extract PROVE RemoteTyped'
  BY <1>6, <1>a, Counts DEF Extract
<1>7. ASSUME Launch PROVE RemoteTyped'
  BY <1>7, <1>a, Counts DEF Launch, NextPart
<1>8. ASSUME Poll PROVE RemoteTyped'
  BY <1>8, <1>a, Counts DEF Poll
<1>9. ASSUME Publish PROVE RemoteTyped'
  BY <1>9, <1>a, Counts DEF Publish
<1>10. ASSUME Package PROVE RemoteTyped'
  BY <1>10, <1>a, Counts DEF Package, NextPackage, Settle
<1>11. ASSUME Upload PROVE RemoteTyped'
  <2>1. cur \in Sources /\ part \in Partitions /\ staged \in {"none", "empty", "rows"}
    BY <1>11, <1>a DEF Upload
  <2>2. package' = [package EXCEPT ![cur][part] = staged] /\ UNCHANGED <<canonical, done, kills, deaths>>
    BY <1>11 DEF Upload
  <2> HIDE DEF ControlTyped
  <2> QED BY <1>a, <2>1, <2>2
<1>12. ASSUME Verify PROVE RemoteTyped'
  BY <1>12, <1>a, Counts DEF Verify
<1>13. ASSUME Consolidate PROVE RemoteTyped'
  BY <1>13, <1>a, Counts DEF Consolidate
<1>14. ASSUME Release PROVE RemoteTyped'
  BY <1>14, <1>a, Counts DEF Release
<1>15. ASSUME WriteReceipt PROVE RemoteTyped'
  BY <1>15, <1>a, Counts DEF WriteReceipt
<1>16. ASSUME NEW s \in Sources, NEW p \in Partitions, NEW n \in Slots, WorkerStart(s, p, n) PROVE RemoteTyped'
  BY <1>16, <1>a, Counts DEF WorkerStart, At, Ends
<1>17. ASSUME NEW s \in Sources, NEW p \in Partitions, NEW n \in Slots, WorkerOpen(s, p, n) PROVE RemoteTyped'
  BY <1>17, <1>a, Counts DEF WorkerOpen, At
<1>18. ASSUME NEW s \in Sources, NEW p \in Partitions, NEW n \in Slots, WorkerBegin(s, p, n) PROVE RemoteTyped'
  BY <1>18, <1>a, Counts DEF WorkerBegin, At, Ends, Disconnect, Settle
<1>19. ASSUME NEW s \in Sources, NEW p \in Partitions, NEW n \in Slots, WorkerDerive(s, p, n) PROVE RemoteTyped'
  BY <1>19, <1>a, Counts DEF WorkerDerive
<1>20. ASSUME NEW s \in Sources, NEW p \in Partitions, NEW n \in Slots, WorkerCommit(s, p, n) PROVE RemoteTyped'
  BY <1>20, <1>a, Counts DEF WorkerCommit, At, Ends, Disconnect, Settle
<1>21. ASSUME NEW s \in Sources, NEW p \in Partitions, NEW n \in Slots, WorkerClose(s, p, n) PROVE RemoteTyped'
  BY <1>21, <1>a, Counts DEF WorkerClose, Ends, Disconnect, Settle
<1>22. ASSUME NEW s \in Sources, NEW p \in Partitions, NEW n \in Slots, WorkerDies(s, p, n) PROVE RemoteTyped'
  BY <1>22, <1>a, Counts DEF WorkerDies, Ends, Disconnect, Settle
<1> QED BY <1>1, <1>2, <1>3, <1>4, <1>5, <1>6, <1>7, <1>8, <1>9, <1>10, <1>11, <1>12, <1>13, <1>14, <1>15, <1>16, <1>17, <1>18, <1>19, <1>20, <1>21, <1>22, <1>a DEF Next, ControllerStep, WorkerStep, vars

LEMMA ControlTypes ==
    ASSUME TypeOK, [Next]_vars
    PROVE  ControlTyped'
<1> USE DEF ControlTyped, disk, shards, remote, control, bounds, Stop, Goto, NoChildren, Failed
<1>a. TypeOK /\ ControlTyped /\ ControlTyped
  BY TypeGroups
<1>1. ASSUME Start PROVE ControlTyped'
  BY <1>1, <1>a, Counts DEF Start
<1>2. ASSUME Kill PROVE ControlTyped'
  BY <1>2, <1>a, Counts DEF Kill
<1>3. ASSUME BeginSource PROVE ControlTyped'
  BY <1>3, <1>a, Counts DEF BeginSource
<1>4. ASSUME Download PROVE ControlTyped'
  BY <1>4, <1>a, Counts DEF Download
<1>5. ASSUME Rename PROVE ControlTyped'
  BY <1>5, <1>a, Counts DEF Rename
<1>6. ASSUME Extract PROVE ControlTyped'
  BY <1>6, <1>a, Counts DEF Extract
<1>7. ASSUME Launch PROVE ControlTyped'
  <2> DEFINE slot == CHOOSE n \in FreeSlots(cur, part) : \A m \in FreeSlots(cur, part) : n <= m
  <2>1. UNCHANGED children \/ (FreeSlots(cur, part) # {} /\ children' = [children EXCEPT ![part] = slot])
    BY <1>7 DEF Launch
  <2>5. FreeSlots(cur, part) # {} => slot \in FreeSlots(cur, part)
    BY FreeSlot
  <2>2. FreeSlots(cur, part) # {} => slot \in Slots
    BY <2>5 DEF FreeSlots
  <2> HIDE DEF slot
  <2>3. children' \in [Partitions -> Slots \cup {0, Failed}]
    BY <1>a, <2>1, <2>2
  <2>4. /\ pc' = (IF part = PartitionCount THEN "poll" ELSE "launch") /\ UNCHANGED <<cur, staged>>
        /\ part' = (IF part = PartitionCount THEN 1 ELSE part + 1) /\ pc = "launch"
    BY <1>7 DEF Launch, NextPart
  <2> QED BY <1>a, <2>3, <2>4, Counts
<1>8. ASSUME Poll PROVE ControlTyped'
  BY <1>8, <1>a, Counts DEF Poll
<1>9. ASSUME Publish PROVE ControlTyped'
  BY <1>9, <1>a, Counts DEF Publish
<1>10. ASSUME Package PROVE ControlTyped'
  <2>1. db[cur][part] \in {"none", "empty", "rows"}
    BY <1>10, <1>a, TypeGroups DEF Package, DatabaseTyped
  <2> HIDE DEF TypeOK
  <2>2. CASE NextPackage
    BY <1>10, <1>a, <2>2, Counts DEF Package, NextPackage
  <2>3. CASE Stop
    BY <1>a, <2>3, Counts
  <2>4. CASE staged' = db[cur][part] /\ pc' = "upload" /\ UNCHANGED <<cur, part, children>>
    BY <1>10, <1>a, <2>1, <2>4 DEF Package
  <2> QED BY <1>10, <2>2, <2>3, <2>4 DEF Package
<1>11. ASSUME Upload PROVE ControlTyped'
  BY <1>11, <1>a, Counts DEF Upload, NextPackage
<1>12. ASSUME Verify PROVE ControlTyped'
  BY <1>12, <1>a, Counts DEF Verify
<1>13. ASSUME Consolidate PROVE ControlTyped'
  BY <1>13, <1>a, Counts DEF Consolidate
<1>14. ASSUME Release PROVE ControlTyped'
  BY <1>14, <1>a, Counts DEF Release
<1>15. ASSUME WriteReceipt PROVE ControlTyped'
  BY <1>15, <1>a, Counts DEF WriteReceipt
<1>16. ASSUME NEW s \in Sources, NEW p \in Partitions, NEW n \in Slots, WorkerStart(s, p, n) PROVE ControlTyped'
  BY <1>16, <1>a, Counts DEF WorkerStart, At, Ends
<1>17. ASSUME NEW s \in Sources, NEW p \in Partitions, NEW n \in Slots, WorkerOpen(s, p, n) PROVE ControlTyped'
  BY <1>17, <1>a, Counts DEF WorkerOpen, At
<1>18. ASSUME NEW s \in Sources, NEW p \in Partitions, NEW n \in Slots, WorkerBegin(s, p, n) PROVE ControlTyped'
  BY <1>18, <1>a, Counts DEF WorkerBegin, At, Ends, Disconnect, Settle
<1>19. ASSUME NEW s \in Sources, NEW p \in Partitions, NEW n \in Slots, WorkerDerive(s, p, n) PROVE ControlTyped'
  BY <1>19, <1>a, Counts DEF WorkerDerive
<1>20. ASSUME NEW s \in Sources, NEW p \in Partitions, NEW n \in Slots, WorkerCommit(s, p, n) PROVE ControlTyped'
  BY <1>20, <1>a, Counts DEF WorkerCommit, At, Ends, Disconnect, Settle
<1>21. ASSUME NEW s \in Sources, NEW p \in Partitions, NEW n \in Slots, WorkerClose(s, p, n) PROVE ControlTyped'
  BY <1>21, <1>a, Counts DEF WorkerClose, Ends, Disconnect, Settle
<1>22. ASSUME NEW s \in Sources, NEW p \in Partitions, NEW n \in Slots, WorkerDies(s, p, n) PROVE ControlTyped'
  BY <1>22, <1>a, Counts DEF WorkerDies, Ends, Disconnect, Settle
<1> QED BY <1>1, <1>2, <1>3, <1>4, <1>5, <1>6, <1>7, <1>8, <1>9, <1>10, <1>11, <1>12, <1>13, <1>14, <1>15, <1>16, <1>17, <1>18, <1>19, <1>20, <1>21, <1>22, <1>a DEF Next, ControllerStep, WorkerStep, vars

LEMMA InitTypes == Init => TypeOK
  BY Counts DEF Init, TypeOK, NoChildren, Live, Slots

LEMMA StepTypes ==
    ASSUME TypeOK, [Next]_vars
    PROVE  TypeOK'
  BY DiskTypes, DatabaseTypes, WorkerTypes, RemoteTypes, ControlTypes, TypeGroups

(* Every variable of the controller, the workers and the store keeps its   *)
(* kind (remaining_source_autopilot, Autopilot).                           *)
THEOREM AutopilotTypes == Spec => []TypeOK
  BY InitTypes, StepTypes, PTL DEF Spec

-----------------------------------------------------------------------------
(* Release.  A source that is released or receipted is compacted, and every*)
(* package of a compacted source has its rows; a package that is uploaded  *)
(* was not there.                                                          *)
DurableInv ==
    /\ pc \in {"release", "receipt"} => canonical[cur]
    /\ pc = "upload" => package[cur][part] = "none"
    /\ \A s \in Sources, p \in Partitions : canonical[s] => package[s][p] = "rows"

LEMMA DurableStep ==
    ASSUME TypeOK, DurableInv, [Next]_vars
    PROVE  DurableInv'
<1> USE DEF disk, shards, remote, control, bounds, Stop, Goto
<1>a. TypeOK /\ DurableInv
  OBVIOUS
<1>1. ASSUME Start PROVE DurableInv'
  BY <1>1, <1>a DEF Start, DurableInv
<1>2. ASSUME Kill PROVE DurableInv'
  BY <1>2, <1>a DEF Kill, DurableInv
<1>3. ASSUME BeginSource PROVE DurableInv'
  BY <1>3, <1>a DEF BeginSource, DurableInv
<1>4. ASSUME Download PROVE DurableInv'
  BY <1>4, <1>a DEF Download, DurableInv
<1>5. ASSUME Rename PROVE DurableInv'
  BY <1>5, <1>a DEF Rename, DurableInv
<1>6. ASSUME Extract PROVE DurableInv'
  BY <1>6, <1>a DEF Extract, DurableInv
<1>7. ASSUME Launch PROVE DurableInv'
  BY <1>7, <1>a DEF Launch, NextPart, DurableInv
<1>8. ASSUME Poll PROVE DurableInv'
  BY <1>8, <1>a DEF Poll, DurableInv
<1>9. ASSUME Publish PROVE DurableInv'
  BY <1>9, <1>a DEF Publish, DurableInv
<1>10. ASSUME Package PROVE DurableInv'
  BY <1>10, <1>a DEF Package, NextPackage, Settle, DurableInv
<1>11. ASSUME Upload PROVE DurableInv'
  <2>1. package[cur][part] = "none" /\ cur \in Sources /\ part \in Partitions
    BY <1>11, <1>a DEF Upload, DurableInv, TypeOK, DurableInv
  <2>2. ~canonical[cur]
    BY <1>a, <2>1 DEF DurableInv
  <2>3. package' = [package EXCEPT ![cur][part] = staged] /\ UNCHANGED canonical /\ pc' \in {"package", "verify"}
    BY <1>11 DEF Upload, NextPackage
  <2>4. \A s \in Sources, p \in Partitions : s # cur => package'[s][p] = package[s][p]
    BY <2>1, <2>3 DEF TypeOK
  <2> QED BY <1>a, <2>2, <2>3, <2>4 DEF DurableInv
<1>12. ASSUME Verify PROVE DurableInv'
  BY <1>12, <1>a DEF Verify, DurableInv
<1>13. ASSUME Consolidate PROVE DurableInv'
  <2>1. CASE \A p \in Partitions : package[cur][p] = "rows"
    <3>1. canonical' = [canonical EXCEPT ![cur] = TRUE] /\ UNCHANGED <<package, cur>> /\ pc' = "release"
      BY <1>13, <2>1 DEF Consolidate, Goto
    <3>2. cur \in Sources /\ DOMAIN canonical = Sources
      BY <1>a DEF TypeOK
    <3> QED BY <1>a, <2>1, <3>1, <3>2 DEF DurableInv
  <2>2. CASE ~\A p \in Partitions : package[cur][p] = "rows"
    BY <1>13, <1>a, <2>2 DEF Consolidate, DurableInv, Stop
  <2> QED BY <2>1, <2>2
<1>14. ASSUME Release PROVE DurableInv'
  BY <1>14, <1>a DEF Release, DurableInv
<1>15. ASSUME WriteReceipt PROVE DurableInv'
  BY <1>15, <1>a DEF WriteReceipt, DurableInv
<1>16. ASSUME NEW s \in Sources, NEW p \in Partitions, NEW n \in Slots, WorkerStart(s, p, n) PROVE DurableInv'
  BY <1>16, <1>a DEF WorkerStart, At, Ends, DurableInv
<1>17. ASSUME NEW s \in Sources, NEW p \in Partitions, NEW n \in Slots, WorkerOpen(s, p, n) PROVE DurableInv'
  BY <1>17, <1>a DEF WorkerOpen, At, DurableInv
<1>18. ASSUME NEW s \in Sources, NEW p \in Partitions, NEW n \in Slots, WorkerBegin(s, p, n) PROVE DurableInv'
  BY <1>18, <1>a DEF WorkerBegin, At, Ends, Disconnect, Settle, DurableInv
<1>19. ASSUME NEW s \in Sources, NEW p \in Partitions, NEW n \in Slots, WorkerDerive(s, p, n) PROVE DurableInv'
  BY <1>19, <1>a DEF WorkerDerive, DurableInv
<1>20. ASSUME NEW s \in Sources, NEW p \in Partitions, NEW n \in Slots, WorkerCommit(s, p, n) PROVE DurableInv'
  BY <1>20, <1>a DEF WorkerCommit, At, Ends, Disconnect, Settle, DurableInv
<1>21. ASSUME NEW s \in Sources, NEW p \in Partitions, NEW n \in Slots, WorkerClose(s, p, n) PROVE DurableInv'
  BY <1>21, <1>a DEF WorkerClose, Ends, Disconnect, Settle, DurableInv
<1>22. ASSUME NEW s \in Sources, NEW p \in Partitions, NEW n \in Slots, WorkerDies(s, p, n) PROVE DurableInv'
  BY <1>22, <1>a DEF WorkerDies, Ends, Disconnect, Settle, DurableInv
<1> QED BY <1>1, <1>2, <1>3, <1>4, <1>5, <1>6, <1>7, <1>8, <1>9, <1>10, <1>11, <1>12, <1>13, <1>14, <1>15, <1>16, <1>17, <1>18, <1>19, <1>20, <1>21, <1>22, <1>a DEF Next, ControllerStep, WorkerStep, vars, DurableInv

(* A step removes payload of the source.                                   *)
Gone(s) == \/ raw[s] = "done" /\ raw'[s] = "none"
           \/ tree[s] \in {"ready", "gutted"} /\ tree'[s] = "none"
           \/ derived[s] /\ ~derived'[s]
           \/ \E p \in Partitions : db[s][p] # "none" /\ db'[s][p] = "none"

(* Only the release removes payload.                                       *)
LEMMA OnlyRelease ==
    ASSUME TypeOK, [Next]_vars, NEW t \in Sources, Gone(t)
    PROVE  pc = "release" /\ cur = t
<1> DEFINE Goal == ~Gone(t) \/ (pc = "release" /\ cur = t)
<1> USE DEF Gone, disk, shards, remote, control, bounds
<1>a. /\ DOMAIN raw = Sources /\ DOMAIN tree = Sources /\ DOMAIN derived = Sources /\ cur \in Sources
      /\ DatabaseTyped
  BY TypeGroups DEF TypeOK
<1>b. ASSUME NEW s \in Sources, NEW p \in Partitions, NEW v \in {"empty", "rows"}, db' = [db EXCEPT ![s][p] = v]
      PROVE  \A u \in Sources, q \in Partitions : db'[u][q] = db[u][q] \/ db'[u][q] # "none"
  <2>1. db \in [Sources -> [Partitions -> {"none", "empty", "rows"}]]
    BY <1>a DEF DatabaseTyped
  <2>2. db'[s][p] = v /\ \A u \in Sources, q \in Partitions : ~(u = s /\ q = p) => db'[u][q] = db[u][q]
    BY <1>b, <2>1, Cell
  <2> QED BY <2>2
<1>1. ASSUME Start PROVE Goal
  BY <1>1, <1>a DEF Start
<1>2. ASSUME Kill PROVE Goal
  BY <1>2, <1>a DEF Kill
<1>3. ASSUME BeginSource PROVE Goal
  BY <1>3, <1>a DEF BeginSource
<1>4. ASSUME Download PROVE Goal
  BY <1>4, <1>a DEF Download
<1>5. ASSUME Rename PROVE Goal
  BY <1>5, <1>a DEF Rename
<1>6. ASSUME Extract PROVE Goal
  BY <1>6, <1>a DEF Extract
<1>7. ASSUME Launch PROVE Goal
  BY <1>7, <1>a DEF Launch, NextPart
<1>8. ASSUME Poll PROVE Goal
  BY <1>8, <1>a DEF Poll
<1>9. ASSUME Publish PROVE Goal
  BY <1>9, <1>a DEF Publish
<1>10. ASSUME Package PROVE Goal
  <2>1. UNCHANGED db \/ db' = [db EXCEPT ![cur][part] = "rows"]
    BY <1>10 DEF Package, Settle
  <2>2. part \in Partitions
    BY <1>10 DEF Package, TypeOK
  <2>3. \A q \in Partitions : db'[t][q] = db[t][q] \/ db'[t][q] # "none"
    BY <1>a, <1>b, <2>1, <2>2
  <2> QED BY <1>10, <2>3 DEF Package
<1>11. ASSUME Upload PROVE Goal
  BY <1>11, <1>a DEF Upload, NextPackage
<1>12. ASSUME Verify PROVE Goal
  BY <1>12, <1>a DEF Verify
<1>13. ASSUME Consolidate PROVE Goal
  BY <1>13, <1>a DEF Consolidate
<1>14. ASSUME Release PROVE Goal
  BY <1>14, <1>a DEF Release
<1>15. ASSUME WriteReceipt PROVE Goal
  BY <1>15, <1>a DEF WriteReceipt
<1>16. ASSUME NEW s \in Sources, NEW p \in Partitions, NEW n \in Slots, WorkerStart(s, p, n) PROVE Goal
  BY <1>16, <1>a DEF WorkerStart, At, Ends
<1>17. ASSUME NEW s \in Sources, NEW p \in Partitions, NEW n \in Slots, WorkerOpen(s, p, n) PROVE Goal
  <2>1. db' = [db EXCEPT ![s][p] = IF @ = "none" THEN "empty" ELSE @]
    BY <1>17 DEF WorkerOpen
  <2>2. db'[t] = db[t] \/ (t = s /\ db'[t] = [db[t] EXCEPT ![p] = IF @ = "none" THEN "empty" ELSE @])
    BY <1>a, <2>1 DEF DatabaseTyped
  <2>3. \A q \in Partitions : db'[t][q] = db[t][q] \/ db'[t][q] # "none"
    BY <1>a, <2>2 DEF DatabaseTyped
  <2> QED BY <1>17, <2>3 DEF WorkerOpen
<1>18. ASSUME NEW s \in Sources, NEW p \in Partitions, NEW n \in Slots, WorkerBegin(s, p, n) PROVE Goal
  <2>1. \/ UNCHANGED db
        \/ \E v \in {"empty", "rows"} : db' = [db EXCEPT ![s][p] = v]
    BY <1>18 DEF WorkerBegin, Disconnect, Settle
  <2>2. \A q \in Partitions : db'[t][q] = db[t][q] \/ db'[t][q] # "none"
    BY <1>b, <2>1
  <2>3. (raw'[t] = raw[t]) /\ (tree'[t] = tree[t] \/ tree'[t] # "none") /\ (derived'[t] = derived[t] \/ derived'[t])
    BY <1>18, <1>a DEF WorkerBegin
  <2> QED BY <2>2, <2>3
<1>19. ASSUME NEW s \in Sources, NEW p \in Partitions, NEW n \in Slots, WorkerDerive(s, p, n) PROVE Goal
  BY <1>19, <1>a DEF WorkerDerive
<1>20. ASSUME NEW s \in Sources, NEW p \in Partitions, NEW n \in Slots, WorkerCommit(s, p, n) PROVE Goal
  <2>1. \/ UNCHANGED db
        \/ \E v \in {"empty", "rows"} : db' = [db EXCEPT ![s][p] = v]
    BY <1>20 DEF WorkerCommit, Disconnect, Settle
  <2>2. \A q \in Partitions : db'[t][q] = db[t][q] \/ db'[t][q] # "none"
    BY <1>b, <2>1
  <2>3. (raw'[t] = raw[t]) /\ (tree'[t] = tree[t] \/ tree'[t] # "none") /\ (derived'[t] = derived[t] \/ derived'[t])
    BY <1>20, <1>a DEF WorkerCommit
  <2> QED BY <2>2, <2>3
<1>21. ASSUME NEW s \in Sources, NEW p \in Partitions, NEW n \in Slots, WorkerClose(s, p, n) PROVE Goal
  <2>1. \/ UNCHANGED db
        \/ \E v \in {"empty", "rows"} : db' = [db EXCEPT ![s][p] = v]
    BY <1>21 DEF WorkerClose, Disconnect, Settle
  <2>2. \A q \in Partitions : db'[t][q] = db[t][q] \/ db'[t][q] # "none"
    BY <1>b, <2>1
  <2>3. (raw'[t] = raw[t]) /\ (tree'[t] = tree[t] \/ tree'[t] # "none") /\ (derived'[t] = derived[t] \/ derived'[t])
    BY <1>21, <1>a DEF WorkerClose
  <2> QED BY <2>2, <2>3
<1>22. ASSUME NEW s \in Sources, NEW p \in Partitions, NEW n \in Slots, WorkerDies(s, p, n) PROVE Goal
  <2>1. \/ UNCHANGED db
        \/ \E v \in {"empty", "rows"} : db' = [db EXCEPT ![s][p] = v]
    BY <1>22 DEF WorkerDies, Disconnect, Settle
  <2>2. \A q \in Partitions : db'[t][q] = db[t][q] \/ db'[t][q] # "none"
    BY <1>b, <2>1
  <2>3. (raw'[t] = raw[t]) /\ (tree'[t] = tree[t] \/ tree'[t] # "none") /\ (derived'[t] = derived[t] \/ derived'[t])
    BY <1>22, <1>a DEF WorkerDies
  <2> QED BY <2>2, <2>3
<1> QED BY <1>1, <1>2, <1>3, <1>4, <1>5, <1>6, <1>7, <1>8, <1>9, <1>10, <1>11, <1>12, <1>13, <1>14, <1>15, <1>16, <1>17, <1>18, <1>19, <1>20, <1>21, <1>22 DEF Next, ControllerStep, WorkerStep, vars

(* Local payload of a source goes only when the store holds every package  *)
(* with its rows and the compaction (release_source), whatever workers and *)
(* controllers ran, failed or overlapped before.                           *)
THEOREM ReleaseIsDurable == Spec => ReleasedIsDurable
<1> DEFINE Durable == \A s \in Sources : Gone(s) => canonical[s] /\ \A p \in Partitions : package[s][p] = "rows"
<1>1. Init => TypeOK /\ DurableInv
  BY InitTypes DEF Init, DurableInv
<1>2. TypeOK /\ DurableInv /\ [Next]_vars => (TypeOK /\ DurableInv)'
  BY StepTypes, DurableStep
<1>3. TypeOK /\ DurableInv /\ [Next]_vars => [Durable]_vars
  BY OnlyRelease DEF DurableInv
<1>4. [][Durable]_vars => ReleasedIsDurable
  BY PTL DEF ReleasedIsDurable, Gone
<1> QED BY <1>1, <1>2, <1>3, <1>4, PTL DEF Spec

-----------------------------------------------------------------------------
(* Rows.  Until its source is compacted, a partition has its rows once one *)
(* of its workers has committed them, and a worker with a transaction is   *)
(* one that has the database open.                                         *)
HasRows(s, p) == db[s][p] = "rows" \/ wal[s][p]

Writing == {"open", "write", "commit"}

RowsInv ==
    \A s \in Sources, p \in Partitions : ~canonical[s] =>
        /\ receipt[s][p] => HasRows(s, p)
        /\ \A n \in Slots : /\ worker[s][p][n] = "commit" => HasRows(s, p)
                            /\ worker[s][p][n] \in Writing => n \in linked[s][p]

Shaped(f) == DOMAIN f = Sources /\ \A u \in Sources : DOMAIN f[u] = Partitions

(* A cell of a partition, or the place of a worker, becomes v.             *)
Becomes(g, f, s, p, v) == g = [f EXCEPT ![s][p] = v]

Moves(s, p, n, v) == worker' = [worker EXCEPT ![s][p][n] = v]

LEMMA CellOnly ==
    ASSUME NEW f, Shaped(f), NEW g, NEW s \in Sources, NEW p \in Partitions, NEW v, Becomes(g, f, s, p, v)
    PROVE  /\ g[s][p] = v
           /\ \A t \in Sources, q \in Partitions : (t = s /\ q = p) \/ g[t][q] = f[t][q]
  BY DEF Becomes, Shaped

LEMMA DatabaseShape ==
    ASSUME TypeOK
    PROVE  Shaped(db) /\ Shaped(wal) /\ Shaped(receipt)
  BY DEF TypeOK, Shaped

(* Settling a log keeps the rows, and so does closing a connection.        *)
LEMMA SettleKeeps ==
    ASSUME TypeOK, NEW s \in Sources, NEW p \in Partitions, NEW last \in BOOLEAN, Settle(s, p, last),
           NEW t \in Sources, NEW q \in Partitions, HasRows(t, q)
    PROVE  HasRows(t, q)'
<1>1. CASE UNCHANGED <<db, wal>>
  BY <1>1 DEF HasRows
<1>2. CASE Becomes(db', db, s, p, "rows") /\ Becomes(wal', wal, s, p, FALSE)
  <2>1. db'[s][p] = "rows" /\ ((t = s /\ q = p) \/ db'[t][q] = db[t][q])
    BY <1>2, DatabaseShape, CellOnly
  <2>2. (t = s /\ q = p) \/ wal'[t][q] = wal[t][q]
    BY <1>2, DatabaseShape DEF Becomes, Shaped
  <2> QED BY <2>1, <2>2 DEF HasRows
<1> QED BY <1>1, <1>2 DEF Settle, Becomes

LEMMA CommitKeeps ==
    ASSUME TypeOK, NEW s \in Sources, NEW p \in Partitions,
           Becomes(wal', wal, s, p, TRUE),
           UNCHANGED db \/ Becomes(db', db, s, p, "rows")
    PROVE  /\ HasRows(s, p)'
           /\ \A t \in Sources, q \in Partitions : HasRows(t, q) => HasRows(t, q)'
<1>1. wal'[s][p] = TRUE
  BY DatabaseShape DEF Becomes, Shaped
<1>2. ASSUME NEW t \in Sources, NEW q \in Partitions
      PROVE  (t = s /\ q = p) \/ (wal'[t][q] = wal[t][q] /\ db'[t][q] = db[t][q])
  <2>1. (t = s /\ q = p) \/ wal'[t][q] = wal[t][q]
    BY DatabaseShape DEF Becomes, Shaped
  <2>2. (t = s /\ q = p) \/ db'[t][q] = db[t][q]
    BY DatabaseShape, CellOnly
  <2> QED BY <2>1, <2>2
<1> QED BY <1>1, <1>2 DEF HasRows

(* No step loses the rows of a source that is not compacted.               *)
LEMMA RowsStay ==
    ASSUME TypeOK, DurableInv, [Next]_vars,
           NEW t \in Sources, NEW q \in Partitions, ~canonical[t], HasRows(t, q)
    PROVE  HasRows(t, q)'
<1> USE DEF disk, shards, remote, control, bounds
<1>a. DatabaseTyped /\ ControlTyped /\ HasRows(t, q)
  BY TypeGroups
<1>b. UNCHANGED <<db, wal>> => HasRows(t, q)'
  BY DEF HasRows
<1>1. ASSUME Start PROVE HasRows(t, q)'
  BY <1>1, <1>b DEF Start
<1>2. ASSUME Kill PROVE HasRows(t, q)'
  BY <1>2, <1>b DEF Kill
<1>3. ASSUME BeginSource PROVE HasRows(t, q)'
  BY <1>3, <1>b DEF BeginSource
<1>4. ASSUME Download PROVE HasRows(t, q)'
  BY <1>4, <1>b DEF Download
<1>5. ASSUME Rename PROVE HasRows(t, q)'
  BY <1>5, <1>b DEF Rename
<1>6. ASSUME Extract PROVE HasRows(t, q)'
  BY <1>6, <1>b DEF Extract
<1>7. ASSUME Launch PROVE HasRows(t, q)'
  BY <1>7, <1>b DEF Launch, NextPart
<1>8. ASSUME Poll PROVE HasRows(t, q)'
  BY <1>8, <1>b DEF Poll
<1>9. ASSUME Publish PROVE HasRows(t, q)'
  BY <1>9, <1>b DEF Publish
<1>10. ASSUME Package PROVE HasRows(t, q)'
  <2>1. cur \in Sources /\ part \in Partitions /\ (UNCHANGED <<db, wal>> \/ Settle(cur, part, linked[cur][part] = {}))
    BY <1>10, <1>a DEF Package, ControlTyped
  <2> QED BY <1>a, <1>b, <2>1, SettleKeeps
<1>11. ASSUME Upload PROVE HasRows(t, q)'
  BY <1>11, <1>b DEF Upload, NextPackage
<1>12. ASSUME Verify PROVE HasRows(t, q)'
  BY <1>12, <1>b DEF Verify
<1>13. ASSUME Consolidate PROVE HasRows(t, q)'
  BY <1>13, <1>b DEF Consolidate
<1>14. ASSUME Release PROVE HasRows(t, q)'
  <2>1. t # cur /\ cur \in Sources
    BY <1>14, <1>a DEF Release, DurableInv, ControlTyped
  <2>2. db'[t] = db[t] /\ wal'[t] = wal[t]
    BY <1>14, <1>a, <2>1 DEF Release, DatabaseTyped
  <2> QED BY <1>a, <2>2 DEF HasRows
<1>15. ASSUME WriteReceipt PROVE HasRows(t, q)'
  BY <1>15, <1>b DEF WriteReceipt
<1>16. ASSUME NEW s \in Sources, NEW p \in Partitions, NEW n \in Slots, WorkerStart(s, p, n) PROVE HasRows(t, q)'
  BY <1>16, <1>b DEF WorkerStart, At, Ends
<1>17. ASSUME NEW s \in Sources, NEW p \in Partitions, NEW n \in Slots, WorkerOpen(s, p, n) PROVE HasRows(t, q)'
  <2>1. db' = [db EXCEPT ![s][p] = IF @ = "none" THEN "empty" ELSE @] /\ UNCHANGED wal
    BY <1>17 DEF WorkerOpen
  <2>2. db[t][q] = "rows" => db'[t][q] = "rows"
    BY <1>a, <2>1 DEF DatabaseTyped
  <2> QED BY <1>a, <2>1, <2>2 DEF HasRows
<1>18. ASSUME NEW s \in Sources, NEW p \in Partitions, NEW n \in Slots, WorkerBegin(s, p, n) PROVE HasRows(t, q)'
  <2>1. UNCHANGED <<db, wal>> \/ Settle(s, p, TRUE /\ linked[s][p] = {n})
    BY <1>18 DEF WorkerBegin, Disconnect
  <2> QED BY <1>a, <1>b, <2>1, SettleKeeps
<1>19. ASSUME NEW s \in Sources, NEW p \in Partitions, NEW n \in Slots, WorkerDerive(s, p, n) PROVE HasRows(t, q)'
  BY <1>19, <1>b DEF WorkerDerive
<1>20. ASSUME NEW s \in Sources, NEW p \in Partitions, NEW n \in Slots, WorkerCommit(s, p, n) PROVE HasRows(t, q)'
  <2>1. \/ UNCHANGED <<db, wal>>
        \/ Settle(s, p, TRUE /\ linked[s][p] = {n})
        \/ Becomes(wal', wal, s, p, TRUE) /\ (UNCHANGED db \/ Becomes(db', db, s, p, "rows"))
    BY <1>20 DEF WorkerCommit, Disconnect, Becomes
  <2> QED BY <1>a, <1>b, <2>1, SettleKeeps, CommitKeeps
<1>21. ASSUME NEW s \in Sources, NEW p \in Partitions, NEW n \in Slots, WorkerClose(s, p, n) PROVE HasRows(t, q)'
  <2>1. Settle(s, p, TRUE /\ linked[s][p] = {n})
    BY <1>21 DEF WorkerClose, Disconnect
  <2> QED BY <1>a, <2>1, SettleKeeps
<1>22. ASSUME NEW s \in Sources, NEW p \in Partitions, NEW n \in Slots, WorkerDies(s, p, n) PROVE HasRows(t, q)'
  <2>1. \E clean \in BOOLEAN : Settle(s, p, clean /\ linked[s][p] = {n})
    BY <1>22 DEF WorkerDies, Disconnect
  <2> QED BY <1>a, <2>1, SettleKeeps
<1> QED BY <1>1, <1>2, <1>3, <1>4, <1>5, <1>6, <1>7, <1>8, <1>9, <1>10, <1>11, <1>12, <1>13, <1>14, <1>15, <1>16, <1>17, <1>18, <1>19, <1>20, <1>21, <1>22, <1>b DEF Next, ControllerStep, WorkerStep, vars

(* A worker that moves on keeps the others where they are.                 *)
LEMMA WorkerCell ==
    ASSUME WorkerTyped, NEW s \in Sources, NEW p \in Partitions, NEW n \in Slots, NEW state, Moves(s, p, n, state)
    PROVE  /\ worker'[s][p][n] = state
           /\ \A t \in Sources, q \in Partitions, m \in Slots :
                 (t = s /\ q = p /\ m = n) \/ worker'[t][q][m] = worker[t][q][m]
  BY DEF WorkerTyped, Moves

(* The worker whose transaction is open has its database open; it commits  *)
(* with its rows in the database or in the log.                            *)
LEMMA WritersStay ==
    ASSUME TypeOK, DurableInv, RowsInv, [Next]_vars, ~UNCHANGED <<worker, linked>>,
           NEW t \in Sources, NEW q \in Partitions, NEW m \in Slots, ~canonical[t]
    PROVE  /\ worker'[t][q][m] \in Writing => m \in linked'[t][q]
           /\ worker'[t][q][m] = "commit" => HasRows(t, q)'
<1> DEFINE Goal == /\ worker'[t][q][m] \in Writing => m \in linked'[t][q]
                   /\ worker'[t][q][m] = "commit" => HasRows(t, q)'
<1> USE DEF disk, shards, remote, control, bounds, Writing
<1>a. DatabaseTyped /\ WorkerTyped /\ ControlTyped
  BY TypeGroups
<1>b. /\ worker[t][q][m] \in Writing => m \in linked[t][q]
      /\ worker[t][q][m] = "commit" => HasRows(t, q)
      /\ HasRows(t, q) => HasRows(t, q)'
  BY RowsStay DEF RowsInv
<1>c. linked \in [Sources -> [Partitions -> SUBSET Slots]]
  BY <1>a DEF DatabaseTyped
<1> HIDE DEF Goal
<1>d. ASSUME worker'[t][q][m] = worker[t][q][m],
             linked'[t][q] = linked[t][q] PROVE Goal
  BY <1>b, <1>d DEF Goal
<1>e. ASSUME NEW s \in Sources, NEW p \in Partitions, NEW n \in Slots,
             Moves(s, p, n, "none"), linked' = [linked EXCEPT ![s][p] = @ \ {n}]
      PROVE  Goal
  <2>1. worker'[s][p][n] = "none" /\ ((t = s /\ q = p /\ m = n) \/ worker'[t][q][m] = worker[t][q][m])
    BY <1>a, <1>e, WorkerCell
  <2>2. linked'[t][q] = linked[t][q] \/ (t = s /\ q = p /\ linked'[t][q] = linked[t][q] \ {n})
    BY <1>c, <1>e
  <2> QED BY <1>b, <2>1, <2>2 DEF Goal
<1>1. ASSUME Start PROVE Goal
  BY <1>1, <1>d DEF Start
<1>2. ASSUME Kill PROVE Goal
  BY <1>2, <1>d DEF Kill
<1>3. ASSUME BeginSource PROVE Goal
  BY <1>3, <1>d DEF BeginSource
<1>4. ASSUME Download PROVE Goal
  BY <1>4, <1>d DEF Download
<1>5. ASSUME Rename PROVE Goal
  BY <1>5, <1>d DEF Rename
<1>6. ASSUME Extract PROVE Goal
  BY <1>6, <1>d DEF Extract
<1>7. ASSUME Launch PROVE Goal
  <2> DEFINE slot == CHOOSE n \in FreeSlots(cur, part) : \A k \in FreeSlots(cur, part) : n <= k
  <2>1. Moves(cur, part, slot, "new") /\ FreeSlots(cur, part) # {} /\ UNCHANGED linked
        /\ cur \in Sources /\ part \in Partitions
    BY <1>7, <1>a DEF Launch, ControlTyped, Moves
  <2>2. slot \in FreeSlots(cur, part)
    BY <2>1, FreeSlot
  <2> HIDE DEF slot
  <2>3. slot \in Slots
    BY <2>2 DEF FreeSlots
  <2> QED BY <1>b, <1>a, <2>1, <2>3, WorkerCell DEF Goal
<1>8. ASSUME Poll PROVE Goal
  BY <1>8, <1>d DEF Poll
<1>9. ASSUME Publish PROVE Goal
  BY <1>9, <1>d DEF Publish
<1>10. ASSUME Package PROVE Goal
  BY <1>10, <1>d DEF Package, NextPackage, Settle
<1>11. ASSUME Upload PROVE Goal
  BY <1>11, <1>d DEF Upload, NextPackage
<1>12. ASSUME Verify PROVE Goal
  BY <1>12, <1>d DEF Verify
<1>13. ASSUME Consolidate PROVE Goal
  BY <1>13, <1>d DEF Consolidate
<1>14. ASSUME Release PROVE Goal
  <2>1. t # cur
    BY <1>14 DEF Release, DurableInv
  <2>2. linked'[t] = linked[t] /\ UNCHANGED worker
    BY <1>14, <1>c, <2>1 DEF Release
  <2> QED BY <1>d, <2>2
<1>15. ASSUME WriteReceipt PROVE Goal
  BY <1>15, <1>d DEF WriteReceipt
<1>16. ASSUME NEW s \in Sources, NEW p \in Partitions, NEW n \in Slots, WorkerStart(s, p, n) PROVE Goal
  <2>1. UNCHANGED linked /\ \E state \in {"ready", "none"} : Moves(s, p, n, state)
    BY <1>16 DEF WorkerStart, At, Ends, Moves
  <2> QED BY <1>a, <1>b, <2>1, WorkerCell DEF Goal
<1>17. ASSUME NEW s \in Sources, NEW p \in Partitions, NEW n \in Slots, WorkerOpen(s, p, n) PROVE Goal
  <2>1. Moves(s, p, n, "open") /\ linked' = [linked EXCEPT ![s][p] = @ \cup {n}]
    BY <1>17 DEF WorkerOpen, At, Moves
  <2>2. n \in linked'[s][p] /\ linked[t][q] \subseteq linked'[t][q]
    BY <1>c, <2>1
  <2>3. (t = s /\ q = p /\ m = n) \/ worker'[t][q][m] = worker[t][q][m]
    BY <1>a, <2>1, WorkerCell
  <2>4. worker'[s][p][n] = "open"
    BY <1>a, <2>1, WorkerCell
  <2> QED BY <1>b, <2>2, <2>3, <2>4 DEF Goal
<1>18. ASSUME NEW s \in Sources, NEW p \in Partitions, NEW n \in Slots, WorkerBegin(s, p, n) PROVE Goal
  <2>1. CASE Moves(s, p, n, "none") /\ linked' = [linked EXCEPT ![s][p] = @ \ {n}]
    BY <1>e, <2>1
  <2>2. CASE Moves(s, p, n, "write") /\ UNCHANGED linked
    <3>1. worker[s][p][n] = "open"
      BY <1>18 DEF WorkerBegin
    <3>2. worker'[s][p][n] = "write" /\ ((t = s /\ q = p /\ m = n) \/ worker'[t][q][m] = worker[t][q][m])
      BY <1>a, <2>2, WorkerCell
    <3> QED BY <1>b, <2>2, <3>1, <3>2 DEF Goal
  <2> QED BY <1>18, <2>1, <2>2 DEF WorkerBegin, At, Ends, Disconnect, Moves
<1>19. ASSUME NEW s \in Sources, NEW p \in Partitions, NEW n \in Slots, WorkerDerive(s, p, n) PROVE Goal
  BY <1>19, <1>d DEF WorkerDerive
<1>20. ASSUME NEW s \in Sources, NEW p \in Partitions, NEW n \in Slots, WorkerCommit(s, p, n) PROVE Goal
  <2>1. CASE Moves(s, p, n, "none") /\ linked' = [linked EXCEPT ![s][p] = @ \ {n}]
    BY <1>e, <2>1
  <2>2. CASE Moves(s, p, n, "commit") /\ UNCHANGED linked
    <3>1. worker[s][p][n] = "write"
      BY <1>20 DEF WorkerCommit
    <3>2. worker'[s][p][n] = "commit" /\ ((t = s /\ q = p /\ m = n) \/ worker'[t][q][m] = worker[t][q][m])
      BY <1>a, <2>2, WorkerCell
    <3>3. ASSUME t = s, q = p, m = n PROVE HasRows(t, q)'
      <4>1. n \in linked[s][p]
        BY <1>b, <3>1, <3>3
      <4>2. worker'[s][p][n] # "none"
        BY <3>2
      <4>5. ~Moves(s, p, n, "none")
        BY <1>a, <4>2, WorkerCell
      <4>3. ~Ends(s, p, n, Failed)
        BY <4>5 DEF Ends, Moves
      <4>4. Becomes(wal', wal, s, p, TRUE) /\ (UNCHANGED db \/ Becomes(db', db, s, p, "rows"))
        BY <1>20, <4>1, <4>3 DEF WorkerCommit, Becomes
      <4> QED BY <1>a, <3>3, <4>4, CommitKeeps
    <3> QED BY <1>b, <2>2, <3>1, <3>2, <3>3 DEF Goal
  <2> QED BY <1>20, <2>1, <2>2 DEF WorkerCommit, At, Ends, Disconnect, Moves
<1>21. ASSUME NEW s \in Sources, NEW p \in Partitions, NEW n \in Slots, WorkerClose(s, p, n) PROVE Goal
  <2>1. Moves(s, p, n, "none") /\ linked' = [linked EXCEPT ![s][p] = @ \ {n}]
    BY <1>21 DEF WorkerClose, Ends, Disconnect, Moves
  <2> QED BY <1>e, <2>1
<1>22. ASSUME NEW s \in Sources, NEW p \in Partitions, NEW n \in Slots, WorkerDies(s, p, n) PROVE Goal
  <2>1. Moves(s, p, n, "none") /\ linked' = [linked EXCEPT ![s][p] = @ \ {n}]
    BY <1>22 DEF WorkerDies, Ends, Disconnect, Moves
  <2> QED BY <1>e, <2>1
<1> QED BY <1>1, <1>2, <1>3, <1>4, <1>5, <1>6, <1>7, <1>8, <1>9, <1>10, <1>11, <1>12, <1>13, <1>14, <1>15, <1>16, <1>17, <1>18, <1>19, <1>20, <1>21, <1>22 DEF Next, ControllerStep, WorkerStep, vars, Goal

(* Only a compaction changes canonical, and only a worker that closes its  *)
(* database a partition's receipt.                                         *)
LEMMA Frames ==
    ASSUME [Next]_vars
    PROVE  /\ UNCHANGED canonical \/ canonical' = [canonical EXCEPT ![cur] = TRUE]
           /\ UNCHANGED receipt \/ \E s \in Sources, p \in Partitions, n \in Slots : WorkerClose(s, p, n)
<1> DEFINE Goal == /\ UNCHANGED canonical \/ canonical' = [canonical EXCEPT ![cur] = TRUE]
                   /\ UNCHANGED receipt \/ \E s \in Sources, p \in Partitions, n \in Slots : WorkerClose(s, p, n)
<1> USE DEF shards, remote
<1>1. ASSUME Start PROVE Goal
  BY <1>1 DEF Start
<1>2. ASSUME Kill PROVE Goal
  BY <1>2 DEF Kill
<1>3. ASSUME BeginSource PROVE Goal
  BY <1>3 DEF BeginSource
<1>4. ASSUME Download PROVE Goal
  BY <1>4 DEF Download
<1>5. ASSUME Rename PROVE Goal
  BY <1>5 DEF Rename
<1>6. ASSUME Extract PROVE Goal
  BY <1>6 DEF Extract
<1>7. ASSUME Launch PROVE Goal
  BY <1>7 DEF Launch, NextPart
<1>8. ASSUME Poll PROVE Goal
  BY <1>8 DEF Poll
<1>9. ASSUME Publish PROVE Goal
  BY <1>9 DEF Publish
<1>10. ASSUME Package PROVE Goal
  BY <1>10 DEF Package, NextPackage, Settle
<1>11. ASSUME Upload PROVE Goal
  BY <1>11 DEF Upload, NextPackage
<1>12. ASSUME Verify PROVE Goal
  BY <1>12 DEF Verify
<1>13. ASSUME Consolidate PROVE Goal
  BY <1>13 DEF Consolidate
<1>14. ASSUME Release PROVE Goal
  BY <1>14 DEF Release
<1>15. ASSUME WriteReceipt PROVE Goal
  BY <1>15 DEF WriteReceipt
<1>16. ASSUME NEW s \in Sources, NEW p \in Partitions, NEW n \in Slots, WorkerStart(s, p, n) PROVE Goal
  BY <1>16 DEF WorkerStart, At, Ends
<1>17. ASSUME NEW s \in Sources, NEW p \in Partitions, NEW n \in Slots, WorkerOpen(s, p, n) PROVE Goal
  BY <1>17 DEF WorkerOpen, At
<1>18. ASSUME NEW s \in Sources, NEW p \in Partitions, NEW n \in Slots, WorkerBegin(s, p, n) PROVE Goal
  BY <1>18 DEF WorkerBegin, At, Ends, Disconnect, Settle
<1>19. ASSUME NEW s \in Sources, NEW p \in Partitions, NEW n \in Slots, WorkerDerive(s, p, n) PROVE Goal
  BY <1>19 DEF WorkerDerive
<1>20. ASSUME NEW s \in Sources, NEW p \in Partitions, NEW n \in Slots, WorkerCommit(s, p, n) PROVE Goal
  BY <1>20 DEF WorkerCommit, At, Ends, Disconnect, Settle
<1>21. ASSUME NEW s \in Sources, NEW p \in Partitions, NEW n \in Slots, WorkerClose(s, p, n) PROVE Goal
  BY <1>21 DEF WorkerClose, Ends, Disconnect, Settle
<1>22. ASSUME NEW s \in Sources, NEW p \in Partitions, NEW n \in Slots, WorkerDies(s, p, n) PROVE Goal
  BY <1>22 DEF WorkerDies, Ends, Disconnect, Settle
<1> QED BY <1>1, <1>2, <1>3, <1>4, <1>5, <1>6, <1>7, <1>8, <1>9, <1>10, <1>11, <1>12, <1>13, <1>14, <1>15, <1>16, <1>17, <1>18, <1>19, <1>20, <1>21, <1>22 DEF Next, ControllerStep, WorkerStep, vars

LEMMA RowsStep ==
    ASSUME TypeOK, DurableInv, RowsInv, [Next]_vars
    PROVE  RowsInv'
<1> SUFFICES ASSUME NEW t \in Sources, NEW q \in Partitions, ~canonical'[t]
             PROVE  /\ receipt'[t][q] => HasRows(t, q)'
                    /\ \A m \in Slots : /\ worker'[t][q][m] = "commit" => HasRows(t, q)'
                                        /\ worker'[t][q][m] \in Writing => m \in linked'[t][q]
  BY DEF RowsInv
<1>1. ~canonical[t]
  <2>1. DOMAIN canonical = Sources
    BY DEF TypeOK
  <2>2. UNCHANGED canonical \/ canonical' = [canonical EXCEPT ![cur] = TRUE]
    BY Frames
  <2> QED BY <2>1, <2>2
<1>2. /\ HasRows(t, q) => HasRows(t, q)'
      /\ receipt[t][q] => HasRows(t, q)
      /\ \A m \in Slots : /\ worker[t][q][m] = "commit" => HasRows(t, q)
                          /\ worker[t][q][m] \in Writing => m \in linked[t][q]
  BY <1>1, RowsStay DEF RowsInv
<1>3. receipt'[t][q] => HasRows(t, q)'
  <2>1. UNCHANGED receipt \/ \E s \in Sources, p \in Partitions, n \in Slots : WorkerClose(s, p, n)
    BY Frames
  <2>2. CASE UNCHANGED receipt
    BY <1>2, <2>2
  <2>3. ASSUME NEW s \in Sources, NEW p \in Partitions, NEW n \in Slots, WorkerClose(s, p, n)
        PROVE  receipt'[t][q] => HasRows(t, q)'
    <3>1. worker[s][p][n] = "commit" /\ Becomes(receipt', receipt, s, p, TRUE)
      BY <2>3 DEF WorkerClose, Becomes
    <3>3. (t = s /\ q = p) \/ receipt'[t][q] = receipt[t][q]
      BY <3>1, DatabaseShape DEF Becomes, Shaped
    <3> QED BY <1>2, <3>1, <3>3
  <2> QED BY <2>1, <2>2, <2>3
<1>4. CASE UNCHANGED <<worker, linked>>
  BY <1>2, <1>3, <1>4
<1>5. CASE ~UNCHANGED <<worker, linked>>
  BY <1>1, <1>3, <1>5, WritersStay
<1> QED BY <1>4, <1>5

(* The rows behind a COMPLETE partition receipt stay in its database, be it*)
(* the file or its log, until the source is compacted: no second worker on *)
(* the same partition and no kill loses them (remaining_source_autopilot,  *)
(* remaining_source_worker).                                               *)
THEOREM ReceiptedRows == Spec => []ReceiptedRowsStay
<1> DEFINE I == TypeOK /\ DurableInv /\ RowsInv
<1>1. Init => I
  BY InitTypes DEF Init, DurableInv, RowsInv, Writing
<1>2. I /\ [Next]_vars => I'
  BY StepTypes, DurableStep, RowsStep
<1>3. I => ReceiptedRowsStay
  BY DEF RowsInv, HasRows, ReceiptedRowsStay
<1> QED BY <1>1, <1>2, <1>3, PTL DEF Spec

-----------------------------------------------------------------------------
(* What follows is about ShardPackage.                                     *)

Assumptions == ShardAssumption /\ BoundAssumption /\ FileAssumption

Packages == [Objects -> Content]

LEMMA Constants ==
    ASSUME Assumptions
    PROVE  /\ ShardCount \in Nat \ {0} /\ MaxBuilds \in Nat /\ MaxFailures \in Nat
           /\ {Database, Ledger, Manifest} \subseteq Files /\ Marker \notin Files
           /\ Files \subseteq Objects /\ Marker \in Objects /\ Objects = Files \cup {Marker}
           /\ 1 \in Shards /\ Absent \in Content /\ Builds \subseteq Content /\ Absent \notin Builds
           /\ Builds \subseteq Nat /\ Content \subseteq Nat
  BY DEF Assumptions, ShardAssumption, BoundAssumption, FileAssumption, Objects, Shards, Content,
         Builds, Absent

LEMMA PackageFacts ==
    ASSUME Assumptions
    PROVE  /\ Empty \in Packages /\ Missing \notin Packages
           /\ \A f \in Objects : Empty[f] = Absent
  <1>1. Empty \in Packages /\ \A f \in Objects : Empty[f] = Absent
    BY Constants DEF Empty, Packages
  <1>2. ASSUME Missing \in Packages PROVE FALSE
    <2>1. Missing[Marker] = -1 /\ Missing[Marker] \in Nat
      BY <1>2, Constants DEF Missing, Packages
    <2> QED BY <2>1
  <1> QED BY <1>1, <1>2

LEMMA WithFacts ==
    ASSUME NEW held \in Packages, NEW f \in Objects, NEW b \in Content
    PROVE  /\ With(held, f, b) \in Packages /\ With(held, f, b)[f] = b
           /\ \A g \in Objects \ {f} : With(held, f, b)[g] = held[g]
  BY DEF With, Packages

-----------------------------------------------------------------------------
Working == {"upload", "mark", "swap", "rename"}

(* What the publication needs of the types.                                *)
Published ==
    /\ transport \in {"objects", "directory"} /\ policy \in {"plain", "forced", "shared"}
    /\ store \in [Shards -> Packages]
    /\ sibling \in [Shards -> Packages \cup {Missing}]
    /\ attempt \in [Publishers -> AttemptType]
    /\ builds \in 0 .. MaxBuilds /\ failures \in 0 .. MaxFailures

(* Unless destinations are shared, a shard has one attempt at a time.      *)
OneAtATime ==
    policy # "shared" =>
        \A p, q \in Publishers :
            attempt[p].pc # "idle" /\ attempt[q].pc # "idle" /\ attempt[p].shard = attempt[q].shard => p = q

(* What an attempt that has its shard for itself has done so far: objects  *)
(* at the destination or in the sibling; and an attempt that is not forced *)
(* works at a destination without marker.                                  *)
Work(p) ==
    LET a == attempt[p]  s == attempt[p].shard IN
    /\ a.pc # "idle" => a.build \in Builds /\ (policy = "plain" => a.force = FALSE)
    /\ a.pc \in {"swap", "rename"} => transport = "directory"
    /\ a.pc = "mark" => transport = "objects"
    /\ a.pc = "upload" => a.todo \subseteq Objects /\ (transport = "objects" => a.todo \subseteq Files)
    /\ policy # "shared" =>
         /\ a.pc = "upload" /\ transport = "objects" =>
               a.lost = FALSE /\ \A f \in Files \ a.todo : store[s][f] = a.build
         /\ a.pc = "mark" => \A f \in Files : store[s][f] = a.build
         /\ a.pc = "upload" /\ transport = "directory" =>
               sibling[s] # Missing /\ a.lost = FALSE /\ \A f \in Objects \ a.todo : sibling[s][f] = a.build
         /\ a.pc \in {"swap", "rename"} => sibling[s] # Missing /\ \A f \in Objects : sibling[s][f] = a.build
         /\ a.pc = "rename" => store[s] = Empty
         /\ a.pc \in Working /\ policy = "plain" => ~Marked(s)

(* A marker at a destination at which nobody works.                        *)
Rests(s) == failures = 0 /\ \A p \in Publishers : attempt[p].shard = s => attempt[p].pc \notin Working

Vouches(s) ==
    policy = "plain" \/ (policy = "forced" /\ Rests(s)) => (Marked(s) => Has(s, store[s][Marker]))

PubInv ==
    /\ Assumptions /\ Published /\ OneAtATime
    /\ \A p \in Publishers : Work(p)
    /\ \A s \in Shards : Vouches(s)

LEMMA AttemptFields ==
    ASSUME Published, NEW p \in Publishers
    PROVE  /\ attempt[p] \in AttemptType
           /\ attempt[p].pc \in Stages /\ attempt[p].shard \in Shards /\ attempt[p].build \in Content
           /\ attempt[p].force \in BOOLEAN /\ attempt[p].todo \in SUBSET Objects /\ attempt[p].lost \in BOOLEAN
  BY DEF Published, AttemptType

LEMMA PubInit ==
    ASSUME Assumptions, PackageInit
    PROVE  PubInv
<1>1. Idle \in AttemptType
  BY Constants DEF Idle, AttemptType, Stages, Absent
<1>2. Published
  BY <1>1, Constants, PackageFacts DEF PackageInit, Published, Assumptions
<1>3. \A p \in Publishers : attempt[p] = Idle
  BY DEF PackageInit
<1>4. \A p \in Publishers : Work(p)
  BY <1>3 DEF Idle, Work, Working
<1>5. \A s \in Shards : Vouches(s)
  BY PackageFacts, Constants DEF PackageInit, Vouches, Marked
<1> QED BY <1>2, <1>3, <1>4, <1>5 DEF PubInv, OneAtATime, Idle

(* A step of the attempt p at its shard touches nothing of another shard   *)
(* and no other attempt.                                                   *)
Frame(p) ==
    /\ transport' = transport /\ policy' = policy
    /\ failures' = 0 => failures = 0
    /\ \A q \in Publishers \ {p} : attempt'[q] = attempt[q]
    /\ \A t \in Shards \ {attempt[p].shard} : store'[t] = store[t] /\ sibling'[t] = sibling[t]
    /\ attempt'[p].pc # "idle" => attempt'[p].shard = attempt[p].shard

LEMMA Acts ==
    ASSUME PubInv, NEW p \in Publishers, attempt[p].pc # "idle", Frame(p), Published', Work(p)',
           NEW s \in Shards, s = attempt[p].shard, Vouches(s)'
    PROVE  PubInv'
<1>1. OneAtATime'
  BY DEF PubInv, OneAtATime, Frame
<1>2. ASSUME NEW q \in Publishers PROVE Work(q)'
  <2>1. CASE q = p
    BY <2>1
  <2>2. CASE q # p
    <3>1. attempt'[q] = attempt[q] /\ transport' = transport /\ policy' = policy /\ Work(q)
      BY <2>2 DEF PubInv, Frame
    <3>2. policy # "shared" /\ attempt[q].pc # "idle" =>
             store'[attempt[q].shard] = store[attempt[q].shard] /\ sibling'[attempt[q].shard] = sibling[attempt[q].shard]
      BY <2>2, AttemptFields DEF PubInv, Frame, OneAtATime
    <3> QED BY <3>1, <3>2 DEF Work, Working, Marked
  <2> QED BY <2>1, <2>2
<1>3. ASSUME NEW t \in Shards PROVE Vouches(t)'
  <2>1. CASE t = s
    BY <2>1
  <2>2. CASE t # s
    <3>1. store'[t] = store[t] /\ policy' = policy /\ Vouches(t)
      BY <2>2 DEF PubInv, Frame
    <3>2. Rests(t)' => Rests(t)
      BY <2>2 DEF Rests, Frame
    <3> QED BY <3>1, <3>2 DEF Vouches, Marked, Has
  <2> QED BY <2>1, <2>2
<1> QED BY <1>1, <1>2, <1>3 DEF PubInv, Assumptions, ShardAssumption, BoundAssumption, FileAssumption

LEMMA AttemptMoves ==
    ASSUME Assumptions, Published, NEW p \in Publishers, NEW step \in Stages, NEW todo \in SUBSET Objects,
           NEW lost \in BOOLEAN
    PROVE  /\ Goes(p, step, todo, lost) =>
                /\ attempt' \in [Publishers -> AttemptType]
                /\ \A q \in Publishers \ {p} : attempt'[q] = attempt[q]
                /\ attempt'[p].pc = step /\ attempt'[p].shard = attempt[p].shard
                /\ attempt'[p].build = attempt[p].build /\ attempt'[p].force = attempt[p].force
                /\ attempt'[p].todo = todo /\ attempt'[p].lost = lost
           /\ EndAttempt(p) =>
                /\ attempt' \in [Publishers -> AttemptType]
                /\ \A q \in Publishers \ {p} : attempt'[q] = attempt[q]
                /\ attempt'[p].pc = "idle"
<1>1. Idle \in AttemptType /\ Idle.pc = "idle"
  BY Constants DEF Idle, AttemptType, Stages, Absent
<1> DEFINE rec == [pc |-> step, shard |-> attempt[p].shard, build |-> attempt[p].build,
                   force |-> attempt[p].force, todo |-> todo, lost |-> lost]
<1>2. /\ rec \in AttemptType /\ rec.pc = step /\ rec.shard = attempt[p].shard
      /\ rec.build = attempt[p].build /\ rec.force = attempt[p].force /\ rec.todo = todo /\ rec.lost = lost
  BY AttemptFields DEF AttemptType
<1>3. Goes(p, step, todo, lost) => attempt' = [attempt EXCEPT ![p] = rec]
  BY DEF Goes
<1> HIDE DEF rec
<1> QED BY <1>1, <1>2, <1>3 DEF EndAttempt, Published

LEMMA StageStep ==
    ASSUME PubInv, NEW p \in Publishers, NEW s \in Shards, Stage(p, s)
    PROVE  PubInv'
<1>0. Assumptions /\ Published /\ builds + 1 \in Builds
  BY Constants DEF PubInv, Published, Stage, Builds
<1>1. PICK force \in (IF policy = "plain" THEN {FALSE} ELSE BOOLEAN) :
        attempt' = [attempt EXCEPT ![p] =
              [pc |-> "probe", shard |-> s, build |-> builds + 1, force |-> force, todo |-> {}, lost |-> FALSE]]
  BY DEF Stage
<1> DEFINE rec == [pc |-> "probe", shard |-> s, build |-> builds + 1, force |-> force, todo |-> {}, lost |-> FALSE]
<1>2. rec \in AttemptType /\ rec.pc = "probe" /\ rec.shard = s /\ rec.build \in Builds /\ rec.force = force
  BY <1>0, Constants DEF AttemptType, Stages
<1> HIDE DEF rec
<1>3. /\ attempt' \in [Publishers -> AttemptType] /\ attempt'[p] = rec
      /\ \A q \in Publishers \ {p} : attempt'[q] = attempt[q]
  BY <1>0, <1>1, <1>2 DEF Published, rec
<1>4. /\ UNCHANGED <<transport, policy, store, sibling, failures>> /\ attempt[p].pc = "idle"
      /\ builds' \in 0 .. MaxBuilds
      /\ policy # "shared" => \A q \in Publishers \ {p} : attempt[q].pc = "idle" \/ attempt[q].shard # s
  BY <1>0, Constants DEF Stage, MayStart, Published
<1>5. Published' /\ OneAtATime'
  <2>1. Published'
    BY <1>0, <1>3, <1>4 DEF Published
  <2>2. OneAtATime'
    BY <1>2, <1>3, <1>4 DEF PubInv, OneAtATime
  <2> QED BY <2>1, <2>2
<1>6. ASSUME NEW q \in Publishers PROVE Work(q)'
  <2>1. CASE q = p
    BY <1>1, <1>2, <1>3, <1>4, <2>1 DEF Work, Working
  <2>2. CASE q # p
    BY <1>3, <1>4, <2>2 DEF PubInv, Work, Working, Marked
  <2> QED BY <2>1, <2>2
<1>7. ASSUME NEW t \in Shards PROVE Vouches(t)'
  <2>1. Rests(t)' => Rests(t)
    BY <1>2, <1>3, <1>4 DEF Rests, Working
  <2> QED BY <1>4, <2>1 DEF PubInv, Vouches, Marked, Has
<1> QED BY <1>5, <1>6, <1>7 DEF PubInv, Assumptions, ShardAssumption, BoundAssumption, FileAssumption

LEMMA ProbeStep ==
    ASSUME PubInv, NEW p \in Publishers, Probe(p), NEW s \in Shards, s = attempt[p].shard
    PROVE  PubInv'
<1>0. /\ Assumptions /\ Published /\ Work(p) /\ attempt[p].pc = "probe" /\ Vouches(s)
      /\ UNCHANGED <<transport, policy, store, builds, failures>>
  BY DEF PubInv, Probe
<1>1. CASE Marked(s) /\ ~attempt[p].force
  <2>1. /\ UNCHANGED sibling /\ attempt' \in [Publishers -> AttemptType] /\ attempt'[p].pc = "idle"
        /\ \A q \in Publishers \ {p} : attempt'[q] = attempt[q]
    BY <1>0, <1>1, AttemptMoves DEF Probe, Stages
  <2>2. Published' /\ Frame(p) /\ Work(p)'
    BY <1>0, <2>1 DEF Published, Frame, Work, Working
  <2>3. Rests(s)' => Rests(s)
    BY <1>0, <2>1 DEF Rests, Working
  <2>4. Vouches(s)'
    BY <1>0, <2>3 DEF Vouches, Marked, Has
  <2> QED BY <1>0, <2>2, <2>4, Acts
<1>2. CASE ~(Marked(s) /\ ~attempt[p].force)
  <2>t. "upload" \in Stages /\ Files \in SUBSET Objects /\ FALSE \in BOOLEAN /\ Objects \in SUBSET Objects
    BY <1>0, Constants DEF Stages
  <2>1. /\ attempt' \in [Publishers -> AttemptType]
        /\ \A q \in Publishers \ {p} : attempt'[q] = attempt[q]
        /\ attempt'[p].pc = "upload" /\ attempt'[p].shard = s /\ attempt'[p].build = attempt[p].build
        /\ attempt'[p].force = attempt[p].force /\ attempt'[p].lost = FALSE
        /\ attempt'[p].todo = IF transport = "objects" THEN Files ELSE Objects
    BY <1>0, <1>2, <2>t, AttemptMoves DEF Probe
  <2>2. /\ transport = "objects" => UNCHANGED sibling
        /\ transport = "directory" => sibling' = [sibling EXCEPT ![s] = Empty]
    BY <1>0, <1>2 DEF Probe
  <2>3. Published' /\ Frame(p)
    BY <1>0, <2>1, <2>2, PackageFacts DEF Published, Frame
  <2>4. transport = "directory" => sibling'[s] # Missing
    BY <1>0, <2>2, PackageFacts DEF Published
  <2>5. policy = "plain" => ~Marked(s)
    BY <1>0, <1>2 DEF Work
  <2>6. Work(p)'
    <3>1. /\ attempt'[p].build \in Builds
          /\ policy = "plain" => attempt'[p].force = FALSE
      BY <1>0, <2>1 DEF Work
    <3>2. store'[s][Marker] = store[s][Marker] /\ policy' = policy /\ transport' = transport
      BY <1>0
    <3>3. /\ attempt'[p].todo \subseteq Objects
          /\ transport = "objects" => attempt'[p].todo \subseteq Files
          /\ transport = "objects" => Files \ attempt'[p].todo = {}
          /\ transport = "directory" => Objects \ attempt'[p].todo = {}
      BY <1>0, <2>1, <2>t
    <3> QED BY <2>1, <2>4, <2>5, <3>1, <3>2, <3>3 DEF Work, Working, Marked
  <2>7. attempt'[p].pc \in Working
    BY <2>1 DEF Working
  <2>8. Vouches(s)'
    BY <2>1, <2>6, <2>7 DEF Work, Vouches, Rests
  <2> QED BY <1>0, <2>3, <2>6, <2>8, Acts
<1> QED BY <1>1, <1>2

(* One object has arrived at the object store.                             *)
LEMMA UploadToStore ==
    ASSUME PubInv, NEW p \in Publishers, UploadObject(p), NEW s \in Shards, s = attempt[p].shard,
           transport = "objects"
    PROVE  PubInv'
<1>0. /\ Assumptions /\ Published /\ Work(p) /\ attempt[p].pc = "upload"
      /\ UNCHANGED <<transport, policy, builds, failures>>
  BY DEF PubInv, UploadObject
<1>1. PICK f \in attempt[p].todo :
          /\ Put(p, s, f)
          /\ IF attempt[p].todo # {f} THEN Goes(p, "upload", attempt[p].todo \ {f}, Lost(p, s))
             ELSE IF Lost(p, s) THEN EndAttempt(p) ELSE Goes(p, "mark", {}, FALSE)
  BY DEF UploadObject
<1> DEFINE b == attempt[p].build
<1>2. b \in Builds /\ b \in Content /\ f \in Files /\ f \in Objects /\ attempt[p].todo \subseteq Files
  BY <1>0, Constants DEF Work
<1>3. /\ store' \in [Shards -> Packages] /\ store'[s][f] = b
      /\ \A g \in Objects \ {f} : store'[s][g] = store[s][g]
      /\ \A t \in Shards \ {s} : store'[t] = store[t]
      /\ sibling' = sibling
  <2>1. store' = [store EXCEPT ![s] = With(store[s], f, b)] /\ sibling' = sibling
    BY <1>1 DEF Put
  <2>2. /\ With(store[s], f, b) \in Packages /\ With(store[s], f, b)[f] = b
        /\ \A g \in Objects \ {f} : With(store[s], f, b)[g] = store[s][g]
    BY <1>0, <1>2, WithFacts DEF Published
  <2> QED BY <1>0, <2>1, <2>2 DEF Published
<1>4. Lost(p, s) = attempt[p].lost
  BY <1>0, AttemptFields DEF Lost
<1>5. policy # "shared" => ~Lost(p, s)
  BY <1>0, <1>4 DEF Work
<1>t. /\ "upload" \in Stages /\ "mark" \in Stages /\ attempt[p].todo \ {f} \in SUBSET Objects
      /\ {} \in SUBSET Objects /\ FALSE \in BOOLEAN /\ Lost(p, s) \in BOOLEAN
  BY <1>0, <1>4, AttemptFields DEF Stages
<1>m. policy = "plain" => ~Marked(s)'
  <2>1. Marker \in Objects \ {f}
    BY <1>0, <1>2, Constants
  <2> QED BY <1>0, <1>3, <2>1 DEF Work, Working, Marked
<1>6. CASE attempt[p].todo # {f}
  <2>1. /\ attempt' \in [Publishers -> AttemptType]
        /\ \A q \in Publishers \ {p} : attempt'[q] = attempt[q]
        /\ attempt'[p].pc = "upload" /\ attempt'[p].shard = s /\ attempt'[p].build = b
        /\ attempt'[p].force = attempt[p].force /\ attempt'[p].lost = Lost(p, s)
        /\ attempt'[p].todo = attempt[p].todo \ {f}
    <3>1. Goes(p, "upload", attempt[p].todo \ {f}, Lost(p, s))
      BY <1>1, <1>6
    <3>2. ASSUME NEW l \in BOOLEAN, l = Lost(p, s)
          PROVE  /\ attempt' \in [Publishers -> AttemptType]
                 /\ \A q \in Publishers \ {p} : attempt'[q] = attempt[q]
                 /\ attempt'[p].pc = "upload" /\ attempt'[p].shard = s /\ attempt'[p].build = b
                 /\ attempt'[p].force = attempt[p].force /\ attempt'[p].lost = l
                 /\ attempt'[p].todo = attempt[p].todo \ {f}
      <4>1. Goes(p, "upload", attempt[p].todo \ {f}, l)
        BY <3>1, <3>2
      <4> QED BY <1>0, <4>1, <1>t, AttemptMoves
    <3> QED BY <3>2, <1>t
  <2>2. Published' /\ Frame(p)
    BY <1>0, <1>3, <2>1 DEF Published, Frame
  <2>3. policy # "shared" => attempt'[p].lost = FALSE /\ \A g \in Files \ attempt'[p].todo : store'[s][g] = b
    <3>1. policy # "shared" => attempt'[p].lost = FALSE
      BY <1>0, <1>4, <2>1 DEF Work
    <3>2. policy # "shared" => \A g \in Files \ attempt[p].todo : store[s][g] = b
      BY <1>0 DEF Work
    <3>3. policy # "shared" => \A g \in Files \ attempt'[p].todo : store'[s][g] = b
      BY <1>0, <1>3, <2>1, <3>2, Constants
    <3> QED BY <3>1, <3>3
  <2>4. Work(p)'
    BY <1>0, <1>2, <1>m, <2>1, <2>3, Constants DEF Work, Working
  <2>5. Vouches(s)'
    BY <1>0, <1>m, <2>1 DEF Vouches, Rests, Working
  <2> QED BY <1>0, <2>2, <2>4, <2>5, Acts
<1>7. CASE attempt[p].todo = {f} /\ Lost(p, s)
  <2>1. /\ attempt' \in [Publishers -> AttemptType] /\ attempt'[p].pc = "idle"
        /\ \A q \in Publishers \ {p} : attempt'[q] = attempt[q]
    BY <1>0, <1>1, <1>7, <1>t, AttemptMoves
  <2>2. Published' /\ Frame(p) /\ Work(p)'
    BY <1>0, <1>3, <2>1 DEF Published, Frame, Work, Working
  <2>3. Vouches(s)'
    BY <1>0, <1>5, <1>7 DEF Vouches
  <2> QED BY <1>0, <2>2, <2>3, Acts
<1>8. CASE attempt[p].todo = {f} /\ ~Lost(p, s)
  <2>1. /\ attempt' \in [Publishers -> AttemptType]
        /\ \A q \in Publishers \ {p} : attempt'[q] = attempt[q]
        /\ attempt'[p].pc = "mark" /\ attempt'[p].shard = s /\ attempt'[p].build = b
        /\ attempt'[p].force = attempt[p].force
    BY <1>0, <1>1, <1>8, <1>t, AttemptMoves
  <2>2. Published' /\ Frame(p)
    BY <1>0, <1>3, <2>1 DEF Published, Frame
  <2>3. policy # "shared" => \A g \in Files : store'[s][g] = b
    <3>1. policy # "shared" => \A g \in Files \ {f} : store[s][g] = b
      BY <1>0, <1>8 DEF Work
    <3> QED BY <1>0, <1>3, <3>1, Constants
  <2>4. Work(p)'
    BY <1>0, <1>2, <1>m, <2>1, <2>3 DEF Work, Working
  <2>5. Vouches(s)'
    BY <1>0, <1>m, <2>1 DEF Vouches, Rests, Working
  <2> QED BY <1>0, <2>2, <2>4, <2>5, Acts
<1> QED BY <1>6, <1>7, <1>8

(* One object has been copied to the sibling.                              *)
LEMMA UploadCopy ==
    ASSUME PubInv, NEW p \in Publishers, UploadObject(p), NEW s \in Shards, s = attempt[p].shard,
           transport = "directory"
    PROVE  PubInv'
<1>0. /\ Assumptions /\ Published /\ Work(p) /\ attempt[p].pc = "upload"
      /\ UNCHANGED <<transport, policy, builds, failures>>
  BY DEF PubInv, UploadObject
<1>1. PICK f \in attempt[p].todo :
          /\ Put(p, s, f)
          /\ IF attempt[p].todo # {f} THEN Goes(p, "upload", attempt[p].todo \ {f}, Lost(p, s))
             ELSE IF Lost(p, s) THEN EndAttempt(p) ELSE Goes(p, "swap", {}, FALSE)
  BY DEF UploadObject
<1> DEFINE b == attempt[p].build
<1>2. b \in Builds /\ b \in Content /\ f \in Objects /\ attempt[p].todo \subseteq Objects
  BY <1>0, Constants DEF Work
<1>3. /\ sibling' \in [Shards -> Packages \cup {Missing}] /\ store' = store
      /\ \A t \in Shards \ {s} : sibling'[t] = sibling[t]
      /\ sibling[s] # Missing =>
            /\ sibling'[s] # Missing /\ sibling'[s][f] = b
            /\ \A g \in Objects \ {f} : sibling'[s][g] = sibling[s][g]
  <2>1. CASE sibling[s] = Missing
    BY <1>0, <1>1, <2>1 DEF Put, Published
  <2>2. CASE sibling[s] # Missing
    <3>1. sibling' = [sibling EXCEPT ![s] = With(sibling[s], f, b)] /\ store' = store
      BY <1>0, <1>1, <2>2 DEF Put
    <3>2. /\ With(sibling[s], f, b) \in Packages /\ With(sibling[s], f, b)[f] = b
          /\ \A g \in Objects \ {f} : With(sibling[s], f, b)[g] = sibling[s][g]
      BY <1>0, <1>2, <2>2, WithFacts DEF Published
    <3> QED BY <1>0, <3>1, <3>2, PackageFacts DEF Published
  <2> QED BY <2>1, <2>2
<1>4. policy # "shared" =>
         /\ Lost(p, s) = FALSE /\ sibling[s] # Missing
         /\ \A g \in Objects \ attempt[p].todo : sibling[s][g] = b
  BY <1>0 DEF Work, Lost
<1>t. /\ "upload" \in Stages /\ "swap" \in Stages /\ attempt[p].todo \ {f} \in SUBSET Objects
      /\ {} \in SUBSET Objects /\ FALSE \in BOOLEAN /\ Lost(p, s) \in BOOLEAN
  BY <1>0, AttemptFields DEF Stages, Lost
<1>m. policy = "plain" => ~Marked(s)'
  BY <1>0, <1>3 DEF Work, Working, Marked
<1>6. CASE attempt[p].todo # {f}
  <2>1. /\ attempt' \in [Publishers -> AttemptType]
        /\ \A q \in Publishers \ {p} : attempt'[q] = attempt[q]
        /\ attempt'[p].pc = "upload" /\ attempt'[p].shard = s /\ attempt'[p].build = b
        /\ attempt'[p].force = attempt[p].force /\ attempt'[p].lost = Lost(p, s)
        /\ attempt'[p].todo = attempt[p].todo \ {f}
    <3>1. Goes(p, "upload", attempt[p].todo \ {f}, Lost(p, s))
      BY <1>1, <1>6
    <3>2. ASSUME NEW l \in BOOLEAN, l = Lost(p, s)
          PROVE  /\ attempt' \in [Publishers -> AttemptType]
                 /\ \A q \in Publishers \ {p} : attempt'[q] = attempt[q]
                 /\ attempt'[p].pc = "upload" /\ attempt'[p].shard = s /\ attempt'[p].build = b
                 /\ attempt'[p].force = attempt[p].force /\ attempt'[p].lost = l
                 /\ attempt'[p].todo = attempt[p].todo \ {f}
      <4>1. Goes(p, "upload", attempt[p].todo \ {f}, l)
        BY <3>1, <3>2
      <4> QED BY <1>0, <4>1, <1>t, AttemptMoves
    <3> QED BY <3>2, <1>t
  <2>2. Published' /\ Frame(p)
    BY <1>0, <1>3, <2>1 DEF Published, Frame
  <2>3. policy # "shared" =>
           sibling'[s] # Missing /\ attempt'[p].lost = FALSE /\ \A g \in Objects \ attempt'[p].todo : sibling'[s][g] = b
    BY <1>3, <1>4, <2>1
  <2>4. Work(p)'
    BY <1>0, <1>2, <1>m, <2>1, <2>3 DEF Work, Working
  <2>5. Vouches(s)'
    BY <1>0, <1>m, <2>1 DEF Vouches, Rests, Working
  <2> QED BY <1>0, <2>2, <2>4, <2>5, Acts
<1>7. CASE attempt[p].todo = {f} /\ Lost(p, s)
  <2>1. /\ attempt' \in [Publishers -> AttemptType] /\ attempt'[p].pc = "idle"
        /\ \A q \in Publishers \ {p} : attempt'[q] = attempt[q]
    BY <1>0, <1>1, <1>7, <1>t, AttemptMoves
  <2>2. Published' /\ Frame(p) /\ Work(p)'
    BY <1>0, <1>3, <2>1 DEF Published, Frame, Work, Working
  <2>3. Vouches(s)'
    BY <1>0, <1>4, <1>7 DEF Vouches
  <2> QED BY <1>0, <2>2, <2>3, Acts
<1>8. CASE attempt[p].todo = {f} /\ ~Lost(p, s)
  <2>1. /\ attempt' \in [Publishers -> AttemptType]
        /\ \A q \in Publishers \ {p} : attempt'[q] = attempt[q]
        /\ attempt'[p].pc = "swap" /\ attempt'[p].shard = s /\ attempt'[p].build = b
        /\ attempt'[p].force = attempt[p].force
    BY <1>0, <1>1, <1>8, <1>t, AttemptMoves
  <2>2. Published' /\ Frame(p)
    BY <1>0, <1>3, <2>1 DEF Published, Frame
  <2>3. policy # "shared" => sibling'[s] # Missing /\ \A g \in Objects : sibling'[s][g] = b
    BY <1>3, <1>4, <1>8
  <2>4. Work(p)'
    BY <1>0, <1>2, <1>m, <2>1, <2>3 DEF Work, Working
  <2>5. Vouches(s)'
    BY <1>0, <1>m, <2>1 DEF Vouches, Rests, Working
  <2> QED BY <1>0, <2>2, <2>4, <2>5, Acts
<1> QED BY <1>6, <1>7, <1>8

LEMMA MarkStep ==
    ASSUME PubInv, NEW p \in Publishers, Mark(p), NEW s \in Shards, s = attempt[p].shard
    PROVE  PubInv'
<1>0. /\ Assumptions /\ Published /\ Work(p) /\ attempt[p].pc = "mark"
      /\ UNCHANGED <<transport, policy, sibling, builds, failures>> /\ EndAttempt(p)
  BY DEF PubInv, Mark
<1> DEFINE b == attempt[p].build
<1>1. b \in Builds /\ b \in Content
  BY <1>0, Constants DEF Work
<1>2. /\ store' \in [Shards -> Packages] /\ store'[s][Marker] = b
      /\ \A g \in Objects \ {Marker} : store'[s][g] = store[s][g]
      /\ \A t \in Shards \ {s} : store'[t] = store[t]
  <2>1. store' = [store EXCEPT ![s] = With(store[s], Marker, b)]
    BY DEF Mark
  <2>2. /\ With(store[s], Marker, b) \in Packages /\ With(store[s], Marker, b)[Marker] = b
        /\ \A g \in Objects \ {Marker} : With(store[s], Marker, b)[g] = store[s][g]
    BY <1>0, <1>1, Constants, WithFacts DEF Published
  <2> QED BY <1>0, <2>1, <2>2 DEF Published
<1>3. /\ attempt' \in [Publishers -> AttemptType] /\ attempt'[p].pc = "idle"
      /\ \A q \in Publishers \ {p} : attempt'[q] = attempt[q]
  BY <1>0, AttemptMoves DEF Stages
<1>4. Published' /\ Frame(p) /\ Work(p)'
  BY <1>0, <1>2, <1>3 DEF Published, Frame, Work, Working
<1>5. policy # "shared" => \A g \in Objects : store'[s][g] = store'[s][Marker]
  <2>1. policy # "shared" => \A g \in Files : store[s][g] = b
    BY <1>0 DEF Work
  <2> QED BY <1>0, <1>2, <2>1, Constants
<1>6. Vouches(s)'
  BY <1>0, <1>5 DEF Vouches, Has
<1> QED BY <1>0, <1>4, <1>6, Acts

LEMMA SwapStep ==
    ASSUME PubInv, NEW p \in Publishers, Swap(p), NEW s \in Shards, s = attempt[p].shard
    PROVE  PubInv'
<1>0. /\ Assumptions /\ Published /\ Work(p) /\ attempt[p].pc = "swap"
      /\ UNCHANGED <<transport, policy, sibling, builds, failures>> /\ Goes(p, "rename", {}, FALSE)
      /\ store' = [store EXCEPT ![s] = Empty]
  BY DEF PubInv, Swap
<1>1. /\ store' \in [Shards -> Packages] /\ store'[s] = Empty
      /\ \A t \in Shards \ {s} : store'[t] = store[t]
  BY <1>0, PackageFacts DEF Published
<1>t. "rename" \in Stages /\ {} \in SUBSET Objects /\ FALSE \in BOOLEAN
  BY DEF Stages
<1>2. /\ attempt' \in [Publishers -> AttemptType]
      /\ \A q \in Publishers \ {p} : attempt'[q] = attempt[q]
      /\ attempt'[p].pc = "rename" /\ attempt'[p].shard = s /\ attempt'[p].build = attempt[p].build
      /\ attempt'[p].force = attempt[p].force
  BY <1>0, <1>t, AttemptMoves
<1>3. Published' /\ Frame(p)
  BY <1>0, <1>1, <1>2 DEF Published, Frame
<1>4. ~Marked(s)'
  BY <1>0, <1>1, PackageFacts, Constants DEF Marked
<1>5. Work(p)'
  BY <1>0, <1>1, <1>2, <1>4 DEF Work, Working
<1>6. Vouches(s)'
  BY <1>4 DEF Vouches
<1> QED BY <1>0, <1>3, <1>5, <1>6, Acts

LEMMA RenameStep ==
    ASSUME PubInv, NEW p \in Publishers, RenameSibling(p), NEW s \in Shards, s = attempt[p].shard
    PROVE  PubInv'
<1>0. /\ Assumptions /\ Published /\ Work(p) /\ attempt[p].pc = "rename"
      /\ UNCHANGED <<transport, policy, builds, failures>> /\ EndAttempt(p)
  BY DEF PubInv, RenameSibling
<1>1. /\ attempt' \in [Publishers -> AttemptType] /\ attempt'[p].pc = "idle"
      /\ \A q \in Publishers \ {p} : attempt'[q] = attempt[q]
  BY <1>0, AttemptMoves DEF Stages
<1>2. CASE sibling[s] = Missing \/ store[s] # Empty
  <2>1. UNCHANGED <<store, sibling>> /\ policy = "shared"
    BY <1>0, <1>2 DEF RenameSibling, Work
  <2>2. Published' /\ Frame(p) /\ Work(p)' /\ Vouches(s)'
    BY <1>0, <1>1, <2>1 DEF Published, Frame, Work, Working, Vouches
  <2> QED BY <1>0, <2>2, Acts
<1>3. CASE sibling[s] # Missing /\ store[s] = Empty
  <2>1. /\ store' = [store EXCEPT ![s] = sibling[s]] /\ sibling' = [sibling EXCEPT ![s] = Missing]
        /\ sibling[s] \in Packages
    BY <1>0, <1>3 DEF RenameSibling, Published
  <2>2. /\ store' \in [Shards -> Packages] /\ sibling' \in [Shards -> Packages \cup {Missing}]
        /\ store'[s] = sibling[s]
        /\ \A t \in Shards \ {s} : store'[t] = store[t] /\ sibling'[t] = sibling[t]
    BY <1>0, <2>1 DEF Published
  <2>3. Published' /\ Frame(p) /\ Work(p)'
    BY <1>0, <1>1, <2>2 DEF Published, Frame, Work, Working
  <2>4. policy # "shared" => \A g \in Objects : store'[s][g] = store'[s][Marker]
    BY <1>0, <2>2, Constants DEF Work
  <2>5. Vouches(s)'
    BY <1>0, <2>4 DEF Vouches, Has
  <2> QED BY <1>0, <2>3, <2>5, Acts
<1> QED BY <1>2, <1>3

LEMMA KillStep ==
    ASSUME PubInv, NEW p \in Publishers, KillPublisher(p), NEW s \in Shards, s = attempt[p].shard
    PROVE  PubInv'
<1>0. /\ Assumptions /\ Published /\ Work(p) /\ attempt[p].pc # "idle" /\ Vouches(s)
      /\ UNCHANGED <<transport, policy, sibling, builds>> /\ EndAttempt(p)
      /\ failures' \in 0 .. MaxFailures /\ failures' # 0
  BY Constants DEF PubInv, KillPublisher, Published
<1>1. /\ attempt' \in [Publishers -> AttemptType] /\ attempt'[p].pc = "idle"
      /\ \A q \in Publishers \ {p} : attempt'[q] = attempt[q]
  BY <1>0, AttemptMoves DEF Stages
<1>2. CASE UNCHANGED store
  <2>1. Published' /\ Frame(p) /\ Work(p)' /\ Vouches(s)'
    BY <1>0, <1>1, <1>2 DEF Published, Frame, Work, Working, Vouches, Rests, Marked, Has
  <2> QED BY <1>0, <2>1, Acts
<1>3. ASSUME NEW gone \in SUBSET Objects, attempt[p].pc = "swap",
             store' = [store EXCEPT ![s] = [f \in Objects |-> IF f \in gone THEN Absent ELSE @[f]]]
      PROVE  PubInv'
  <2> DEFINE torn == [f \in Objects |-> IF f \in gone THEN Absent ELSE store[s][f]]
  <2>1. /\ torn \in Packages /\ torn[Marker] \in {Absent, store[s][Marker]}
        /\ store' = [store EXCEPT ![s] = torn]
    BY <1>0, <1>3, Constants DEF Published, Packages
  <2> HIDE DEF torn
  <2>2. /\ store' \in [Shards -> Packages] /\ store'[s] = torn
        /\ \A t \in Shards \ {s} : store'[t] = store[t]
    BY <1>0, <2>1 DEF Published
  <2>3. Published' /\ Frame(p) /\ Work(p)'
    BY <1>0, <1>1, <2>2 DEF Published, Frame, Work, Working
  <2>4. policy = "plain" => ~Marked(s)'
    BY <1>0, <1>3, <2>1, <2>2 DEF Work, Working, Marked
  <2>5. Vouches(s)'
    BY <1>0, <2>4 DEF Vouches, Rests
  <2> QED BY <1>0, <2>3, <2>5, Acts
<1> QED BY <1>2, <1>3 DEF KillPublisher

LEMMA PubStep ==
    ASSUME PubInv, [PackageNext]_packageVars
    PROVE  PubInv'
<1>1. ASSUME NEW p \in Publishers, PublisherStep(p) \/ KillPublisher(p) PROVE PubInv'
  <2>1. PICK s \in Shards : s = attempt[p].shard
    BY AttemptFields DEF PubInv
  <2>2. transport \in {"objects", "directory"}
    BY DEF PubInv, Published
  <2> QED BY <1>1, <2>1, <2>2, ProbeStep, UploadToStore, UploadCopy, MarkStep, SwapStep, RenameStep, KillStep
          DEF PublisherStep
<1>2. CASE UNCHANGED published
  <2>1. Published' /\ OneAtATime'
    BY <1>2 DEF published, PubInv, Published, OneAtATime
  <2>2. ASSUME NEW p \in Publishers PROVE Work(p)'
    BY <1>2 DEF published, PubInv, Work, Working, Marked
  <2>3. ASSUME NEW s \in Shards PROVE Vouches(s)'
    BY <1>2 DEF published, PubInv, Vouches, Rests, Marked, Has
  <2> QED BY <2>1, <2>2, <2>3 DEF PubInv, Assumptions, ShardAssumption, BoundAssumption, FileAssumption
<1>3. CASE ReaderStep \/ AuditStep \/ \E s \in Shards : ReadMarker(s)
  BY <1>2, <1>3 DEF ReaderStep, ReadManifest, ReadLedger, Fetch, AuditStep, AuditMarker, AuditLedger, ReadMarker
<1>4. CASE UNCHANGED packageVars
  BY <1>2, <1>4 DEF packageVars, published
<1> QED BY <1>1, <1>3, <1>4, StageStep DEF PackageNext

(* A completion marker vouches for the whole package it came with: always  *)
(* when attempts are plain; when they may be forced, as long as none is    *)
(* under way and none was killed (distributed.py:255-294).                 *)
THEOREM MarkersVouch == Assumptions /\ PackageSpec => []MarkerVouches
<1>1. Assumptions /\ PackageInit => PubInv
  BY PubInit
<1>2. PubInv /\ [PackageNext]_packageVars => PubInv'
  BY PubStep
<1>3. PubInv => MarkerVouches
  <2> SUFFICES ASSUME PubInv, NEW s \in Shards, Marked(s),
                      policy = "plain" \/ (policy = "forced" /\ Quiet(s) /\ failures = 0)
               PROVE  Has(s, store[s][Marker])
    BY DEF MarkerVouches
  <2>1. Quiet(s) /\ failures = 0 => Rests(s)
    BY DEF Quiet, Rests, Working
  <2> QED BY <2>1 DEF PubInv, Vouches
<1> QED BY <1>1, <1>2, <1>3, PTL DEF PackageSpec

(* No attempt that is not forced, nor its retries after any failure, ever  *)
(* changes an object of a package that has its marker.                     *)
LEMMA MarkedStays ==
    ASSUME PubInv, [PackageNext]_packageVars, policy = "plain", NEW s \in Shards, Marked(s)
    PROVE  store'[s] = store[s] /\ policy' = policy
<1>1. ASSUME NEW p \in Publishers, PublisherStep(p) \/ KillPublisher(p)
      PROVE  store'[s] = store[s] /\ policy' = policy
  <2>1. attempt[p].pc \in Working => attempt[p].shard # s
    BY DEF PubInv, Work
  <2>2. PICK t \in Shards : t = attempt[p].shard
    BY AttemptFields DEF PubInv
  <2>3. store \in [Shards -> Packages]
    BY DEF PubInv, Published
  <2>4. CASE Probe(p) \/ KillPublisher(p)
    BY <2>1, <2>2, <2>3, <2>4 DEF Probe, KillPublisher, Working
  <2>5. CASE UploadObject(p)
    <3>1. PICK f \in attempt[p].todo : Put(p, t, f)
      BY <2>2, <2>5 DEF UploadObject
    <3> QED BY <2>1, <2>2, <2>3, <2>5, <3>1 DEF UploadObject, Put, Working
  <2>6. CASE Mark(p) \/ Swap(p) \/ RenameSibling(p)
    BY <2>1, <2>2, <2>3, <2>6 DEF Mark, Swap, RenameSibling, Working
  <2> QED BY <1>1, <2>4, <2>5, <2>6 DEF PublisherStep
<1>2. ASSUME NEW p \in Publishers, NEW t \in Shards, Stage(p, t) PROVE store'[s] = store[s] /\ policy' = policy
  BY <1>2 DEF Stage
<1>3. CASE ReaderStep \/ AuditStep \/ \E t \in Shards : ReadMarker(t)
  BY <1>3 DEF ReaderStep, ReadManifest, ReadLedger, Fetch, AuditStep, AuditMarker, AuditLedger, ReadMarker, published
<1>4. CASE UNCHANGED packageVars
  BY <1>4 DEF packageVars
<1> QED BY <1>1, <1>2, <1>3, <1>4 DEF PackageNext

(* The same, of every step of a behaviour (distributed.py:259-291).        *)
THEOREM PlainPackageIsFinal == Assumptions /\ PackageSpec => PackageIsFinal
<1>1. Assumptions /\ PackageInit => PubInv
  BY PubInit
<1>2. PubInv /\ [PackageNext]_packageVars => PubInv'
  BY PubStep
<1>3. PubInv /\ [PackageNext]_packageVars => [\A s \in Shards : policy = "plain" /\ Marked(s) => store'[s] = store[s]]_packageVars
  BY MarkedStays
<1> QED BY <1>1, <1>2, <1>3, PTL DEF PackageSpec, PackageIsFinal

LEMMA PlainMarked ==
    ASSUME PubInv, policy = "plain", NEW s \in Shards, Marked(s)
    PROVE  Has(s, store[s][Marker])
  BY DEF PubInv, Vouches

-----------------------------------------------------------------------------
(* The consolidation.  The marker it holds is the one that is there, when  *)
(* attempts are plain, and binds the ledger it went on with.               *)

ReaderInv ==
    /\ reader.shard \in Shards
    /\ reader.pc # "idle" /\ policy = "plain" =>
          Marked(reader.shard) /\ store[reader.shard][Marker] = reader.marker
    /\ reader.pc = "fetch" => IdsOf(reader.shard, reader.ledger) = IdsOf(reader.shard, reader.marker)
    /\ \A s \in Shards : taken[s] # <<0, 0>> =>
          /\ IdsOf(s, taken[s][2]) = IdsOf(s, taken[s][1])
          /\ policy = "plain" => taken[s][2] = taken[s][1]

(* What makes EXCEPT on the two variables mean what it says.               *)
ReaderShape ==
    /\ reader \in [pc : {"idle", "manifest", "ledger", "fetch"}, shard : Shards,
                   marker : Content, manifest : Content, ledger : Content]
    /\ taken \in [Shards -> Content \X Content]

ReadInv == PubInv /\ ReaderShape /\ ReaderInv

LEMMA RestingFacts ==
    ASSUME Assumptions
    PROVE  /\ Resting \in ReaderType /\ Resting.pc = "idle" /\ Resting.shard = 1 /\ 1 \in Shards
  BY Constants DEF Resting, ReaderType, Absent

LEMMA ReadInit ==
    ASSUME Assumptions, PackageInit
    PROVE  ReadInv
<1>1. PubInv
  BY PubInit
<1>2. reader = Resting /\ taken = [s \in Shards |-> <<0, 0>>]
  BY DEF PackageInit
<1>3. ReaderShape
  BY <1>2, RestingFacts, Constants DEF ReaderShape, ReaderType, Absent
<1> QED BY <1>1, <1>2, <1>3, RestingFacts DEF ReadInv, ReaderInv

(* A step of a publisher, and of anyone, leaves what plain markers say.    *)
LEMMA ReadKept ==
    ASSUME ReadInv, [PackageNext]_packageVars, UNCHANGED <<reader, taken>>
    PROVE  ReadInv'
<1>1. PubInv'
  BY PubStep DEF ReadInv
<1>2. policy' = policy
  BY DEF PackageNext, Stage, PublisherStep, Probe, UploadObject, Mark, Swap, RenameSibling, KillPublisher, ReadMarker, ReaderStep,
         ReadManifest, ReadLedger, Fetch, AuditStep, AuditMarker, AuditLedger, published, packageVars
<1>3. reader.pc # "idle" /\ policy = "plain" => store'[reader.shard] = store[reader.shard]
  BY MarkedStays DEF ReadInv, ReaderInv
<1>4. ReaderShape'
  BY DEF ReadInv, ReaderShape
<1>5. ReaderInv'
  BY <1>2, <1>3 DEF ReadInv, ReaderInv, Marked, IdsOf
<1> QED BY <1>1, <1>4, <1>5 DEF ReadInv

LEMMA ReadStep ==
    ASSUME ReadInv, [PackageNext]_packageVars
    PROVE  ReadInv'
<1>0. /\ PubInv /\ PubInv' /\ Assumptions /\ ReaderShape /\ ReaderInv
      /\ store \in [Shards -> Packages]
  BY PubStep DEF ReadInv, PubInv, Published
<1>p. \A s \in Shards, f \in Objects : store[s][f] \in Content
  BY <1>0 DEF Packages
<1>o. {Database, Ledger, Manifest, Marker} \subseteq Objects
  BY <1>0, Constants
<1>1. ASSUME NEW s \in Shards, ReadMarker(s) PROVE ReadInv'
  <2>1. /\ reader' = [Resting EXCEPT !.pc = "manifest", !.shard = s, !.marker = store[s][Marker]]
        /\ taken' = taken /\ UNCHANGED <<store, policy>> /\ Marked(s)
    BY <1>1 DEF ReadMarker, published, Marked
  <2>2. store[s][Marker] \in Content
    BY <1>p, <1>o
  <2>3. /\ reader' \in ReaderType /\ reader'.pc = "manifest" /\ reader'.shard = s
        /\ reader'.marker = store[s][Marker]
    BY <1>0, <2>1, <2>2, RestingFacts DEF ReaderType
  <2> QED BY <1>0, <2>1, <2>3 DEF ReadInv, ReaderShape, ReaderInv, ReaderType, Marked, IdsOf
<1>r. ASSUME reader' = Resting, taken' = taken, UNCHANGED published PROVE ReadInv'
  BY <1>0, <1>r, RestingFacts DEF ReadInv, ReaderShape, ReaderInv, ReaderType, published, IdsOf
<1>2. CASE ReadManifest
  <2>1. CASE store[reader.shard][Manifest] = Absent
    BY <1>r, <1>2, <2>1 DEF ReadManifest
  <2>2. CASE store[reader.shard][Manifest] # Absent
    <3>1. /\ reader' = [reader EXCEPT !.pc = "ledger", !.manifest = store[reader.shard][Manifest]]
          /\ taken' = taken /\ UNCHANGED <<store, policy>> /\ reader.pc = "manifest"
      BY <1>2, <2>2 DEF ReadManifest, published
    <3>2. store[reader.shard][Manifest] \in Content
      BY <1>0, <1>p, <1>o DEF ReaderShape
    <3>3. /\ reader' \in ReaderType /\ reader'.pc = "ledger" /\ reader'.shard = reader.shard
          /\ reader'.marker = reader.marker
      BY <1>0, <3>1, <3>2 DEF ReaderShape, ReaderType
    <3> QED BY <1>0, <3>1, <3>3 DEF ReadInv, ReaderShape, ReaderInv, ReaderType, Marked, IdsOf
  <2> QED BY <2>1, <2>2
<1>3. CASE ReadLedger
  <2> DEFINE ledger == store[reader.shard][Ledger]
  <2>1. CASE ~Bound(reader.shard, reader.marker, reader.manifest, ledger)
    BY <1>r, <1>3, <2>1 DEF ReadLedger
  <2>2. CASE Bound(reader.shard, reader.marker, reader.manifest, ledger)
    <3>1. /\ reader' = [reader EXCEPT !.pc = "fetch", !.ledger = ledger]
          /\ taken' = taken /\ UNCHANGED <<store, policy>> /\ reader.pc = "ledger"
          /\ IdsOf(reader.shard, ledger) = IdsOf(reader.shard, reader.marker)
      BY <1>3, <2>2 DEF ReadLedger, published, Bound
    <3>2. ledger \in Content
      BY <1>0, <1>p, <1>o DEF ReaderShape
    <3> HIDE DEF ledger
    <3>3. /\ reader' \in ReaderType /\ reader'.pc = "fetch" /\ reader'.shard = reader.shard
          /\ reader'.marker = reader.marker /\ reader'.ledger = ledger
      BY <1>0, <3>1, <3>2 DEF ReaderShape, ReaderType
    <3> QED BY <1>0, <3>1, <3>3 DEF ReadInv, ReaderShape, ReaderInv, ReaderType, Marked, IdsOf
  <2> QED BY <2>1, <2>2
<1>4. CASE Fetch
  <2>1. PICK s \in Shards : s = reader.shard
    BY <1>0 DEF ReaderInv
  <2>2. PICK database \in Content : database = store[s][Database]
    BY <1>p, <1>o
  <2>3. CASE ~(database # Absent /\ IdsOf(s, database) = IdsOf(s, reader.ledger))
    BY <1>r, <1>4, <2>1, <2>2, <2>3 DEF Fetch
  <2>4. CASE database # Absent /\ IdsOf(s, database) = IdsOf(s, reader.ledger)
    <3>1. /\ taken' = [taken EXCEPT ![s] = <<reader.marker, database>>] /\ reader' = Resting
          /\ UNCHANGED <<store, policy>> /\ reader.pc = "fetch" /\ reader.marker \in Content
      BY <1>0, <1>4, <2>1, <2>2, <2>4 DEF Fetch, published, ReaderShape
    <3>2. IdsOf(s, database) = IdsOf(s, reader.marker)
      BY <1>0, <2>1, <2>4, <3>1 DEF ReaderInv
    <3>3. policy = "plain" => database = reader.marker
      BY <1>0, <1>o, <2>1, <2>2, <3>1, PlainMarked DEF ReaderInv, Has
    <3>4. /\ taken' \in [Shards -> Content \X Content] /\ taken'[s] = <<reader.marker, database>>
          /\ \A t \in Shards \ {s} : taken'[t] = taken[t]
      BY <1>0, <3>1 DEF ReaderShape
    <3>5. ASSUME NEW t \in Shards, taken'[t] # <<0, 0>>
          PROVE  /\ IdsOf(t, taken'[t][2]) = IdsOf(t, taken'[t][1])
                 /\ policy' = "plain" => taken'[t][2] = taken'[t][1]
      <4>1. CASE t = s
        BY <3>1, <3>2, <3>3, <3>4, <4>1
      <4>2. CASE t # s
        BY <1>0, <3>1, <3>4, <3>5, <4>2 DEF ReaderInv
      <4> QED BY <4>1, <4>2
    <3> QED BY <1>0, <3>1, <3>4, <3>5, RestingFacts DEF ReadInv, ReaderShape, ReaderInv, ReaderType, IdsOf
  <2> QED BY <2>3, <2>4
<1>5. ASSUME NEW p \in Publishers, PublisherStep(p) \/ KillPublisher(p) \/ \E s \in Shards : Stage(p, s) PROVE ReadInv'
  BY <1>5, ReadKept DEF PublisherStep, Probe, UploadObject, Mark, Swap, RenameSibling, KillPublisher, Stage, readers
<1>6. CASE AuditStep \/ UNCHANGED packageVars
  BY <1>6, ReadKept DEF AuditStep, AuditMarker, AuditLedger, packageVars
<1> QED BY <1>1, <1>2, <1>3, <1>4, <1>5, <1>6 DEF PackageNext, ReaderStep

(* The database the consolidation binds to a marker has just the items the *)
(* marker speaks of, whoever republishes between its reads; and it is the  *)
(* database that marker was uploaded with, when attempts are plain         *)
(* (streaming_consolidation.py:130-148, 366-379).                          *)
THEOREM TakenBelongs == Assumptions /\ PackageSpec => []TakenIsMarked
<1>1. Assumptions /\ PackageInit => ReadInv
  BY ReadInit
<1>2. ReadInv /\ [PackageNext]_packageVars => ReadInv'
  BY ReadStep
<1>3. ReadInv => TakenIsMarked
  BY DEF ReadInv, ReaderInv, TakenIsMarked
<1> QED BY <1>1, <1>2, <1>3, PTL DEF PackageSpec

-----------------------------------------------------------------------------
(* The verification of a run, when attempts are plain: the shards it has   *)
(* passed are marked, and their items counted, each in one shard.          *)
Passed(s) == s < audit.shard \/ audit.pc = "report"

AuditInv ==
    /\ audit \in [pc : {"marker", "ledger", "report"}, shard : Shards, ids : SUBSET AllIds]
    /\ policy = "plain" =>
          /\ audit.pc = "ledger" => Marked(audit.shard)
          /\ \A s \in Shards : Passed(s) => Marked(s) /\ IdsOf(s, store[s][Ledger]) \subseteq audit.ids
          /\ \A s, t \in Shards : Passed(s) /\ Passed(t) /\ s # t =>
                IdsOf(s, store[s][Ledger]) \cap IdsOf(t, store[t][Ledger]) = {}

CountInv == PubInv /\ AuditInv

LEMMA UnreadFacts ==
    ASSUME Assumptions
    PROVE  /\ Unread \in [pc : {"marker", "ledger", "report"}, shard : Shards, ids : SUBSET AllIds]
           /\ Unread.pc = "marker" /\ Unread.shard = 1 /\ \A s \in Shards : ~(s < 1)
  BY Constants DEF Unread, Shards

LEMMA CountInit ==
    ASSUME Assumptions, PackageInit
    PROVE  CountInv
<1>1. audit = Unread
  BY DEF PackageInit
<1> QED BY <1>1, PubInit, UnreadFacts DEF CountInv, AuditInv, Passed

(* Another's step leaves the packages that were counted.                   *)
LEMMA CountKept ==
    ASSUME CountInv, [PackageNext]_packageVars, UNCHANGED audit
    PROVE  CountInv'
<1>1. PubInv'
  BY PubStep DEF CountInv
<1>2. policy' = policy
  BY DEF PackageNext, Stage, PublisherStep, Probe, UploadObject, Mark, Swap, RenameSibling, KillPublisher, ReadMarker, ReaderStep,
         ReadManifest, ReadLedger, Fetch, AuditStep, AuditMarker, AuditLedger, published, packageVars
<1>3. policy = "plain" => \A s \in Shards : Marked(s) => store'[s] = store[s]
  BY MarkedStays DEF CountInv
<1>4. audit.shard \in Shards
  BY DEF CountInv, AuditInv
<1>5. AuditInv'
  BY <1>2, <1>3, <1>4 DEF CountInv, AuditInv, Passed, Marked, IdsOf, AllIds
<1> QED BY <1>1, <1>5 DEF CountInv

LEMMA CountStep ==
    ASSUME CountInv, [PackageNext]_packageVars
    PROVE  CountInv'
<1>0. PubInv /\ PubInv' /\ Assumptions /\ AuditInv /\ store \in [Shards -> Packages] /\ audit.shard \in Shards
  BY PubStep DEF CountInv, PubInv, Published, AuditInv
<1>r. ASSUME audit' = Unread, UNCHANGED published PROVE CountInv'
  BY <1>0, <1>r, UnreadFacts DEF CountInv, AuditInv, Passed, AllIds, IdsOf
<1>1. CASE AuditMarker
  <2>1. CASE store[audit.shard][Marker] = Absent
    BY <1>r, <1>1, <2>1 DEF AuditMarker
  <2>2. CASE store[audit.shard][Marker] # Absent
    <3>1. /\ audit' = [audit EXCEPT !.pc = "ledger"] /\ audit.pc = "marker" /\ UNCHANGED <<store, policy>>
      BY <1>1, <2>2 DEF AuditMarker, published
    <3>2. /\ audit' \in [pc : {"marker", "ledger", "report"}, shard : Shards, ids : SUBSET AllIds]
          /\ audit'.pc = "ledger" /\ audit'.shard = audit.shard /\ audit'.ids = audit.ids
      BY <1>0, <3>1 DEF AuditInv
    <3>3. AuditInv'
      BY <1>0, <2>2, <3>1, <3>2 DEF AuditInv, Passed, Marked, IdsOf, AllIds
    <3> QED BY <1>0, <3>3 DEF CountInv
  <2> QED BY <2>1, <2>2
<1>2. CASE AuditLedger
  <2>1. PICK s \in Shards : s = audit.shard
    BY <1>0
  <2>2. PICK ledger \in Content : ledger = store[s][Ledger]
    BY <1>0, Constants DEF Packages
  <2>3. CASE ~Disjoint(s, ledger)
    BY <1>r, <1>2, <2>1, <2>2, <2>3 DEF AuditLedger
  <2>4. CASE Disjoint(s, ledger)
    <3>1. /\ audit.pc = "ledger" /\ UNCHANGED <<store, policy>>
          /\ audit' = [pc    |-> IF s = ShardCount THEN "report" ELSE "marker",
                       shard |-> IF s = ShardCount THEN s ELSE s + 1,
                       ids   |-> audit.ids \cup IdsOf(s, ledger)]
      BY <1>2, <2>1, <2>2, <2>4 DEF AuditLedger, published
    <3>2. ledger \in Builds /\ IdsOf(s, ledger) \cap audit.ids = {}
      BY <2>4 DEF Disjoint, Content
    <3>3. IdsOf(s, ledger) \subseteq AllIds
      BY <3>2 DEF AllIds
    <3>4. s + 1 \in Shards \/ s = ShardCount
      BY <1>0, Constants DEF Shards
    <3>5. /\ audit' \in [pc : {"marker", "ledger", "report"}, shard : Shards, ids : SUBSET AllIds]
          /\ audit'.pc # "ledger" /\ audit'.ids = audit.ids \cup IdsOf(s, ledger)
      BY <1>0, <3>1, <3>3, <3>4 DEF AuditInv
    <3>6. ASSUME NEW t \in Shards PROVE Passed(t)' => t = s \/ Passed(t)
      BY <1>0, <2>1, <3>1, Constants DEF Passed, Shards
    <3>7. policy = "plain" => Marked(s)
      BY <1>0, <2>1, <3>1 DEF AuditInv
    <3>8. ASSUME policy = "plain", NEW t \in Shards, Passed(t)'
          PROVE  Marked(t) /\ IdsOf(t, store[t][Ledger]) \subseteq audit'.ids
      BY <1>0, <2>2, <3>5, <3>6, <3>7, <3>8 DEF AuditInv
    <3>9. ASSUME policy = "plain", NEW t \in Shards, NEW u \in Shards, Passed(t)', Passed(u)', t # u
          PROVE  IdsOf(t, store[t][Ledger]) \cap IdsOf(u, store[u][Ledger]) = {}
      BY <1>0, <2>2, <3>2, <3>6, <3>9 DEF AuditInv
    <3>10. AuditInv'
      BY <3>1, <3>5, <3>8, <3>9 DEF AuditInv, Marked, IdsOf, AllIds
    <3> QED BY <1>0, <3>10 DEF CountInv
  <2> QED BY <2>3, <2>4
<1>3. ASSUME NEW p \in Publishers, PublisherStep(p) \/ KillPublisher(p) \/ \E s \in Shards : Stage(p, s) PROVE CountInv'
  BY <1>3, CountKept DEF PublisherStep, Probe, UploadObject, Mark, Swap, RenameSibling, KillPublisher, Stage, readers
<1>4. CASE ReaderStep \/ (\E s \in Shards : ReadMarker(s)) \/ UNCHANGED packageVars
  BY <1>4, CountKept DEF ReaderStep, ReadManifest, ReadLedger, Fetch, ReadMarker, packageVars
<1> QED BY <1>1, <1>2, <1>3, <1>4 DEF PackageNext, AuditStep

(* A verified run is there: every shard has its marker, and the databases  *)
(* hold the items that were counted, each in one shard                     *)
(* (distributed.py:221-239).                                               *)
THEOREM VerifiedIsThere == Assumptions /\ PackageSpec => []VerifiedIsWhole
<1>1. Assumptions /\ PackageInit => CountInv
  BY CountInit
<1>2. CountInv /\ [PackageNext]_packageVars => CountInv'
  BY CountStep
<1>3. CountInv => VerifiedIsWhole
  <2> SUFFICES ASSUME CountInv, Verified, policy = "plain"
               PROVE  /\ \A s \in Shards : Marked(s) /\ IdsOf(s, store[s][Database]) \subseteq audit.ids
                      /\ \A s, t \in Shards : s # t =>
                            IdsOf(s, store[s][Database]) \cap IdsOf(t, store[t][Database]) = {}
    BY DEF VerifiedIsWhole
  <2>1. \A s \in Shards : Passed(s)
    BY DEF Passed, Verified
  <2>2. ASSUME NEW s \in Shards PROVE Marked(s) /\ store[s][Database] = store[s][Ledger]
    <3>1. Marked(s) /\ Has(s, store[s][Marker])
      BY <2>1, PlainMarked DEF CountInv, AuditInv
    <3> QED BY <3>1, Constants DEF Has, CountInv, PubInv
  <2> QED BY <2>1, <2>2 DEF CountInv, AuditInv
<1> QED BY <1>1, <1>2, <1>3, PTL DEF PackageSpec
=============================================================================
