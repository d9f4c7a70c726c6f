-------------------------- MODULE NasArchiveProofs --------------------------
(***************************************************************************)
(* Theorems about NasArchive for every number of objects and workers, any  *)
(* sizes and limits, and without its bounds on writes and failures.        *)
(***************************************************************************)
EXTENDS NasCleanup, FiniteSetTheorems, WellFoundedInduction, TLAPS

-----------------------------------------------------------------------------
LEMMA DivBound ==
    ASSUME NEW a \in Nat, NEW b \in Nat \ {0}
    PROVE  a \div b \in Nat /\ a \div b <= a
  BY Z3

LEMMA PositionBound ==
    ASSUME NEW k \in Keys
    PROVE  Position(k) \in Nat /\ Position(k) < KeyCount
  <1>1. IsFiniteSet(1 .. (k - 1)) /\ Cardinality(1 .. (k - 1)) = k - 1
    BY KeyCountAssumption, FS_Interval DEF Keys
  <1>2. {j \in Listed(final) : j < k} \subseteq 1 .. (k - 1)
    BY KeyCountAssumption DEF Listed, Keys
  <1>3. Position(k) \in Nat /\ Position(k) <= k - 1
    BY <1>1, <1>2, FS_Subset, FS_CardinalityType DEF Position
  <1>4. QED
    BY <1>3, KeyCountAssumption DEF Keys

LEMMA LeastNumber ==
    ASSUME NEW T, T \subseteq Nat, T # {}
    PROVE  \E k \in T : \A j \in T : k <= j
  <1>1. PICK k \in T : \A j \in T : ~(<<j, k>> \in OpToRel(<, Nat))
    BY NatLessThanWellFounded, WFMin
  <1>2. \A j \in T : ~(j < k)
    BY <1>1 DEF OpToRel
  <1>3. k \in Nat /\ \A j \in T : j \in Nat
    BY <1>1
  <1>4. QED
    BY <1>2, <1>3

LEMMA LeastKey ==
    ASSUME NEW T, T \subseteq Keys, T # {}
    PROVE  \E k \in T : \A j \in T : k <= j
  <1>1. T \subseteq Nat
    BY KeyCountAssumption DEF Keys
  <1>2. QED
    BY <1>1, LeastNumber

(* A worker that has units left has a current one.                         *)
LEMMA CurrentIsLeft ==
    ASSUME NEW w, todo[w] \subseteq Units, todo[w] # {}
    PROVE  Current(w) \in todo[w]
  <1> DEFINE Lane(kd) == {u \in todo[w] : u.kind = kd}
             LaneKeys(kd) == UNION {u.keys : u \in Lane(kd)}
  <1>1. \A u \in todo[w] : u.keys \subseteq Keys /\ u.keys # {} /\ u.kind \in {"pack", "object"}
    BY DEF Units
  <1>2. ASSUME NEW kd \in {"pack", "object"}, Lane(kd) # {}
        PROVE  \E u \in Lane(kd) : \A t \in Lane(kd) : \E k \in u.keys : \A j \in t.keys : k <= j
    <2>1. LaneKeys(kd) \subseteq Keys /\ LaneKeys(kd) # {}
      BY <1>1, <1>2
    <2>2. PICK k \in LaneKeys(kd) : \A j \in LaneKeys(kd) : k <= j
      BY <2>1, LeastKey
    <2>3. PICK u \in Lane(kd) : k \in u.keys
      BY <2>2
    <2>4. QED
      BY <2>2, <2>3
  <1>3. \E u \in todo[w] : \A t \in todo[w] : Precedes(u, t)
    <2>1. CASE Lane("pack") # {}
      <3>1. PICK u \in Lane("pack") :
               \A t \in Lane("pack") : \E k \in u.keys : \A j \in t.keys : k <= j
        BY <1>2, <2>1
      <3>2. \A t \in todo[w] : Precedes(u, t)
        BY <1>1, <3>1 DEF Precedes
      <3>3. QED
        BY <3>2
    <2>2. CASE Lane("pack") = {}
      <3>1. Lane("object") # {}
        BY <1>1, <2>2
      <3>2. PICK u \in Lane("object") :
               \A t \in Lane("object") : \E k \in u.keys : \A j \in t.keys : k <= j
        BY <1>2, <3>1
      <3>3. \A t \in todo[w] : t.kind = "object"
        BY <1>1, <2>2
      <3>4. \A t \in todo[w] : Precedes(u, t)
        BY <3>2, <3>3 DEF Precedes
      <3>5. QED
        BY <3>4
    <2>3. QED
      BY <2>1, <2>2
  <1>4. QED
    BY <1>3 DEF Current

LEMMA CurrentStable ==
    ASSUME NEW w, todo'[w] = todo[w]
    PROVE  Current(w)' = Current(w)
  BY Zenon DEF Current, Precedes

LEMMA WorkUnitsType ==
    ASSUME NEW w
    PROVE  \A u \in WorkUnits(w) : u \in Units /\ u.keys \subseteq Listed(inventory)
  <1>1. Packs(w) \subseteq (SUBSET Packable(w)) \ {{}}
    BY DEF Packs
  <1>2. Packable(w) \subseteq Listed(inventory) /\ Large(w) \subseteq Listed(inventory)
    BY DEF Packable, Large, Mine
  <1>3. Listed(inventory) \subseteq Keys
    BY DEF Listed
  <1>4. QED
    BY <1>1, <1>2, <1>3 DEF WorkUnits, Units

-----------------------------------------------------------------------------
(* Type correctness.                                                       *)

TypeInv == TypeOK /\ (stage = "receipt" => cursor < KeyCount)

LEMMA BatchBound ==
    ASSUME TypeInv, Batch # {}
    PROVE  cursor < KeyCount
  <1>1. PICK k \in Batch : TRUE
    OBVIOUS
  <1>2. k \in Keys /\ Position(k) \div BatchSize = cursor
    BY <1>1 DEF Batch, Listed
  <1>3. Position(k) \in Nat /\ Position(k) < KeyCount
    BY <1>2, PositionBound
  <1>4. cursor <= Position(k)
    BY <1>2, <1>3, DivBound, LimitsAssumption
  <1>5. QED
    BY <1>3, <1>4, KeyCountAssumption DEF TypeInv, TypeOK

LEMMA NothingType == Nothing \in Contents
  BY BoundsAssumption DEF Nothing, Contents

LEMMA TypeInit == Init => TypeInv
  BY NothingType, KeyCountAssumption, InitialAssumption DEF Init, TypeInv, TypeOK

LEMMA CurrentUnit ==
    ASSUME TypeInv, NEW w \in Worker, todo[w] # {}
    PROVE  Current(w) \in todo[w] /\ Current(w) \in Units
  BY CurrentIsLeft DEF TypeInv, TypeOK

(* What each kind of step leaves well typed.                               *)
LEMMA DieType ==
    ASSUME TypeInv, NEW w \in Worker, Die(w)
    PROVE  /\ wpc' \in [Worker -> {"off", "unit", "get", "replace", "receipt"}]
           /\ todo' \in [Worker -> SUBSET Units]
           /\ fetched' \in [Worker -> Contents]
  BY NothingType DEF Die, TypeInv, TypeOK

LEMMA DoneType ==
    ASSUME TypeInv, NEW w \in Worker, NEW u, Done(w, u)
    PROVE  /\ wpc' \in [Worker -> {"off", "unit", "get", "replace", "receipt"}]
           /\ todo' \in [Worker -> SUBSET Units]
           /\ fetched' \in [Worker -> Contents]
           /\ complete' \subseteq Worker
  BY NothingType DEF Done, TypeInv, TypeOK

LEMMA TypeNext == TypeInv /\ [Next]_vars => TypeInv'
  <1> SUFFICES ASSUME TypeInv, [Next]_vars PROVE TypeInv'
    OBVIOUS
  <1> USE NothingType DEF TypeInv
  <1>1. ASSUME NEW k \in Keys, Write(k) PROVE TypeInv'
    <2>1. written' \in Contents /\ r2' \in Contents
      BY <1>1, BoundsAssumption DEF Write, TypeOK, Contents
    <2>2. QED
      BY <1>1, <2>1 DEF Write, archive, listing, watcher, workers, finalizer, TypeOK
  <1>2. ASSUME NEW u \in Units, Rot(u) PROVE TypeInv'
    BY <1>2 DEF Rot, store, listing, watcher, workers, finalizer, TypeOK
  <1>3. ASSUME NEW w \in Worker, Notice(w) \/ Launch(w) PROVE TypeInv'
    <2>1. WorkUnits(w) \subseteq Units
      BY WorkUnitsType
    <2>2. CASE Notice(w)
      BY <2>2 DEF Notice, store, archive, listing, workers, finalizer, bounds, TypeOK
    <2>3. CASE Launch(w)
      <3>1. /\ wpc' \in [Worker -> {"off", "unit", "get", "replace", "receipt"}]
            /\ todo' \in [Worker -> SUBSET Units] /\ late' \in Nat
        BY <2>1, <2>3 DEF Launch, TypeOK
      <3>2. QED
        BY <2>3, <3>1 DEF Launch, store, archive, listing, finalizer, TypeOK
    <2>4. QED
      BY <1>3, <2>2, <2>3
  <1>4. ASSUME NEW w \in Worker, Begin(w) PROVE TypeInv'
    <2>1. CASE Done(w, Current(w)) \/ (Die(w) /\ UNCHANGED complete)
      BY <1>4, <2>1, DieType, DoneType DEF Begin, store, archive, listing, finalizer, bounds, TypeOK
    <2>2. CASE wpc' = [wpc EXCEPT ![w] = "get"] /\ UNCHANGED <<todo, fetched, complete>>
      BY <1>4, <2>2 DEF Begin, store, archive, listing, finalizer, bounds, TypeOK
    <2>3. QED
      BY <1>4, <2>1, <2>2 DEF Begin
  <1>5. ASSUME NEW w \in Worker, Get(w) PROVE TypeInv'
    <2>1. CASE Die(w)
      BY <1>5, <2>1, DieType DEF Get, store, archive, listing, watcher, finalizer, bounds, TypeOK
    <2>2. CASE ~Die(w)
      <3>1. fetched' \in [Worker -> Contents]
        <4>1. [k \in Keys |-> IF k \in Current(w).keys /\ Size[k][r2[k]] = Bytes(k)
                              THEN r2[k] ELSE Torn] \in Contents
          BY BoundsAssumption DEF TypeOK, Contents, Torn
        <4>2. QED
          BY <1>5, <2>2, <4>1 DEF Get, TypeOK
      <3>2. QED
        BY <1>5, <2>2, <3>1 DEF Get, store, archive, listing, watcher, finalizer, bounds, TypeOK
    <2>3. QED
      BY <2>1, <2>2
  <1>6. ASSUME NEW w \in Worker, Replace(w) PROVE TypeInv'
    BY <1>6 DEF Replace, store, listing, watcher, finalizer, bounds, TypeOK
  <1>7. ASSUME NEW w \in Worker, WriteReceipt(w) PROVE TypeInv'
    <2>1. Recorded(Current(w)) \in Contents
      BY BoundsAssumption DEF Recorded, TypeOK, Contents
    <2>2. receipt' \in [Units -> {Absent} \cup [records : Contents, content : Contents]]
      BY <1>7, <2>1 DEF WriteReceipt, TypeOK
    <2>3. QED
      BY <1>7, <2>2, DoneType DEF WriteReceipt, store, listing, finalizer, bounds, TypeOK
  <1>8. ASSUME NEW w \in Worker, Finish(w) PROVE TypeInv'
    BY <1>8, DieType DEF Finish, store, archive, listing, finalizer, bounds, TypeOK
  <1>9. ASSUME NEW w \in Worker, Crash(w) PROVE TypeInv'
    BY <1>9, DieType DEF Crash, store, archive, listing, watcher, finalizer, TypeOK
  <1>10. ASSUME MigrateAnew PROVE TypeInv'
    BY <1>10 DEF MigrateAnew, store, archive, workers, finalizer, bounds, TypeOK
  <1>11. ASSUME Restart, UNCHANGED <<written, archive, listing, watcher, workers, deleted>>,
                r2' \in Contents, lost' \subseteq Keys, {writes', crashes', rots', late'} \subseteq Nat
         PROVE  TypeInv'
    BY <1>11, KeyCountAssumption DEF Restart, archive, listing, watcher, workers, TypeOK
  <1>12. ASSUME BeginFinal PROVE TypeInv'
    BY <1>12, KeyCountAssumption
       DEF BeginFinal, store, archive, listing, watcher, workers, bounds, TypeOK
  <1>13. ASSUME ListNext PROVE TypeInv'
    <2> DEFINE listed == [final EXCEPT ![cursor + 1] = r2[cursor + 1]]
    <2>1. IF cursor + 1 < KeyCount
          THEN /\ stage' = "list" /\ cursor' = cursor + 1 /\ final' = listed /\ UNCHANGED listings
          ELSE IF listed = Nothing
          THEN Restart /\ UNCHANGED listings
          ELSE /\ stage' = "verify" /\ cursor' = 0 /\ final' = listed
               /\ listings' = listings \cup {listed}
      BY <1>13, Zenon DEF ListNext
    <2>2. listed \in Contents
      BY DEF TypeOK, Contents
    <2> HIDE DEF listed
    <2>3. /\ stage' \in {"wait", "list", "verify"} /\ final' \in {listed, Nothing}
          /\ listings' = listings \/ listings' = listings \cup {listed}
          /\ cursor' = 0 \/ (cursor' = cursor + 1 /\ cursor + 1 < KeyCount)
      BY <2>1 DEF Restart
    <2>4. cursor' \in 0 .. KeyCount /\ final' \in Contents /\ listings' \subseteq Contents
      BY <2>2, <2>3, KeyCountAssumption DEF TypeOK
    <2>5. QED
      BY <1>13, <2>3, <2>4 DEF ListNext, store, archive, watcher, workers, bounds, TypeOK
  <1>14. ASSUME VerifyCoverage PROVE TypeInv'
    <2>1. CASE CoverageComplete
      BY <1>14, <2>1, KeyCountAssumption
         DEF VerifyCoverage, store, archive, listing, watcher, workers, bounds, TypeOK
    <2>2. CASE ~CoverageComplete
      BY <1>11, <1>14, <2>2 DEF VerifyCoverage, store, bounds, TypeOK
    <2>3. QED
      BY <2>1, <2>2
  <1>15. ASSUME SkipBatch PROVE TypeInv'
    <2>1. cursor' \in 0 .. KeyCount
      BY <1>15, BatchBound, KeyCountAssumption DEF SkipBatch, TypeOK
    <2>2. QED
      BY <1>15, <2>1 DEF SkipBatch, store, archive, listing, watcher, workers, bounds, TypeOK
  <1>16. ASSUME DeleteBatch PROVE TypeInv'
    <2>1. PICK gone \in SUBSET Batch :
             /\ r2' = [k \in Keys |-> IF k \in gone THEN 0 ELSE r2[k]]
             /\ lost' = lost \cup {k \in gone : r2[k] \notin {0, final[k]}}
      BY <1>16 DEF DeleteBatch
    <2>2. r2' \in Contents /\ lost' \subseteq Keys
      <3>1. Batch \subseteq Keys
        BY DEF Batch, Listed
      <3>2. QED
        BY <2>1, <3>1, BoundsAssumption DEF TypeOK, Contents
    <2>3. CASE stage' = "receipt" /\ UNCHANGED <<cursor, final, crashes>>
      BY <1>16, <2>2, <2>3, BatchBound DEF DeleteBatch, archive, listing, watcher, workers, TypeOK
    <2>4. CASE Restart /\ crashes' = crashes + 1
      BY <1>11, <1>16, <2>2, <2>4 DEF DeleteBatch, TypeOK
    <2>5. QED
      BY <1>16, <2>3, <2>4 DEF DeleteBatch
  <1>17. ASSUME ReceiptBatch PROVE TypeInv'
    <2>1. cursor' \in 0 .. KeyCount
      BY <1>17, KeyCountAssumption DEF ReceiptBatch, TypeOK
    <2>2. Batch \subseteq Keys
      BY DEF Batch, Listed
    <2>3. QED
      BY <1>17, <2>1, <2>2 DEF ReceiptBatch, store, archive, listing, watcher, workers, bounds, TypeOK
  <1>18. ASSUME Terminal PROVE TypeInv'
    <2>1. CASE r2 = Nothing
      BY <1>18, <2>1 DEF Terminal, store, archive, listing, watcher, workers, bounds, TypeOK
    <2>2. CASE r2 # Nothing
      BY <1>11, <1>18, <2>2 DEF Terminal, store, bounds, TypeOK
    <2>3. QED
      BY <2>1, <2>2
  <1>19. ASSUME FinalizerCrash PROVE TypeInv'
    BY <1>11, <1>19 DEF FinalizerCrash, store, TypeOK
  <1>20. CASE UNCHANGED vars
    BY <1>20 DEF vars, store, archive, listing, watcher, workers, finalizer, bounds, TypeOK
  <1>21. QED
    BY <1>1, <1>2, <1>3, <1>4, <1>5, <1>6, <1>7, <1>8, <1>9, <1>10, <1>12, <1>13, <1>14, <1>15,
       <1>16, <1>17, <1>18, <1>19, <1>20 DEF Next, WorkerStep, FinalizerStep

(* In every reachable state each variable holds a value of its kind; the   *)
(* finalizer's batch number, too, stays within the listing.                *)
THEOREM TypeCorrect == Spec => []TypeOK
  <1>1. TypeInv => TypeOK
    BY DEF TypeInv
  <1>2. QED
    BY <1>1, TypeInit, TypeNext, PTL DEF Spec

-----------------------------------------------------------------------------
(***************************************************************************)
(* The two lanes of a worker leave out no object of its share, if a small  *)
(* record fits a pack of its own.                                          *)
(***************************************************************************)

SmallFits == SmallBytes + Overhead <= PackBytes

(* There is a function on the naturals up to n that goes by given steps.   *)
StepsTo(n, S) == [1 .. n -> [S -> S]]

Follows(f, n, S, base, g) ==
    f \in [0 .. n -> S] /\ f[0] = base /\ \A k \in 1 .. n : f[k] = g[k][f[k - 1]]

LEMMA StepsExist ==
    ASSUME NEW n \in Nat, NEW S, NEW base \in S, NEW g \in StepsTo(n, S)
    PROVE  \E f : Follows(f, n, S, base, g)
  <1> DEFINE Runs(m, f) == f[0] = base /\ \A k \in 1 .. m : f[k] = g[k][f[k - 1]]
             Bad == {m \in 0 .. n : ~\E f \in [0 .. m -> S] : Runs(m, f)}
  <1>0. g \in [1 .. n -> [S -> S]]
    BY DEF StepsTo
  <1>1. SUFFICES ASSUME Bad # {} PROVE FALSE
    <2>1. n \in 0 .. n
      OBVIOUS
    <2> QED BY <2>1 DEF Follows
  <1>2. PICK m \in Bad : \A j \in Bad : m <= j
    <2>1. Bad \subseteq Nat
      OBVIOUS
    <2> HIDE DEF Bad
    <2> QED BY <1>1, <2>1, LeastNumber
  <1>3. m \in 0 .. n
    OBVIOUS
  <1>4. m # 0
    <2>1. [k \in 0 .. 0 |-> base] \in [0 .. 0 -> S] /\ Runs(0, [k \in 0 .. 0 |-> base])
      OBVIOUS
    <2> QED BY <2>1
  <1>5. PICK f \in [0 .. m - 1 -> S] : Runs(m - 1, f)
    <2>1. m - 1 \in 0 .. n /\ ~(m <= m - 1)
      BY <1>3, <1>4
    <2>2. m - 1 \notin Bad
      BY <1>2, <2>1
    <2> QED BY <2>1, <2>2
  <1> DEFINE longer == [k \in 0 .. m |-> IF k = m THEN g[m][f[m - 1]] ELSE f[k]]
  <1>6. f[m - 1] \in S /\ g[m] \in [S -> S]
    BY <1>0, <1>3, <1>4, <1>5
  <1>7. longer \in [0 .. m -> S]
    <2>1. g[m][f[m - 1]] \in S
      BY <1>6
    <2>2. \A k \in 0 .. m : k # m => k \in 0 .. m - 1
      BY <1>3
    <2> QED BY <1>5, <2>1, <2>2
  <1>8. Runs(m, longer)
    <2>1. longer[0] = base
      BY <1>3, <1>4, <1>5
    <2>2. ASSUME NEW k \in 1 .. m PROVE longer[k] = g[k][longer[k - 1]]
      <3>1. k - 1 \in 0 .. m /\ k - 1 # m /\ longer[k - 1] = f[k - 1] /\ k \in 0 .. m
        BY <1>3, <2>2
      <3>2. CASE k = m
        BY <3>1, <3>2
      <3>3. CASE k # m
        <4>1. k \in 1 .. m - 1 /\ longer[k] = f[k]
          BY <1>3, <2>2, <3>1, <3>3
        <4> QED BY <1>5, <3>1, <4>1
      <3> QED BY <3>2, <3>3
    <2> QED BY <2>1, <2>2
  <1> QED BY <1>2, <1>7, <1>8

Places == [pack : Nat, used : Nat, records : Nat]

FirstPlace == [pack |-> 1, used |-> 0, records |-> 0]

(* Where record k goes when the one before went to last.                   *)
NextPlace(w, k, last) ==
    IF k \notin Packable(w) THEN last
    ELSE IF last.records > 0 /\ \/ last.used + Frame(k) > PackBytes
                                \/ last.records >= MaxRecords
    THEN [pack |-> last.pack + 1, used |-> Frame(k), records |-> 1]
    ELSE [pack |-> last.pack, used |-> last.used + Frame(k), records |-> last.records + 1]

(* The packing is what its recursive definition says it is.                *)
LEMMA PackingSteps ==
    ASSUME TypeOK, NEW w
    PROVE  /\ Packing(w) \in [0 .. KeyCount -> Places] /\ Packing(w)[0] = FirstPlace
           /\ \A k \in Keys : Packing(w)[k] = NextPlace(w, k, Packing(w)[k - 1])
  <1> DEFINE step(f) ==
        [k \in 0 .. KeyCount |->
           IF k = 0 THEN [pack |-> 1, used |-> 0, records |-> 0]
           ELSE LET last == f[k - 1]
                IN  IF k \notin Packable(w) THEN last
                    ELSE IF last.records > 0 /\ \/ last.used + Frame(k) > PackBytes
                                                \/ last.records >= MaxRecords
                    THEN [pack |-> last.pack + 1, used |-> Frame(k), records |-> 1]
                    ELSE [pack |-> last.pack, used |-> last.used + Frame(k),
                          records |-> last.records + 1]]
  <1>1. Packing(w) = CHOOSE f : f = step(f)
    BY DEF Packing
  <1>2. \A f : step(f) = [k \in 0 .. KeyCount |->
                            IF k = 0 THEN FirstPlace ELSE NextPlace(w, k, f[k - 1])]
    BY DEF FirstPlace, NextPlace
  <1> HIDE DEF step
  <1>3. KeyCount \in Nat /\ Keys = 1 .. KeyCount
    BY KeyCountAssumption DEF Keys
  <1>4. \A k \in Packable(w) : Frame(k) \in Nat
    <2>1. SUFFICES ASSUME NEW k \in Keys, inventory[k] # 0 PROVE Frame(k) \in Nat
      BY DEF Packable, Mine, Listed
    <2>2. inventory[k] \in Versions
      BY <2>1, BoundsAssumption DEF TypeOK, Contents, Versions
    <2> QED BY <2>1, <2>2, SizeAssumption, LimitsAssumption DEF Frame, Bytes
  <1>5. \A k, p : p \in Places => NextPlace(w, k, p) \in Places
    BY <1>4 DEF NextPlace, Places
  <1>6. FirstPlace \in Places
    BY DEF FirstPlace, Places
  <1> DEFINE g == [k \in 1 .. KeyCount |-> [p \in Places |-> NextPlace(w, k, p)]]
  <1>7. g \in StepsTo(KeyCount, Places)
    BY <1>5 DEF StepsTo
  <1>8. PICK f : Follows(f, KeyCount, Places, FirstPlace, g)
    <2> HIDE DEF g
    <2> QED BY <1>3, <1>6, <1>7, StepsExist
  <1>9. \A k \in 1 .. KeyCount : f[k] = NextPlace(w, k, f[k - 1])
    <2> SUFFICES ASSUME NEW k \in 1 .. KeyCount PROVE f[k] = NextPlace(w, k, f[k - 1])
      OBVIOUS
    <2>1. f[k - 1] \in Places
      BY <1>3, <1>8 DEF Follows
    <2> QED BY <1>8, <2>1 DEF Follows
  <1>10. f = step(f)
    <2>1. f = [k \in 0 .. KeyCount |-> f[k]]
      BY <1>8 DEF Follows
    <2>2. \A k \in 0 .. KeyCount : f[k] = IF k = 0 THEN FirstPlace ELSE NextPlace(w, k, f[k - 1])
      BY <1>3, <1>8, <1>9 DEF Follows
    <2> QED BY <1>2, <2>1, <2>2
  <1>11. Packing(w) = step(Packing(w))
    BY <1>1, <1>10
  <1> DEFINE at == Packing(w)
  <1>12. at = [k \in 0 .. KeyCount |-> IF k = 0 THEN FirstPlace ELSE NextPlace(w, k, at[k - 1])]
    BY <1>2, <1>11
  <1> HIDE DEF at
  <1>13. DOMAIN at = 0 .. KeyCount /\ at[0] = FirstPlace
           /\ \A k \in 1 .. KeyCount : at[k] = NextPlace(w, k, at[k - 1])
    BY <1>3, <1>12
  <1> DEFINE Bad == {k \in 0 .. KeyCount : at[k] \notin Places}
  <1>14. Bad = {}
    <2> SUFFICES ASSUME Bad # {} PROVE FALSE
      OBVIOUS
    <2>1. 0 \notin Bad
      BY <1>6, <1>13
    <2>2. Bad \subseteq Keys
      BY <1>3, <2>1
    <2>3. PICK k \in Bad : \A j \in Bad : k <= j
      <3> HIDE DEF Bad
      <3> QED BY <2>2, LeastKey
    <2>4. k \in 1 .. KeyCount /\ k - 1 \in 0 .. KeyCount /\ ~(k <= k - 1)
      BY <1>3, <2>2, <2>3
    <2>5. at[k - 1] \in Places
      BY <2>3, <2>4
    <2> QED BY <1>5, <1>13, <2>3, <2>4, <2>5
  <1>15. at \in [0 .. KeyCount -> Places]
    BY <1>12, <1>14
  <1> QED BY <1>3, <1>13, <1>15 DEF at

(* There are no more packs than records.                                   *)
LEMMA PacksAreNumbered ==
    ASSUME TypeOK, NEW w, NEW k \in Keys
    PROVE  Packing(w)[k].pack \in 1 .. k
  <1> DEFINE at == Packing(w)
             Good(j) == at[j].pack \in 1 .. j /\ (at[j].records = 0 => at[j].pack = 1)
             Bad == {j \in Keys : ~Good(j)}
  <1>1. /\ at[0] = FirstPlace /\ \A j \in Keys : at[j] = NextPlace(w, j, at[j - 1])
        /\ \A j \in 0 .. KeyCount : at[j] \in Places
    BY PackingSteps
  <1>2. KeyCount \in Nat /\ Keys = 1 .. KeyCount
    BY KeyCountAssumption DEF Keys
  <1> HIDE DEF at
  <1>3. \A j \in Keys : /\ at[j - 1].pack \in Nat /\ at[j - 1].records \in Nat
                        /\ \/ at[j] = at[j - 1]
                           \/ at[j - 1].records > 0 /\ at[j].pack = at[j - 1].pack + 1 /\ at[j].records = 1
                           \/ at[j].pack = at[j - 1].pack /\ at[j].records > 0
    <2> SUFFICES ASSUME NEW j \in Keys, NEW p \in Places, p = at[j - 1], at[j] = NextPlace(w, j, p)
                 PROVE  /\ p.pack \in Nat /\ p.records \in Nat
                        /\ \/ at[j] = p
                           \/ p.records > 0 /\ at[j].pack = p.pack + 1 /\ at[j].records = 1
                           \/ at[j].pack = p.pack /\ at[j].records > 0
      <3>1. \A j \in Keys : at[j - 1] \in Places
        BY <1>1, <1>2
      <3>2. QED
        BY <1>1, <3>1
    <2>1. p.pack \in Nat /\ p.records \in Nat
      BY DEF Places
    <2> QED BY <2>1 DEF NextPlace
  <1>4. Bad = {}
    <2> SUFFICES ASSUME Bad # {} PROVE FALSE
      OBVIOUS
    <2>1. PICK j \in Bad : \A i \in Bad : j <= i
      <3>1. Bad \subseteq Keys
        OBVIOUS
      <3> HIDE DEF Bad
      <3> QED BY <3>1, LeastKey
    <2>2. j \in Keys /\ j \in Nat /\ j >= 1 /\ ~Good(j)
      BY <1>2, <2>1
    <2>3. CASE j = 1
      <3>1. at[j - 1].pack = 1 /\ at[j - 1].records = 0
        BY <1>1, <2>3 DEF FirstPlace
      <3>2. at[j].pack = 1
        BY <1>3, <2>2, <3>1
      <3> QED BY <2>2, <2>3, <3>2
    <2>4. CASE j # 1
      <3>1. j - 1 \in Keys /\ ~(j <= j - 1)
        BY <1>2, <2>2, <2>4
      <3>2. Good(j - 1)
        BY <2>1, <3>1
      <3> QED BY <1>3, <2>2, <2>4, <3>2
    <2> QED BY <2>3, <2>4
  <1> QED BY <1>4 DEF at

(* Every object of the share is in a unit.                                 *)
LEMMA LanesCoverShare ==
    ASSUME SmallFits, TypeOK, NEW w, NEW k \in Mine(w)
    PROVE  \E u \in WorkUnits(w) : k \in u.keys
  <1>1. k \in Keys /\ inventory[k] \in Versions
    BY BoundsAssumption DEF Mine, Listed, TypeOK, Contents, Versions
  <1>2. Bytes(k) \in Nat /\ SmallBytes \in Nat /\ Overhead \in Nat /\ PackBytes \in Nat
    BY <1>1, SizeAssumption, LimitsAssumption DEF Bytes
  <1>3. CASE Bytes(k) > SmallBytes
    <2>1. [kind |-> "object", keys |-> {k}] \in WorkUnits(w)
      BY <1>3 DEF WorkUnits, Large
    <2> QED BY <2>1
  <1>4. CASE ~(Bytes(k) > SmallBytes)
    <2>1. k \in Packable(w)
      BY <1>2, <1>4 DEF Packable, Frame, SmallFits
    <2> DEFINE n == Packing(w)[k].pack
               pack == {j \in Packable(w) : Packing(w)[j].pack = n}
    <2>2. n \in 1 .. KeyCount
      BY <1>1, PacksAreNumbered, KeyCountAssumption DEF Keys
    <2>3. pack \in Packs(w) /\ k \in pack
      BY <2>1, <2>2 DEF Packs
    <2>4. [kind |-> "pack", keys |-> pack] \in WorkUnits(w)
      BY <2>3 DEF WorkUnits
    <2> QED BY <2>3, <2>4
  <1> QED BY <1>3, <1>4

(* What every step leaves alone.  Steps of or for one worker change only   *)
(* that worker's work, and at most the archive at its current unit.        *)

Moves(w) == Notice(w) \/ Launch(w) \/ WorkerStep(w) \/ Crash(w)

LEMMA WorkerFrame ==
    ASSUME TypeInv, NEW w \in Worker, Moves(w)
    PROVE  /\ UNCHANGED <<store, listing, finalizer>>
           /\ \A v \in Worker \ {w} : /\ UNCHANGED <<todo[v], wpc[v], fetched[v]>>
                                      /\ v \in complete' <=> v \in complete
           /\ \/ UNCHANGED payload
              \/ Replace(w)
           /\ \/ UNCHANGED receipt
              \/ WriteReceipt(w)
  <1> USE DEF TypeInv, TypeOK, archive, watcher
  <1>1. CASE Notice(w) \/ Launch(w) \/ Crash(w)
    BY <1>1 DEF Notice, Launch, Crash, Die, workers
  <1>2. CASE Begin(w)
    BY <1>2 DEF Begin, Die, Done
  <1>3. CASE Get(w) \/ Replace(w)
    BY <1>3 DEF Get, Replace, Die
  <1>4. CASE WriteReceipt(w)
    BY <1>4 DEF WriteReceipt, Done
  <1>5. CASE Finish(w)
    BY <1>5 DEF Finish, Die
  <1>6. QED
    BY <1>1, <1>2, <1>3, <1>4, <1>5 DEF Moves, WorkerStep

Others == \/ \E k \in Keys : Write(k)
          \/ \E u \in Units : Rot(u)
          \/ MigrateAnew \/ FinalizerStep \/ FinalizerCrash
          \/ UNCHANGED vars

LEMMA OthersFrame ==
    ASSUME Others
    PROVE  /\ UNCHANGED <<workers, receipt>>
           /\ UNCHANGED <<inventory, complete>> \/ MigrateAnew
           /\ UNCHANGED payload \/ \E u \in Units : Rot(u)
  <1>1. CASE (\E k \in Keys : Write(k)) \/ (\E u \in Units : Rot(u)) \/ MigrateAnew \/ UNCHANGED vars
    BY <1>1 DEF Write, Rot, MigrateAnew, vars, archive, listing, watcher
  <1>2. CASE FinalizerStep \/ FinalizerCrash
    BY <1>2 DEF FinalizerStep, FinalizerCrash, BeginFinal, ListNext, VerifyCoverage, SkipBatch,
                DeleteBatch, ReceiptBatch, Terminal, archive, listing, watcher
  <1>3. QED
    BY <1>1, <1>2 DEF Others

LEMMA StepKinds == [Next]_vars => Others \/ \E w \in Worker : Moves(w)
  BY DEF Next, Others, Moves

-----------------------------------------------------------------------------
(* What the copy keeps: the store only moves forward, a worker's units are *)
(* its own, and what it staged is what the inventory lists unless that was *)
(* overwritten.                                                            *)

StoreForward ==
    \A k \in Keys : r2[k] \in {0, written[k]} /\ inventory[k] <= written[k]

Copying(w) == wpc[w] \in {"get", "replace", "receipt"}

UnitsLeft ==
    \A w \in Worker : /\ wpc[w] = "off" => todo[w] = {}
                      /\ Copying(w) => todo[w] # {}
                      /\ todo[w] \subseteq WorkUnits(w)

Faithful(content, records, k) == content[k] = records[k] \/ records[k] < written[k]

StagedFaithful ==
    \A w \in Worker : wpc[w] \in {"replace", "receipt"} =>
        \A k \in Current(w).keys : Faithful(fetched[w], inventory, k)

ReceiptsFaithful ==
    \A u \in Units : receipt[u] # Absent =>
        \A k \in u.keys : Faithful(receipt[u].content, receipt[u].records, k)

CopyInv == TypeInv /\ StoreForward /\ UnitsLeft /\ StagedFaithful /\ ReceiptsFaithful

(* The packing is determined by its steps, hence by the inventory.         *)
LEMMA PackingStable ==
    ASSUME TypeOK, inventory' = inventory, NEW w
    PROVE  Packing(w)' = Packing(w)
  <1> DEFINE step(f) == [k \in 0 .. KeyCount |-> IF k = 0 THEN FirstPlace
                                                 ELSE NextPlace(w, k, f[k - 1])]
             old == Packing(w)
             new == Packing(w)'
  <1>1. KeyCount \in Nat /\ Keys = 1 .. KeyCount
    BY KeyCountAssumption DEF Keys
  <1>2. old = step(old)
    <2>1. old \in [0 .. KeyCount -> Places] /\ old[0] = FirstPlace
            /\ \A k \in Keys : old[k] = NextPlace(w, k, old[k - 1])
      BY PackingSteps
    <2> HIDE DEF old
    <2>2. \A k \in 0 .. KeyCount : old[k] = step(old)[k]
      BY <1>1, <2>1
    <2>3. QED
      BY <2>1, <2>2
  <1>3. new = step(new)
    <2>1. /\ \A k : Frame(k)' = Frame(k)
          /\ Packable(w)' = Packable(w)
      BY DEF Packable, Mine, Listed, Frame, Bytes
    <2> DEFINE step2(f) ==
          [k \in 0 .. KeyCount |->
             IF k = 0 THEN [pack |-> 1, used |-> 0, records |-> 0]
             ELSE LET last == f[k - 1]
                  IN  IF k \notin Packable(w)' THEN last
                      ELSE IF last.records > 0 /\ \/ last.used + Frame(k)' > PackBytes
                                                  \/ last.records >= MaxRecords
                      THEN [pack |-> last.pack + 1, used |-> Frame(k)', records |-> 1]
                      ELSE [pack |-> last.pack, used |-> last.used + Frame(k)',
                            records |-> last.records + 1]]
    <2>2. new = CHOOSE f : f = step2(f)
      BY DEF Packing
    <2>3. \A f : step2(f) = step(f)
      BY <2>1 DEF FirstPlace, NextPlace
    <2> HIDE DEF step, step2, old, new
    <2>4. old = step2(old)
      BY <1>2, <2>3
    <2>5. new = step2(new)
      BY <2>2, <2>4
    <2>6. QED
      BY <2>3, <2>5
  <1> HIDE DEF old, new
  <1>4. \A k \in 0 .. KeyCount :
           /\ k = 0 => old[k] = new[k]
           /\ k # 0 /\ old[k - 1] = new[k - 1] => old[k] = new[k]
    <2>1. \A k \in 0 .. KeyCount : old[k] = step(old)[k] /\ new[k] = step(new)[k]
      BY <1>2, <1>3
    <2>2. QED
      BY <2>1
  <1>5. \A k \in 0 .. KeyCount : old[k] = new[k]
    <2> DEFINE Bad == {k \in 0 .. KeyCount : old[k] # new[k]}
    <2> SUFFICES ASSUME Bad # {} PROVE FALSE
      OBVIOUS
    <2>1. PICK k \in Bad : \A j \in Bad : k <= j
      <3>1. Bad \subseteq Nat
        OBVIOUS
      <3> HIDE DEF Bad
      <3>2. QED
        BY <3>1, LeastNumber
    <2>2. k # 0 /\ k - 1 \in 0 .. KeyCount /\ ~(k <= k - 1)
      BY <1>1, <1>4, <2>1
    <2>3. QED
      BY <1>4, <2>1, <2>2
  <1>6. QED
    <2>1. step(old) = step(new)
      <3>1. \A k \in 0 .. KeyCount : step(old)[k] = step(new)[k]
        BY <1>2, <1>3, <1>5
      <3>2. QED
        BY <3>1
    <2>2. QED
      BY <1>2, <1>3, <2>1 DEF old, new

LEMMA WorkUnitsStable ==
    ASSUME TypeOK, inventory' = inventory, NEW w
    PROVE  WorkUnits(w)' = WorkUnits(w)
  <1>1. Packable(w)' = Packable(w) /\ Large(w)' = Large(w)
    BY DEF Packable, Large, Mine, Listed, Frame, Bytes
  <1>2. Packs(w)' = Packs(w)
    BY <1>1, PackingStable DEF Packs
  <1>3. QED
    BY <1>1, <1>2 DEF WorkUnits

LEMMA WorkUnitsOwned ==
    ASSUME NEW w, NEW u \in WorkUnits(w)
    PROVE  u \in Units /\ u.keys # {} /\ \A k \in u.keys : k \in Listed(inventory) /\ Share[k] = w
  <1>1. u \in Units /\ u.keys \subseteq Listed(inventory)
    BY WorkUnitsType
  <1>2. u.keys # {}
    BY <1>1 DEF Units
  <1>3. \A k \in u.keys : Share[k] = w
    BY DEF WorkUnits, Packs, Packable, Large, Mine
  <1>4. QED
    BY <1>1, <1>2, <1>3

(* The current unit of a busy worker is one of its own, and no one else's. *)
LEMMA OwnUnit ==
    ASSUME TypeInv, UnitsLeft, NEW w \in Worker, todo[w] # {}
    PROVE  Current(w) \in todo[w] /\ Current(w) \in WorkUnits(w) /\ Current(w) \in Units
  BY CurrentUnit DEF UnitsLeft

LEMMA UnitsApart ==
    ASSUME NEW w, NEW v, v # w, NEW u \in WorkUnits(w), NEW t \in WorkUnits(v)
    PROVE  u # t
  BY WorkUnitsOwned

LEMMA Numbers ==
    ASSUME TypeInv
    PROVE  \A k \in Keys : r2[k] \in Nat /\ written[k] \in Nat /\ inventory[k] \in Nat
  BY BoundsAssumption DEF TypeInv, TypeOK, Contents

LEMMA CopyInit == Init => CopyInv
  <1> SUFFICES ASSUME Init PROVE StoreForward /\ UnitsLeft /\ StagedFaithful /\ ReceiptsFaithful
    BY TypeInit DEF CopyInv
  <1>1. \A k \in Keys : written[k] \in Nat
    BY InitialAssumption, BoundsAssumption DEF Init, Contents
  <1>2. QED
    BY <1>1 DEF Init, StoreForward, UnitsLeft, Copying, StagedFaithful, ReceiptsFaithful

(* Newer versions are written, and objects deleted; nothing else happens   *)
(* to the store.                                                           *)
LEMMA WrittenGrows ==
    ASSUME TypeInv, StoreForward, [Next]_vars
    PROVE  /\ \A k \in Keys : /\ written'[k] \in Nat /\ written[k] <= written'[k]
                              /\ r2'[k] \in {0, written'[k]}
           /\ UNCHANGED <<r2, written>> \/ DeleteBatch \/ \E k \in Keys : Write(k)
  <1>0. \A k \in Keys : r2[k] \in {0, written[k]} /\ written[k] \in Nat
    BY Numbers DEF StoreForward
  <1>1. ASSUME NEW w \in Worker, Moves(w) PROVE UNCHANGED <<r2, written>>
    BY <1>1, WorkerFrame DEF store
  <1>2. CASE DeleteBatch
    <2>1. written' = written /\ \A k \in Keys : r2'[k] \in {0, r2[k]}
      BY <1>2 DEF DeleteBatch
    <2>2. QED
      BY <1>0, <1>2, <2>1
  <1>3. ASSUME NEW k \in Keys, Write(k)
        PROVE  \A j \in Keys : /\ written'[j] \in Nat /\ written[j] <= written'[j]
                               /\ r2'[j] \in {0, written'[j]}
    <2>1. /\ written' = [written EXCEPT ![k] = @ + 1] /\ r2' = [r2 EXCEPT ![k] = written'[k]]
          /\ DOMAIN written = Keys /\ DOMAIN r2 = Keys
      BY <1>3 DEF Write, TypeInv, TypeOK, Contents
    <2>2. QED
      BY <1>0, <2>1
  <1>4. CASE Others
    <2>1. UNCHANGED <<r2, written>> \/ DeleteBatch \/ \E k \in Keys : Write(k)
      BY <1>4 DEF Others, Rot, MigrateAnew, FinalizerStep, FinalizerCrash, BeginFinal, ListNext,
                  VerifyCoverage, SkipBatch, ReceiptBatch, Terminal, vars, store
    <2>2. QED
      BY <1>0, <1>2, <1>3, <2>1
  <1>5. QED
    BY <1>0, <1>1, <1>4, StepKinds

LEMMA ForwardNext == TypeInv /\ StoreForward /\ [Next]_vars => StoreForward'
  <1> SUFFICES ASSUME TypeInv, StoreForward, [Next]_vars, NEW k \in Keys
               PROVE  r2'[k] \in {0, written'[k]} /\ inventory'[k] <= written'[k]
    BY DEF StoreForward
  <1>1. /\ written'[k] \in Nat /\ written[k] <= written'[k] /\ r2'[k] \in {0, written'[k]}
        /\ r2[k] \in {0, written[k]} /\ inventory[k] <= written[k]
        /\ written[k] \in Nat /\ inventory[k] \in Nat
    BY WrittenGrows, Numbers DEF StoreForward
  <1>2. inventory' = inventory \/ inventory' = r2
    <2>1. ASSUME NEW w \in Worker, Moves(w) PROVE inventory' = inventory
      BY <2>1, WorkerFrame DEF listing
    <2>2. CASE Others
      BY <2>2, OthersFrame DEF MigrateAnew
    <2>3. QED
      BY <2>1, <2>2, StepKinds
  <1>3. QED
    BY <1>1, <1>2

LEMMA UnitsNext == TypeInv /\ UnitsLeft /\ [Next]_vars => UnitsLeft'
  <1> SUFFICES ASSUME TypeInv, UnitsLeft, [Next]_vars PROVE UnitsLeft'
    OBVIOUS
  <1>1. ASSUME NEW w \in Worker, Moves(w) PROVE UnitsLeft'
    <2>1. /\ inventory' = inventory
          /\ \A v \in Worker \ {w} : UNCHANGED <<todo[v], wpc[v]>>
      BY <1>1, WorkerFrame DEF listing
    <2>2. \A v : WorkUnits(v)' = WorkUnits(v)
      BY <2>1, WorkUnitsStable DEF TypeInv
    <2> DEFINE Fine(v, pc, left) == /\ pc = "off" => left = {}
                                    /\ pc \in {"get", "replace", "receipt"} => left # {}
                                    /\ left \subseteq WorkUnits(v)
    <2>3. \A v \in Worker : Fine(v, wpc[v], todo[v])
      BY DEF UnitsLeft, Copying
    <2>4. Fine(w, wpc'[w], todo'[w])
      <3>1. CASE Notice(w)
        BY <2>3, <3>1 DEF Notice, workers
      <3>2. CASE Launch(w) \/ Replace(w)
        BY <2>3, <3>2 DEF Launch, Replace, TypeInv, TypeOK
      <3>3. ASSUME Die(w) PROVE Fine(w, wpc'[w], todo'[w])
        BY <3>3 DEF Die, TypeInv, TypeOK
      <3>4. ASSUME NEW u, Done(w, u) PROVE Fine(w, wpc'[w], todo'[w])
        BY <2>3, <3>4 DEF Done, TypeInv, TypeOK
      <3>5. CASE Begin(w) \/ Get(w)
        <4>1. \/ Die(w) \/ \E u : Done(w, u)
              \/ /\ todo' = todo /\ todo[w] # {}
                 /\ wpc' = [wpc EXCEPT ![w] = "get"] \/ wpc' = [wpc EXCEPT ![w] = "replace"]
          BY <2>3, <3>5 DEF Begin, Get
        <4>2. QED
          BY <2>3, <3>3, <3>4, <4>1 DEF TypeInv, TypeOK
      <3>6. CASE WriteReceipt(w) \/ Finish(w) \/ Crash(w)
        BY <3>3, <3>4, <3>6 DEF WriteReceipt, Finish, Crash
      <3>7. QED
        BY <1>1, <3>1, <3>2, <3>5, <3>6 DEF Moves, WorkerStep
    <2>5. \A v \in Worker : Fine(v, wpc'[v], todo'[v])
      BY <2>1, <2>3, <2>4
    <2>6. QED
      BY <2>2, <2>5 DEF UnitsLeft, Copying
  <1>2. CASE Others
    <2>1. UNCHANGED <<wpc, todo>>
      BY <1>2, OthersFrame DEF workers
    <2>2. CASE UNCHANGED inventory
      <3>1. \A v : WorkUnits(v)' = WorkUnits(v)
        BY <2>2, WorkUnitsStable DEF TypeInv
      <3>2. QED
        BY <2>1, <3>1 DEF UnitsLeft, Copying
    <2>3. CASE MigrateAnew
      BY <2>1, <2>3 DEF MigrateAnew, UnitsLeft, Copying
    <2>4. QED
      BY <1>2, <2>2, <2>3, OthersFrame
  <1>3. QED
    BY <1>1, <1>2, StepKinds

(* What is faithful stays so while newer versions are written.             *)
LEMMA FaithfulStays ==
    ASSUME TypeInv, StoreForward, [Next]_vars, NEW c, NEW r, NEW k \in Keys, r[k] \in Nat,
           Faithful(c, r, k)
    PROVE  c[k] = r[k] \/ r[k] < written'[k]
  <1>1. written'[k] \in Nat /\ written[k] \in Nat /\ written[k] <= written'[k]
    BY WrittenGrows, Numbers
  <1>2. QED
    BY <1>1 DEF Faithful

LEMMA StagedNext == CopyInv /\ [Next]_vars => StagedFaithful'
  <1> SUFFICES ASSUME CopyInv, [Next]_vars PROVE StagedFaithful'
    OBVIOUS
  <1>a. TypeInv /\ StoreForward /\ UnitsLeft /\ StagedFaithful
    BY DEF CopyInv
  <1>b. \A v \in Worker : Copying(v) => Current(v) \in Units /\ Current(v).keys \subseteq Keys
    BY <1>a, OwnUnit DEF UnitsLeft, Units
  (* A worker whose work the step leaves alone keeps what it staged.       *)
  <1>c. ASSUME NEW v \in Worker, UNCHANGED <<inventory, todo[v], fetched[v]>>,
               wpc[v] \in {"replace", "receipt"}, NEW k \in Current(v)'.keys
        PROVE  Faithful(fetched[v], inventory, k)'
    <2>1. Current(v)' = Current(v)
      BY <1>c, CurrentStable
    <2>2. k \in Keys /\ Faithful(fetched[v], inventory, k) /\ inventory[k] \in Nat
      BY <1>a, <1>b, <1>c, <2>1, Numbers DEF StagedFaithful, Copying
    <2>3. fetched[v][k] = inventory[k] \/ inventory[k] < written'[k]
      BY <1>a, <2>2, FaithfulStays
    <2>4. QED
      BY <1>c, <2>3 DEF Faithful
  <1>1. ASSUME NEW w \in Worker, Moves(w), NEW v \in Worker, wpc'[v] \in {"replace", "receipt"},
               NEW k \in Current(v)'.keys
        PROVE  Faithful(fetched[v], inventory, k)'
    <2>1. inventory' = inventory /\ UNCHANGED <<r2, written>>
      BY <1>a, <1>1, WorkerFrame DEF listing, store
    <2>2. CASE v # w
      BY <1>a, <1>c, <1>1, <2>1, <2>2, WorkerFrame
    <2>3. CASE v = w /\ Get(w)
      <3>1. /\ fetched'[w] = [j \in Keys |-> IF j \in Current(w).keys /\ Size[j][r2[j]] = Bytes(j)
                                             THEN r2[j] ELSE Torn]
            /\ wpc[w] = "get" /\ todo' = todo /\ \A j \in Current(w).keys : Readable(Current(w), j)
        BY <1>a, <1>1, <2>3 DEF Get, Die, TypeInv, TypeOK
      <3>2. Current(w)' = Current(w)
        BY <3>1, CurrentStable
      <3>3. k \in Keys /\ r2[k] = written[k] /\ inventory[k] <= written[k] /\ k \in Current(w).keys
        BY <1>a, <1>b, <1>1, <2>3, <3>1, <3>2 DEF Copying, Readable, StoreForward
      <3>4. r2[k] = inventory[k] => fetched'[w][k] = inventory[k]
        BY <3>1, <3>3 DEF Bytes
      <3>5. inventory[k] \in Nat /\ written[k] \in Nat
        BY <1>a, <3>3, Numbers
      <3>6. QED
        BY <2>1, <2>3, <3>3, <3>4, <3>5 DEF Faithful
    <2>4. CASE v = w /\ ~Get(w)
      <3>1. wpc[w] \in {"replace", "receipt"} /\ UNCHANGED <<todo[w], fetched[w]>>
        BY <1>a, <1>1, <2>4
           DEF Moves, WorkerStep, Notice, Launch, Begin, Replace, WriteReceipt, Finish, Crash,
               Die, Done, workers, TypeInv, TypeOK
      <3>2. QED
        BY <1>c, <1>1, <2>1, <2>4, <3>1
    <2>5. QED
      BY <2>2, <2>3, <2>4
  <1>2. ASSUME Others, NEW v \in Worker, wpc'[v] \in {"replace", "receipt"},
               NEW k \in Current(v)'.keys
        PROVE  Faithful(fetched[v], inventory, k)'
    <2>1. UNCHANGED <<wpc, todo, fetched>>
      BY <1>2, OthersFrame DEF workers
    <2>2. inventory' = inventory
      BY <1>2, <2>1, OthersFrame DEF MigrateAnew
    <2>3. QED
      BY <1>c, <1>2, <2>1, <2>2
  <1>3. QED
    BY <1>1, <1>2, StepKinds DEF StagedFaithful

LEMMA ReceiptsNext == CopyInv /\ [Next]_vars => ReceiptsFaithful'
  <1> SUFFICES ASSUME CopyInv, [Next]_vars, NEW u \in Units, receipt'[u] # Absent, NEW k \in u.keys
               PROVE  Faithful(receipt[u].content, receipt[u].records, k)'
    BY DEF ReceiptsFaithful
  <1>a. TypeInv /\ StoreForward /\ UnitsLeft /\ StagedFaithful /\ ReceiptsFaithful /\ k \in Keys
    BY DEF CopyInv, Units
  <1>1. CASE receipt'[u] = receipt[u]
    <2>1. receipt[u].records[k] \in Nat
      BY <1>a, <1>1, BoundsAssumption DEF TypeInv, TypeOK, Contents
    <2>2. Faithful(receipt[u].content, receipt[u].records, k)
      BY <1>a, <1>1 DEF ReceiptsFaithful
    <2>3. \/ receipt[u].content[k] = receipt[u].records[k]
          \/ receipt[u].records[k] < written'[k]
      BY <1>a, <2>1, <2>2, FaithfulStays
    <2>4. QED
      BY <1>1, <2>3 DEF Faithful
  <1>2. CASE receipt'[u] # receipt[u]
    <2>1. PICK w \in Worker : WriteReceipt(w)
      BY <1>a, <1>2, StepKinds, WorkerFrame, OthersFrame
    <2>2. u = Current(w) /\ receipt'[u] = [records |-> Recorded(u), content |-> fetched[w]]
      BY <1>a, <1>2, <2>1 DEF WriteReceipt, TypeInv, TypeOK
    <2>3. Faithful(fetched[w], inventory, k) /\ inventory[k] \in Nat
      BY <1>a, <2>1, <2>2, Numbers DEF StagedFaithful, WriteReceipt
    <2>4. fetched[w][k] = inventory[k] \/ inventory[k] < written'[k]
      BY <1>a, <2>3, FaithfulStays
    <2>5. receipt'[u].records[k] = inventory[k] /\ receipt'[u].content = fetched[w]
      BY <1>a, <2>2 DEF Recorded
    <2>6. QED
      BY <2>4, <2>5 DEF Faithful
  <1>3. QED
    BY <1>1, <1>2

LEMMA CopyNext == CopyInv /\ [Next]_vars => CopyInv'
  BY TypeNext, ForwardNext, UnitsNext, StagedNext, ReceiptsNext DEF CopyInv

LEMMA CopyCorrect == Spec => []CopyInv
  BY CopyInit, CopyNext, PTL DEF Spec

(* A receipt's payload holds the versions it records, unless they have     *)
(* been overwritten since.                                                 *)
THEOREM CopiesAreFaithful == Spec => []RecordedOrSuperseded
  <1>1. CopyInv => RecordedOrSuperseded
    BY DEF CopyInv, ReceiptsFaithful, Faithful, RecordedOrSuperseded, Intact
  <1>2. QED
    BY <1>1, CopyCorrect, PTL

-----------------------------------------------------------------------------
(* Deletion.  The finalizer starts when every worker has copied its share, *)
(* and a listing passes when every payload agrees with its receipt: then a *)
(* worker that the watcher starts again finds each of its units copied,    *)
(* and what the listing names is on the NAS in the version it names, or    *)
(* has been overwritten since.                                             *)

Copied(u) == receipt[u] # Absent /\ SameSize(u)

LeftOrCopied ==
    \A w \in Worker : wpc[w] # "off" => \A u \in WorkUnits(w) : u \in todo[w] \/ Copied(u)

SharesCopied ==
    \A w \in Worker : w \in complete \/ stage # "wait" => \A u \in WorkUnits(w) : Copied(u)

UnitsHeld ==
    \A w \in Worker : wpc[w] \in {"get", "replace"} =>
        \A u : u = Current(w) => ~Skippable(u) /\ \A k \in u.keys : r2[k] # 0

Placed ==
    \A w \in Worker : wpc[w] = "receipt" => payload[Current(w)] \in {fetched[w], Rotten}

Deleting == stage \in {"delete", "receipt"}

Rehashed == Deleting => \A u \in Units : receipt[u] # Absent => Intact(u)

ListedHeld(k) ==
    \E u \in Units : /\ Intact(u) /\ k \in u.keys
                     /\ receipt[u].content[k] = final[k] \/ final[k] < written[k]

ListedArchived == Deleting => \A k \in Listed(final) : ListedHeld(k)

DeleteInv == /\ CopyInv /\ LeftOrCopied /\ SharesCopied /\ UnitsHeld /\ Placed
             /\ Rehashed /\ ListedArchived /\ DeletedIsArchived

LEMMA DeleteInit == Init => DeleteInv
  <1> SUFFICES ASSUME Init PROVE DeleteInv
    OBVIOUS
  <1>1. \A k \in Keys : written[k] \in Nat
    BY InitialAssumption, BoundsAssumption DEF Init, Contents
  <1>2. DeletedIsArchived
    BY <1>1 DEF Init, DeletedIsArchived
  <1>3. QED
    BY <1>2, CopyInit DEF Init, DeleteInv, LeftOrCopied, SharesCopied, UnitsHeld, Placed,
                          Rehashed, Deleting, ListedArchived

(* During a deletion no worker is about to read or to rename a payload.    *)
LEMMA NoneCopies ==
    ASSUME DeleteInv, Deleting, NEW w \in Worker
    PROVE  wpc[w] \notin {"get", "replace"}
  <1> SUFFICES ASSUME wpc[w] \in {"get", "replace"} PROVE FALSE
    OBVIOUS
  <1>1. Current(w) \in WorkUnits(w) /\ Current(w) \in Units
    BY OwnUnit DEF DeleteInv, CopyInv, UnitsLeft, Copying
  <1>2. Copied(Current(w))
    BY <1>1 DEF DeleteInv, SharesCopied, Deleting
  <1>3. Skippable(Current(w))
    BY <1>1, <1>2 DEF DeleteInv, Rehashed, Copied, Skippable
  <1>4. QED
    BY <1>3 DEF DeleteInv, UnitsHeld

LEMMA SkippableStable ==
    ASSUME inventory' = inventory, NEW u, receipt'[u] = receipt[u]
    PROVE  /\ SameSize(u)' <=> SameSize(u)
           /\ payload'[u] = payload[u] => (Skippable(u)' <=> Skippable(u))
  BY DEF SameSize, Total, Skippable, Intact

(* The unit whose receipt is written is copied then, and stays so.         *)
LEMMA ReceiptCopies ==
    ASSUME TypeInv, UnitsLeft, NEW w \in Worker, WriteReceipt(w), NEW u, u = Current(w)
    PROVE  /\ u \in WorkUnits(w) /\ u \in Units
           /\ receipt'[u].content = fetched[w]
           /\ Copied(u)'
           /\ \A t \in Units \ {u} : receipt'[t] = receipt[t]
  <1>1. u \in WorkUnits(w) /\ u \in Units
    BY OwnUnit DEF WriteReceipt, UnitsLeft, Copying
  <1>2. /\ receipt' = [receipt EXCEPT ![u] = [records |-> Recorded(u), content |-> fetched[w]]]
        /\ inventory' = inventory
    BY DEF WriteReceipt, listing
  <1>3. /\ receipt'[u] = [records |-> Recorded(u), content |-> fetched[w]]
        /\ \A t \in Units \ {u} : receipt'[t] = receipt[t]
    BY <1>1, <1>2 DEF TypeInv, TypeOK
  <1>4. receipt'[u] # Absent
    <2>1. Recorded(u) \in Contents
      BY BoundsAssumption DEF Recorded, TypeInv, TypeOK, Contents
    <2>2. fetched[w] \in Contents
      BY DEF TypeInv, TypeOK
    <2>3. QED
      BY <1>3, <2>1, <2>2, SentinelAssumption
  <1>5. SameSize(u)'
    <2>1. \A k \in u.keys : Recorded(u)[k] = inventory[k]
      BY <1>1 DEF Recorded, Units
    <2>2. [k \in u.keys |-> Size[k][Recorded(u)[k]]] = [k \in u.keys |-> Size[k][inventory[k]]]
      BY <2>1
    <2>3. Total(u, Recorded(u)) = Total(u, inventory)
      BY <2>2 DEF Total
    <2>4. Total(u, receipt'[u].records) = Total(u, inventory')
      BY <1>2, <1>3, <2>3
    <2>5. QED
      BY <2>4 DEF SameSize, Total
  <1>6. QED
    BY <1>1, <1>3, <1>4, <1>5 DEF Copied

LEMMA CopiedStays ==
    ASSUME TypeInv, UnitsLeft, [Next]_vars, inventory' = inventory, NEW u \in Units, Copied(u)
    PROVE  Copied(u)'
  <1>1. CASE receipt'[u] = receipt[u]
    BY <1>1, SkippableStable DEF Copied
  <1>2. CASE receipt'[u] # receipt[u]
    <2>1. PICK w \in Worker : WriteReceipt(w)
      BY <1>2, StepKinds, WorkerFrame, OthersFrame
    <2>2. u = Current(w)
      BY <1>2, <2>1, ReceiptCopies
    <2>3. QED
      BY <2>1, <2>2, ReceiptCopies
  <1>3. QED
    BY <1>1, <1>2

LEMMA SharesNext == DeleteInv /\ [Next]_vars => LeftOrCopied' /\ SharesCopied'
  <1> SUFFICES ASSUME DeleteInv, [Next]_vars PROVE LeftOrCopied' /\ SharesCopied'
    OBVIOUS
  <1>a. TypeInv /\ UnitsLeft /\ LeftOrCopied /\ SharesCopied
    BY DEF DeleteInv, CopyInv
  <1>b. ASSUME inventory' = inventory
        PROVE  /\ \A v : WorkUnits(v)' = WorkUnits(v)
               /\ \A v : \A u \in WorkUnits(v) : Copied(u) => Copied(u)'
    <2>1. \A v : WorkUnits(v)' = WorkUnits(v)
      BY <1>a, <1>b, WorkUnitsStable DEF TypeInv
    <2>2. QED
      BY <1>a, <1>b, <2>1, CopiedStays, WorkUnitsOwned
  <1>1. ASSUME NEW w \in Worker, Moves(w) PROVE LeftOrCopied' /\ SharesCopied'
    <2>1. /\ inventory' = inventory /\ stage' = stage
          /\ \A v \in Worker \ {w} : /\ UNCHANGED <<todo[v], wpc[v]>>
                                     /\ v \in complete' <=> v \in complete
      BY <1>a, <1>1, WorkerFrame DEF listing, finalizer
    <2>2. /\ wpc'[w] # "off" => \A u \in WorkUnits(w) : u \in todo'[w] \/ Copied(u)'
          /\ w \in complete' /\ w \notin complete => \A u \in WorkUnits(w) : Copied(u)
      <3> PICK t : t = Current(w)
        OBVIOUS
      <3>1. CASE Notice(w) \/ Launch(w) \/ Crash(w)
        BY <1>a, <1>b, <2>1, <3>1
           DEF Notice, Launch, Crash, Die, workers, watcher, LeftOrCopied, TypeInv, TypeOK
      <3>2. ASSUME Done(w, t), Copied(t) \/ Copied(t)', wpc[w] # "off", t \in Units
            PROVE  /\ wpc'[w] # "off" => \A u \in WorkUnits(w) : u \in todo'[w] \/ Copied(u)'
                   /\ w \notin complete'
        <4>1. todo'[w] = todo[w] \ {t} /\ w \notin complete'
          BY <1>a, <3>2 DEF Done, TypeInv, TypeOK
        <4>2. Copied(t)'
          BY <1>a, <2>1, <3>2, CopiedStays
        <4>3. QED
          BY <1>a, <1>b, <2>1, <3>2, <4>1, <4>2 DEF LeftOrCopied
      <3>3. CASE Begin(w)
        <4>1. /\ wpc[w] = "unit" /\ t \in Units
              /\ \/ Skippable(t) /\ Done(w, t)
                 \/ (Die(w) /\ complete' = complete)
                 \/ UNCHANGED <<todo, complete>>
          BY <1>a, <3>3, OwnUnit DEF Begin
        <4>2. Skippable(t) => Copied(t)
          BY DEF Skippable, Intact, Copied
        <4>3. QED
          BY <1>a, <1>b, <2>1, <3>2, <4>1, <4>2 DEF Die, LeftOrCopied, TypeInv, TypeOK
      <3>4. CASE Get(w) \/ Replace(w)
        BY <1>a, <1>b, <2>1, <3>4 DEF Get, Replace, Die, LeftOrCopied, watcher, TypeInv, TypeOK
      <3>5. CASE WriteReceipt(w)
        <4>1. Copied(t)' /\ t \in Units
          BY <1>a, <3>5, ReceiptCopies
        <4>2. wpc[w] # "off" /\ Done(w, t)
          BY <3>5 DEF WriteReceipt
        <4>3. QED
          BY <3>2, <4>1, <4>2
      <3>6. CASE Finish(w)
        BY <1>a, <3>6 DEF Finish, Die, LeftOrCopied, TypeInv, TypeOK
      <3>7. QED
        BY <1>1, <3>1, <3>3, <3>4, <3>5, <3>6 DEF Moves, WorkerStep
    <2>3. LeftOrCopied'
      BY <1>a, <1>b, <2>1, <2>2 DEF LeftOrCopied
    <2>4. SharesCopied'
      BY <1>a, <1>b, <2>1, <2>2 DEF SharesCopied
    <2>5. QED
      BY <2>3, <2>4
  <1>2. CASE Others
    <2>1. UNCHANGED <<wpc, todo>>
      BY <1>2, OthersFrame DEF workers
    <2>2. CASE MigrateAnew
      BY <2>1, <2>2 DEF MigrateAnew, LeftOrCopied, SharesCopied, finalizer
    <2>3. CASE UNCHANGED <<inventory, complete>>
      <3>1. stage' # "wait" => stage # "wait" \/ complete = Worker
        BY <1>2 DEF Others, Write, Rot, MigrateAnew, FinalizerStep, FinalizerCrash, BeginFinal,
                    ListNext, VerifyCoverage, SkipBatch, DeleteBatch, ReceiptBatch, Terminal,
                    Restart, vars, finalizer
      <3>2. QED
        BY <1>a, <1>b, <2>1, <2>3, <3>1 DEF LeftOrCopied, SharesCopied
    <2>4. QED
      BY <1>2, <2>2, <2>3, OthersFrame
  <1>3. QED
    BY <1>1, <1>2, StepKinds

LEMMA HeldNext == DeleteInv /\ [Next]_vars => UnitsHeld' /\ Placed'
  <1> SUFFICES ASSUME DeleteInv, [Next]_vars, NEW v \in Worker, NEW u, u = Current(v)'
               PROVE  /\ wpc'[v] \in {"get", "replace"} =>
                            ~Skippable(u)' /\ \A k \in u.keys : r2'[k] # 0
                      /\ wpc'[v] = "receipt" => payload'[u] \in {fetched'[v], Rotten}
    BY DEF UnitsHeld, Placed
  <1> DEFINE Goal == /\ wpc'[v] \in {"get", "replace"} =>
                            ~Skippable(u)' /\ \A k \in u.keys : r2'[k] # 0
                     /\ wpc'[v] = "receipt" => payload'[u] \in {fetched'[v], Rotten}
  <1>a. TypeInv /\ StoreForward /\ UnitsLeft /\ UnitsHeld /\ Placed
    BY DEF DeleteInv, CopyInv
  <1>b. ASSUME UNCHANGED <<inventory, todo[v]>>
        PROVE  /\ u = Current(v)
               /\ Copying(v) => u \in WorkUnits(v) /\ u \in Units /\ u.keys \subseteq Keys
    <2>1. u = Current(v)
      BY <1>b, CurrentStable
    <2>2. QED
      BY <1>a, <2>1, OwnUnit DEF UnitsLeft, Units
  (* A worker whose unit the step leaves alone.                            *)
  <1>c. ASSUME UNCHANGED <<inventory, todo[v], wpc[v], fetched[v]>>,
               Copying(v) => receipt'[u] = receipt[u],
               Copying(v) => payload'[u] = payload[u] \/ (payload'[u] = Rotten /\ wpc[v] = "receipt")
                                \/ (payload'[u] = Rotten /\ ~Skippable(u)'),
               wpc[v] \in {"get", "replace"} => \A k \in u.keys : r2'[k] # 0
        PROVE  Goal
    <2>1. u = Current(v)
      BY <1>b, <1>c
    <2>2. Copying(v) /\ payload'[u] = payload[u] => (Skippable(u)' <=> Skippable(u))
      BY <1>c, SkippableStable
    <2>3. QED
      BY <1>a, <1>c, <2>1, <2>2 DEF UnitsHeld, Placed, Copying
  <1>1. ASSUME NEW w \in Worker, Moves(w), v # w PROVE Goal
    <2>1. UNCHANGED <<inventory, r2, todo[v], wpc[v], fetched[v]>>
      BY <1>a, <1>1, WorkerFrame DEF listing, store
    <2>2. ASSUME Copying(v) PROVE receipt'[u] = receipt[u] /\ payload'[u] = payload[u]
      <3>1. CASE Replace(w) \/ WriteReceipt(w)
        <4>1. Current(w) \in WorkUnits(w) /\ Current(w) \in Units
          BY <1>a, <3>1, OwnUnit DEF Replace, WriteReceipt, UnitsLeft, Copying
        <4>2. u # Current(w)
          BY <1>b, <1>1, <2>1, <2>2, <4>1, UnitsApart
        <4>3. QED
          BY <1>a, <1>b, <2>1, <2>2, <3>1, <4>2 DEF Replace, WriteReceipt, TypeInv, TypeOK
      <3>2. QED
        BY <1>a, <1>1, <3>1, WorkerFrame
    <2>3. QED
      BY <1>a, <1>b, <1>c, <2>1, <2>2 DEF UnitsHeld
  <1>2. ASSUME Moves(v) PROVE Goal
    <2>1. inventory' = inventory /\ r2' = r2
      BY <1>a, <1>2, WorkerFrame DEF listing, store
    <2>2. CASE Begin(v) /\ wpc'[v] = "get"
      <3>1. /\ ~Skippable(Current(v)) /\ UNCHANGED <<todo, payload, receipt>>
            /\ \A k \in Current(v).keys : r2[k] = inventory[k]
            /\ wpc[v] = "unit" /\ todo[v] # {}
        BY <1>a, <2>2 DEF Begin, Done, Die, archive, TypeInv, TypeOK
      <3>2. u = Current(v) /\ u \in WorkUnits(v)
        BY <1>a, <1>b, <2>1, <3>1, OwnUnit DEF Copying, UnitsLeft
      <3>3. \A k \in u.keys : r2[k] # 0
        BY <3>1, <3>2, WorkUnitsOwned DEF Listed
      <3>4. ~Skippable(u)'
        BY <2>1, <3>1, <3>2, SkippableStable
      <3>5. QED
        BY <2>1, <2>2, <3>3, <3>4
    <2>3. CASE Get(v) /\ wpc'[v] = "replace"
      <3>1. UNCHANGED <<todo, payload, receipt>> /\ wpc[v] = "get"
        BY <1>a, <2>3 DEF Get, Die, archive, TypeInv, TypeOK
      <3>2. u = Current(v) /\ ~Skippable(u) /\ \A k \in u.keys : r2[k] # 0
        BY <1>a, <1>b, <2>1, <3>1 DEF UnitsHeld
      <3>3. ~Skippable(u)'
        BY <2>1, <3>1, <3>2, SkippableStable
      <3>4. QED
        BY <2>1, <2>3, <3>2, <3>3
    <2>4. CASE Replace(v)
      <3>1. /\ wpc'[v] = "receipt" /\ UNCHANGED <<todo, fetched>> /\ Copying(v)
            /\ payload' = [payload EXCEPT ![Current(v)] = fetched[v]]
        BY <1>a, <2>4 DEF Replace, Copying, TypeInv, TypeOK
      <3>2. u = Current(v) /\ u \in Units
        BY <1>b, <2>1, <3>1
      <3>3. payload'[u] = fetched[v]
        BY <1>a, <3>1, <3>2 DEF TypeInv, TypeOK
      <3>4. QED
        BY <3>1, <3>3
    <2>5. CASE Notice(v)
      <3>1. UNCHANGED <<workers, archive>>
        BY <2>5 DEF Notice
      <3>2. QED
        BY <1>a, <1>b, <1>c, <2>1, <3>1 DEF workers, archive, UnitsHeld
    <2>6. CASE Launch(v)
      <3>1. wpc'[v] = "unit" \/ UNCHANGED <<workers, archive>>
        BY <1>a, <2>6 DEF Launch, workers, archive, TypeInv, TypeOK
      <3>2. QED
        BY <1>a, <1>b, <1>c, <2>1, <3>1 DEF workers, archive, UnitsHeld
    <2>7. CASE wpc'[v] \in {"off", "unit"}
      BY <2>7
    <2>8. Begin(v) \/ Get(v) \/ WriteReceipt(v) \/ Finish(v) \/ Crash(v) =>
             \/ wpc'[v] \in {"off", "unit"}
             \/ Begin(v) /\ wpc'[v] = "get"
             \/ Get(v) /\ wpc'[v] = "replace"
      BY <1>a DEF Begin, Get, WriteReceipt, Finish, Crash, Die, Done, TypeInv, TypeOK
    <2>9. QED
      BY <1>2, <2>2, <2>3, <2>4, <2>5, <2>6, <2>7, <2>8 DEF Moves, WorkerStep
  <1>3. CASE Others
    <2>1. UNCHANGED <<wpc, todo, fetched, receipt>>
      BY <1>3, OthersFrame DEF workers
    <2>2. CASE MigrateAnew
      BY <2>1, <2>2 DEF MigrateAnew
    <2>3. CASE inventory' = inventory
      <3>0. u = Current(v) /\ (Copying(v) => u \in Units /\ u.keys \subseteq Keys)
        BY <1>b, <2>1, <2>3
      <3>1. ASSUME wpc[v] \in {"get", "replace"}, NEW k \in u.keys PROVE r2'[k] # 0
        <4>1. k \in Keys /\ r2[k] # 0 /\ ~DeleteBatch
          BY <1>a, <3>0, <3>1, NoneCopies DEF UnitsHeld, Copying, DeleteBatch, Deleting
        <4>2. CASE UNCHANGED r2
          BY <4>1, <4>2
        <4>3. ASSUME NEW j \in Keys, Write(j) PROVE r2'[k] # 0
          <5>1. r2' = [r2 EXCEPT ![j] = written[j] + 1] /\ written[j] \in Nat
            BY <1>a, <4>3, Numbers DEF Write, TypeInv, TypeOK, Contents
          <5>2. QED
            BY <1>a, <4>1, <5>1 DEF TypeInv, TypeOK, Contents
        <4>4. QED
          BY <1>a, <4>1, <4>2, <4>3, WrittenGrows
      <3>2. ASSUME Copying(v), payload'[u] # payload[u] PROVE payload'[u] = Rotten /\ ~Skippable(u)'
        <4>1. payload'[u] = Rotten
          BY <1>a, <3>0, <1>3, <3>2, OthersFrame DEF Rot, TypeInv, TypeOK
        <4>2. receipt[u] # Absent => receipt[u].content # Rotten
          BY <1>a, <3>0, <3>2, SentinelAssumption DEF TypeInv, TypeOK
        <4>3. QED
          BY <2>1, <4>1, <4>2 DEF Skippable, Intact
      <3>3. QED
        BY <1>c, <2>1, <2>3, <3>1, <3>2
    <2>4. QED
      BY <1>3, <2>2, <2>3, OthersFrame
  <1>4. QED
    BY <1>1, <1>2, <1>3, StepKinds

(* How a deletion begins.                                                  *)
LEMMA DeletionBegins ==
    ASSUME [Next]_vars, TypeInv, Deleting'
    PROVE  \/ Deleting /\ final' = final
           \/ VerifyCoverage /\ CoverageComplete /\ final' = final /\ UNCHANGED <<store, archive>>
  <1>1. ASSUME NEW w \in Worker, Moves(w) PROVE Deleting /\ final' = final
    BY <1>1, WorkerFrame DEF finalizer, Deleting
  <1>2. CASE Others
    <2>1. CASE (\E k \in Keys : Write(k)) \/ (\E u \in Units : Rot(u)) \/ UNCHANGED vars
      BY <2>1 DEF Write, Rot, vars, finalizer, Deleting
    <2>2. CASE MigrateAnew
      BY <2>2 DEF MigrateAnew, finalizer, Deleting
    <2>3. CASE FinalizerStep \/ FinalizerCrash
      BY <2>3 DEF FinalizerStep, FinalizerCrash, BeginFinal, ListNext, VerifyCoverage, SkipBatch,
                  DeleteBatch, ReceiptBatch, Terminal, Restart, Deleting
    <2>4. QED
      BY <1>2, <2>1, <2>2, <2>3 DEF Others
  <1>3. QED
    BY <1>1, <1>2, StepKinds

(* A payload that an object rests on, because it has been deleted or is    *)
(* about to be, stays with its receipt.                                    *)
LEMMA ArchiveKeeps ==
    ASSUME DeleteInv, [Next]_vars, NEW u \in Units, Intact(u), NEW k \in u.keys,
           r2[k] = 0 \/ Deleting
    PROVE  Intact(u)' /\ receipt'[u].content = receipt[u].content
  <1>a. TypeInv /\ UnitsLeft /\ UnitsHeld /\ Placed
    BY DEF DeleteInv, CopyInv
  <1>b. receipt[u] # Absent /\ payload[u] = receipt[u].content /\ payload[u] # Rotten
    BY <1>a, SentinelAssumption DEF Intact, TypeInv, TypeOK
  <1>1. payload'[u] = payload[u]
    <2>1. ASSUME NEW w \in Worker, Replace(w) PROVE payload'[u] = payload[u]
      <3>1. wpc[w] = "replace" /\ ~Deleting
        BY <2>1, NoneCopies DEF Replace
      <3>2. u # Current(w)
        BY <1>a, <3>1 DEF UnitsHeld
      <3>3. QED
        BY <1>a, <2>1, <3>2 DEF Replace, TypeInv, TypeOK
    <2>2. ASSUME NEW t \in Units, Rot(t) PROVE payload'[u] = payload[u]
      BY <1>a, <2>2 DEF Rot, Deleting, TypeInv, TypeOK
    <2>3. QED
      BY <1>a, <2>1, <2>2, StepKinds, WorkerFrame, OthersFrame
  <1>2. receipt'[u] # Absent /\ receipt'[u].content = receipt[u].content
    <2>1. ASSUME NEW w \in Worker, WriteReceipt(w)
          PROVE  receipt'[u] # Absent /\ receipt'[u].content = receipt[u].content
      <3>1. CASE u = Current(w)
        <4>1. payload[u] \in {fetched[w], Rotten}
          BY <1>a, <2>1, <3>1 DEF WriteReceipt, Placed
        <4>2. QED
          BY <1>a, <1>b, <2>1, <3>1, <4>1, ReceiptCopies DEF Copied
      <3>2. CASE u # Current(w)
        BY <1>a, <1>b, <2>1, <3>2, ReceiptCopies
      <3>3. QED
        BY <3>1, <3>2
    <2>2. QED
      BY <1>a, <1>b, <2>1, StepKinds, WorkerFrame, OthersFrame
  <1>3. QED
    BY <1>b, <1>1, <1>2 DEF Intact

LEMMA RehashedNext == DeleteInv /\ [Next]_vars => Rehashed'
  <1> SUFFICES ASSUME DeleteInv, [Next]_vars, Deleting', NEW u \in Units, receipt'[u] # Absent
               PROVE  Intact(u)'
    BY DEF Rehashed
  <1>a. TypeInv /\ UnitsLeft /\ SharesCopied /\ Rehashed
    BY DEF DeleteInv, CopyInv
  <1>1. CASE VerifyCoverage /\ CoverageComplete /\ UNCHANGED archive
    BY <1>1 DEF CoverageComplete, BadPayloads, Receipts, Intact, archive
  <1>2. CASE Deleting
    <2>1. receipt[u] # Absent
      <3>1. ASSUME NEW w \in Worker, WriteReceipt(w), u = Current(w) PROVE receipt[u] # Absent
        BY <1>a, <1>2, <3>1, ReceiptCopies DEF SharesCopied, Copied, Deleting
      <3>2. ASSUME NEW w \in Worker, WriteReceipt(w), u # Current(w) PROVE receipt[u] # Absent
        BY <1>a, <3>2, ReceiptCopies
      <3>3. QED
        BY <1>a, <3>1, <3>2, StepKinds, WorkerFrame, OthersFrame
    <2>2. Intact(u) /\ \E k \in u.keys : TRUE
      BY <1>a, <1>2, <2>1 DEF Rehashed, Units
    <2>3. QED
      BY <1>2, <2>2, ArchiveKeeps
  <1>3. QED
    BY <1>a, <1>1, <1>2, DeletionBegins

(* A reconciled listing names only objects the archive holds, or that were *)
(* overwritten.                                                            *)
LEMMA CoverageArchives ==
    ASSUME CopyInv, CoverageComplete, NEW k \in Listed(final)
    PROVE  ListedHeld(k)
  <1>1. PICK u \in Receipts : Covers(u, k) /\ receipt[u].records[k] = final[k]
    BY DEF CoverageComplete, Matched
  <1>2. u \in Units /\ k \in u.keys /\ Intact(u) /\ receipt[u] # Absent
    BY <1>1 DEF Covers, Receipts, BadPayloads
  <1>3. Faithful(receipt[u].content, receipt[u].records, k)
    BY <1>2 DEF CopyInv, ReceiptsFaithful
  <1>4. QED
    BY <1>1, <1>2, <1>3 DEF Faithful, ListedHeld

LEMMA ListedNext == DeleteInv /\ [Next]_vars => ListedArchived'
  <1> SUFFICES ASSUME DeleteInv, [Next]_vars, Deleting', NEW k \in Listed(final')
               PROVE  ListedHeld(k)'
    BY DEF ListedArchived, Listed
  <1>a. TypeInv /\ CopyInv /\ StoreForward /\ ListedArchived
    BY DEF DeleteInv, CopyInv
  <1>1. CASE VerifyCoverage /\ CoverageComplete /\ final' = final /\ UNCHANGED <<store, archive>>
    BY <1>a, <1>1, CoverageArchives DEF ListedHeld, Intact, store, archive
  <1>2. CASE Deleting /\ final' = final
    <2>1. k \in Keys /\ ListedHeld(k) /\ final[k] \in Nat
      BY <1>a, <1>2, BoundsAssumption DEF ListedArchived, Listed, TypeInv, TypeOK, Contents
    <2>2. PICK u \in Units : /\ Intact(u) /\ k \in u.keys
                             /\ receipt[u].content[k] = final[k] \/ final[k] < written[k]
      BY <2>1 DEF ListedHeld
    <2>3. Intact(u)' /\ receipt'[u].content = receipt[u].content
      BY <1>2, <2>2, ArchiveKeeps
    <2>4. written'[k] \in Nat /\ written[k] \in Nat /\ written[k] <= written'[k]
      BY <1>a, <2>1, WrittenGrows, Numbers
    <2>5. QED
      BY <1>2, <2>1, <2>2, <2>3, <2>4 DEF ListedHeld
  <1>3. QED
    BY <1>a, <1>1, <1>2, DeletionBegins

LEMMA DeletedNext == DeleteInv /\ [Next]_vars => DeletedIsArchived'
  <1> SUFFICES ASSUME DeleteInv, [Next]_vars, NEW k \in Keys, k \notin lost', r2'[k] = 0,
                      written'[k] > 0
               PROVE  Archived(k)'
    BY DEF DeletedIsArchived
  <1>a. TypeInv /\ StoreForward /\ DeletedIsArchived /\ ListedArchived
    BY DEF DeleteInv, CopyInv
  <1>1. CASE r2[k] = 0 /\ written'[k] = written[k] /\ k \notin lost
    <2>1. Archived(k)
      BY <1>a, <1>1 DEF DeletedIsArchived
    <2>2. PICK u \in Units : Intact(u) /\ k \in u.keys /\ receipt[u].content[k] = written[k]
      BY <2>1 DEF Archived
    <2>3. Intact(u)' /\ receipt'[u].content = receipt[u].content
      BY <1>1, <2>2, ArchiveKeeps
    <2>4. QED
      BY <1>1, <2>2, <2>3 DEF Archived
  <1>2. CASE DeleteBatch
    <2>1. PICK gone \in SUBSET Batch :
             /\ r2' = [j \in Keys |-> IF j \in gone THEN 0 ELSE r2[j]]
             /\ lost' = lost \cup {j \in gone : r2[j] \notin {0, final[j]}}
      BY <1>2 DEF DeleteBatch
    <2>2. UNCHANGED <<written, payload, receipt>> /\ stage = "delete"
      BY <1>2 DEF DeleteBatch, archive
    <2>3. CASE r2[k] = 0
      BY <1>1, <2>1, <2>2, <2>3
    <2>4. CASE r2[k] # 0
      <3>1. k \in gone /\ r2[k] = final[k] /\ r2[k] = written[k]
        BY <1>a, <2>1, <2>4 DEF StoreForward
      <3>2. ListedHeld(k) /\ written[k] \in Nat
        BY <1>a, <2>1, <2>2, <3>1, Numbers DEF Batch, ListedArchived, Deleting
      <3>3. Archived(k)
        BY <3>1, <3>2 DEF ListedHeld, Archived
      <3>4. QED
        BY <2>2, <3>3 DEF Archived, Intact
    <2>5. QED
      BY <2>3, <2>4
  <1>3. ASSUME NEW j \in Keys, Write(j) PROVE Archived(k)'
    <2>1. /\ written' = [written EXCEPT ![j] = @ + 1] /\ r2' = [r2 EXCEPT ![j] = written[j] + 1]
          /\ lost' = lost \ {j} /\ written[j] \in Nat
      BY <1>a, <1>3, Numbers DEF Write, TypeInv, TypeOK, Contents
    <2>2. k # j
      BY <1>a, <2>1 DEF TypeInv, TypeOK, Contents
    <2>3. QED
      BY <1>1, <1>a, <2>1, <2>2 DEF TypeInv, TypeOK, Contents
  <1>4. CASE UNCHANGED store
    BY <1>1, <1>4 DEF store
  <1>5. UNCHANGED store \/ DeleteBatch \/ \E j \in Keys : Write(j)
    <2>1. ASSUME NEW w \in Worker, Moves(w) PROVE UNCHANGED store
      BY <1>a, <2>1, WorkerFrame
    <2>2. CASE Others
      BY <2>2 DEF Others, Rot, MigrateAnew, FinalizerStep, FinalizerCrash, BeginFinal, ListNext,
                  VerifyCoverage, SkipBatch, ReceiptBatch, Terminal, vars
    <2>3. QED
      BY <2>1, <2>2, StepKinds
  <1>6. QED
    BY <1>2, <1>3, <1>4, <1>5

LEMMA DeleteNext == DeleteInv /\ [Next]_vars => DeleteInv'
  BY CopyNext, SharesNext, HeldNext, RehashedNext, ListedNext, DeletedNext DEF DeleteInv

LEMMA DeleteCorrect == Spec => []DeleteInv
  BY DeleteInit, DeleteNext, PTL DEF Spec

(* Every object that is gone from the store has its newest version on the  *)
(* NAS, unless the last deletion took another version than was listed:     *)
(* whatever listing the finalizer was given, and whatever workers, the     *)
(* watcher, writers and the disks did before and meanwhile.                *)
THEOREM DeletionIsSafe == Spec => []DeletedIsArchived
  <1>1. DeleteInv => DeletedIsArchived
    BY DEF DeleteInv
  <1>2. QED
    BY <1>1, DeleteCorrect, PTL

(* No payload changes during a deletion, though a worker that had finished *)
(* may be started again by then (main of watch_nas_archive.py).            *)
THEOREM PayloadsStayPut == Spec => PayloadsStay
  <1>1. DeleteInv /\ [Next]_vars => [(stage \in {"delete", "receipt"}) => UNCHANGED payload]_vars
    <2> SUFFICES ASSUME DeleteInv, [Next]_vars, Deleting PROVE UNCHANGED payload
      BY DEF Deleting
    <2>1. TypeInv
      BY DEF DeleteInv, CopyInv
    <2>2. \A w \in Worker : ~Replace(w)
      BY NoneCopies DEF Replace
    <2>3. \A u \in Units : ~Rot(u)
      BY DEF Rot, Deleting
    <2>4. QED
      BY <2>1, <2>2, <2>3, StepKinds, WorkerFrame, OthersFrame
  <1>2. QED
    BY <1>1, DeleteCorrect, PTL DEF Spec, PayloadsStay

-----------------------------------------------------------------------------
CoverInv == SmallFits /\ DeleteInv

LEMMA CoverNext == CoverInv /\ [Next]_vars => CoverInv'
  BY DeleteNext DEF CoverInv, SmallFits

(* A complete worker has receipted every object of its share, small or     *)
(* large: no pack is forgotten at the end and none is without a number.    *)
(* The hypothesis holds of the sizes migrate_worker starts with.           *)
THEOREM SharesAreCovered == SmallFits /\ Spec => []CompleteWorkersCoverShare
  <1>1. CoverInv => CompleteWorkersCoverShare
    <2> SUFFICES ASSUME SmallFits, DeleteInv, NEW w \in complete, NEW k \in Mine(w)
                 PROVE  \E u \in Receipts : k \in u.keys
      BY DEF CoverInv, CompleteWorkersCoverShare
    <2>1. TypeOK /\ w \in Worker /\ SharesCopied
      BY DEF DeleteInv, CopyInv, TypeInv, TypeOK
    <2>2. PICK u \in WorkUnits(w) : k \in u.keys
      BY <2>1, LanesCoverShare
    <2>3. u \in Units /\ Copied(u)
      BY <2>1, <2>2, WorkUnitsOwned DEF SharesCopied
    <2>4. QED
      BY <2>2, <2>3 DEF Copied, Receipts
  <1>2. SmallFits /\ Init => CoverInv
    BY DeleteInit DEF CoverInv
  <1>3. QED
    BY <1>1, <1>2, CoverNext, PTL DEF Spec

-----------------------------------------------------------------------------
(***************************************************************************)
(* The composition of the evacuation with its clean-up: it behaves as the  *)
(* evacuation does, so what is proved of that holds of both, and the       *)
(* folder goes last.                                                       *)
(***************************************************************************)

(* Each step of the composition is one of the evacuation, or leaves it be. *)
LEMMA CleanupStutters == [CNext]_allVars => [Next]_vars
  BY DEF CNext, Change, Compare, Delete, Kill, allVars

(* Whatever the script does, the evacuation it waits for keeps to its own  *)
(* specification (cleanup_icloud_after_nas.py writes nothing it reads).    *)
LEMMA CleanupImplementsArchive == CSpec => Spec
  <1>1. CInit => Init
    BY DEF CInit
  <1>2. QED
    BY <1>1, CleanupStutters, PTL DEF CSpec, Spec

(* The store is empty from the terminal receipt on, and nothing is erased  *)
(* before it.                                                              *)
EmptyInv == /\ stage = "done" => r2 = Nothing
            /\ state = "delete" \/ erased # {} => stage = "done"

LEMMA EmptyNext == EmptyInv /\ [CNext]_allVars => EmptyInv'
  <1> SUFFICES ASSUME EmptyInv, [CNext]_allVars PROVE EmptyInv'
    OBVIOUS
  <1>1. CASE Next /\ UNCHANGED cleanup
    <2> DEFINE StaysEmpty == (stage' = "done" => r2' = Nothing) /\ (stage = "done" => stage' = "done")
    <2>1. StaysEmpty
      <3>1. ASSUME NEW k \in Keys, Write(k) PROVE StaysEmpty
        BY <3>1 DEF Write, EmptyInv, finalizer
      <3>2. ASSUME NEW u \in Units, Rot(u) PROVE StaysEmpty
        BY <3>2 DEF Rot, EmptyInv, finalizer, store
      <3>3. ASSUME NEW w \in Worker, Notice(w) \/ Launch(w) \/ WorkerStep(w) \/ Crash(w)
            PROVE  StaysEmpty
        BY <3>3 DEF WorkerStep, Crash, Notice, Launch, Begin, Get, Replace, WriteReceipt, Finish,
                    EmptyInv, finalizer, store
      <3>4. CASE MigrateAnew
        BY <3>4 DEF MigrateAnew, EmptyInv, finalizer, store
      <3>5. CASE FinalizerStep
        BY <3>5 DEF FinalizerStep, BeginFinal, ListNext, VerifyCoverage, SkipBatch, DeleteBatch,
                    ReceiptBatch, Terminal, Restart, EmptyInv, store
      <3>6. CASE FinalizerCrash
        BY <3>6 DEF FinalizerCrash, Restart, EmptyInv, store
      <3>7. QED
        BY <1>1, <3>1, <3>2, <3>3, <3>4, <3>5, <3>6 DEF Next
    <2>2. QED
      BY <1>1, <2>1 DEF EmptyInv, Nothing, cleanup
  <1>2. CASE UNCHANGED vars /\ ~(Next /\ UNCHANGED cleanup)
    <2>1. UNCHANGED <<stage, r2>>
      BY <1>2 DEF vars, store, finalizer
    <2>2. (state = "delete" \/ erased # {} => stage = "done")'
      BY <1>2, <2>1 DEF EmptyInv, CNext, Change, Compare, Compared, Delete, Kill,
                        Ended, allVars, cleanup
    <2>3. QED
      BY <2>1, <2>2 DEF EmptyInv, Nothing
  <1>3. QED
    BY <1>1, <1>2 DEF CNext, Change, Compare, Delete, Kill, allVars

(* The last copies of the objects outside the NAS are erased only when the *)
(* store is empty and the NAS holds each object in its newest version,     *)
(* those excepted that the deletion by name took in another version than   *)
(* was listed (main of the script waits for the terminal receipt).         *)
THEOREM CleanupIsSafe == CSpec => []ErasedIsArchived
  <1>1. CSpec => []DeletedIsArchived
    BY CleanupImplementsArchive, DeletionIsSafe, PTL
  <1>2. CInit => EmptyInv
    BY DEF CInit, Init, EmptyInv
  <1>3. CSpec => []EmptyInv
    BY <1>2, EmptyNext, PTL DEF CSpec
  <1>4. DeletedIsArchived /\ EmptyInv => ErasedIsArchived
    BY DEF DeletedIsArchived, EmptyInv, ErasedIsArchived, Nothing
  <1>5. QED
    BY <1>1, <1>3, <1>4, PTL
=============================================================================
