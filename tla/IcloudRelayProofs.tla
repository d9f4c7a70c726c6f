------------------------- MODULE IcloudRelayProofs -------------------------
(***************************************************************************)
(* Proofs about IcloudRelay, for any objects, versions, sizes and bounds:  *)
(* type correctness; what an object's receipt, a pack's receipt and a      *)
(* deletion say about the bytes on the Mac.                                *)
(***************************************************************************)
EXTENDS IcloudRelay, FiniteSetTheorems, WellFoundedInduction, TLAPS

-----------------------------------------------------------------------------
(* Lemmas about the operators of the model.                                *)

LEMMA LeastOf ==
    ASSUME NEW T, T \subseteq Nat, T # {}
    PROVE  \E k \in T : \A j \in T : k <= j
<1>1. PICK k \in T : \A j \in T : ~(<<j, k>> \in OpToRel(<, Nat))
  BY WFMin, NatLessThanWellFounded
<1>2. \A j \in T : ~(j < k)
  BY <1>1 DEF OpToRel
<1> QED BY <1>2

LEMMA ChunkCount ==
    ASSUME NEW o \in Objects, NEW v \in Versions
    PROVE  Chunks[o][v] \in 1 .. MaxChunks /\ 1 .. Chunks[o][v] \subseteq Places /\ MaxChunks \in Nat
  BY ChunksAssumption DEF Places

(* The chunk a run resumes at is the first one without a receipt.          *)
LEMMA FirstMissingIs ==
    ASSUME NEW o, Expected(o) \in Nat
    PROVE  /\ FirstMissing(o) \in 1 .. (Expected(o) + 1)
           /\ \A c \in 1 .. (FirstMissing(o) - 1) : receipts[o][c] # None
           /\ FirstMissing(o) <= Expected(o) => receipts[o][FirstMissing(o)] = None
<1> DEFINE T == {c \in 1 .. Expected(o) : receipts[o][c] = None}
           Right(n) == /\ \A c \in 1 .. (n - 1) : receipts[o][c] # None
                       /\ n <= Expected(o) => receipts[o][n] = None
<1>1. \E n \in 1 .. (Expected(o) + 1) : Right(n)
  <2>1. CASE T = {}
    BY <2>1
  <2>2. CASE T # {}
    <3>0. T \subseteq Nat
      OBVIOUS
    <3>1. PICK k \in T : \A j \in T : k <= j
      BY <2>2, <3>0, LeastOf
    <3>2. Right(k)
      BY <3>1
    <3> QED BY <3>2, <3>1
  <2> QED BY <2>1, <2>2
<1>2. FirstMissing(o) = CHOOSE n \in 1 .. (Expected(o) + 1) : Right(n)
  BY DEF FirstMissing
<1> QED BY <1>1, <1>2

LEMMA NextRowIs ==
    ASSUME Unsent # {}, Unsent \subseteq Nat
    PROVE  NextRow \in Unsent
<1>1. \E k \in Unsent : \A j \in Unsent : k <= j
  BY LeastOf
<1> QED BY <1>1 DEF NextRow

LEMMA DivBound ==
    ASSUME NEW a \in Nat, NEW b \in Nat \ {0}
    PROVE  a \div b \in Nat /\ a \div b <= a
  BY Z3

(* There are no more packs than objects.                                   *)
LEMMA PackNumber ==
    ASSUME NEW i \in Int, Pack(i) # {}
    PROVE  i <= ObjectCount
<1>1. PICK o \in Packable : Cardinality({p \in Packable : p < o}) \div PackRecords = i - 1
  BY DEF Pack
<1> DEFINE Before == {p \in Packable : p < o}
<1>2. IsFiniteSet(1 .. (o - 1)) /\ Cardinality(1 .. (o - 1)) = o - 1
  <2>1. o - 1 \in Nat
    BY CountAssumption DEF Packable, Objects
  <2> DEFINE k == o - 1
  <2>2. k \in Nat
    BY <2>1
  <2> HIDE DEF k
  <2>3. IsFiniteSet(1 .. k) /\ Cardinality(1 .. k) = k
    BY <2>2, FS_Interval
  <2> QED BY <2>3 DEF k
<1>3. Before \subseteq 1 .. (o - 1)
  BY CountAssumption DEF Packable, Objects
<1>4. IsFiniteSet(Before) /\ Cardinality(Before) <= o - 1
  BY <1>2, <1>3, FS_Subset
<1>5. Cardinality(Before) \in Nat
  BY <1>4, FS_CardinalityType
<1>6. i - 1 <= Cardinality(Before)
  BY <1>1, <1>5, PackAssumption, DivBound
<1>7. o <= ObjectCount /\ o \in Nat /\ ObjectCount \in Nat
  BY CountAssumption DEF Packable, Objects
<1> HIDE DEF Before
<1> QED BY <1>4, <1>5, <1>6, <1>7

LEMMA PackOf ==
    ASSUME NEW i, NEW o \in Pack(i)
    PROVE  o \in Objects /\ listed[o] # 0 /\ Chunks[o][listed[o]] = 1
  BY DEF Pack, Packable, Expected

LEMMA PackSame ==
    ASSUME UNCHANGED <<listed, cur>>
    PROVE  Pack(cur)' = Pack(cur)
  BY DEF Pack, Packable, Expected

-----------------------------------------------------------------------------
(* Types.                                                                  *)

ObjectSteps == {"head", "open", "send", "receipt", "compare", "hash", "final", "manifest",
                "check", "delete"}
PackSteps   == {"frame", "read", "store", "packreceipt", "packmanifest"}

(* A run works on an object of the inventory, and sends a version of it; or*)
(* on a pack that is not empty, of which it has sent some objects, and all *)
(* from its storing on.                                                    *)
RunTyped ==
    /\ pc \in ObjectSteps => listed[cur] # 0
    /\ pc \in {"head", "open"} => chunk \in 1 .. Expected(cur)
    /\ pc \in {"send", "receipt"} => body # 0
    /\ pc = "manifest" => final[cur] = listed[cur]
    /\ pc \in PackSteps => Pack(cur) # {}

SentTyped ==
    /\ sent \in [DOMAIN sent -> Versions \cup {Damaged}]
    /\ pc \notin PackSteps => sent = <<>>
    /\ pc \in PackSteps => DOMAIN sent \subseteq Pack(cur)
    /\ pc \in {"store", "packreceipt", "packmanifest"} => DOMAIN sent = Pack(cur)

TypeInv == TypeOK /\ RunTyped /\ SentTyped

LEMMA Sentinels ==
    /\ \A v \in Versions : v # None /\ v # Damaged /\ v # Torn /\ v # 0
    /\ None # 0 /\ Damaged # 0 /\ Torn # 0
    /\ None # Damaged /\ None # Torn /\ Damaged # Torn
  BY SentinelAssumption DEF Versions

LEMMA Listed ==
    ASSUME TypeOK, NEW o \in Objects, listed[o] # 0
    PROVE  listed[o] \in Versions /\ Expected(o) \in 1 .. MaxChunks /\ 1 .. Expected(o) \subseteq Places
<1>1. listed[o] \in Versions
  BY BoundsAssumption DEF TypeOK, Versions
<1> QED BY <1>1, ChunkCount DEF Expected

LEMMA InitTypes == Init => TypeInv
<1> SUFFICES ASSUME Init PROVE TypeInv
  OBVIOUS
<1>1. RunTyped /\ SentTyped
  BY DEF Init, RunTyped, SentTyped, ObjectSteps, PackSteps
<1>2. TypeOK
  BY CountAssumption, BoundsAssumption DEF Init, TypeOK, Versions, Empty, Running, PackContents, Lanes
<1> QED BY <1>1, <1>2 DEF TypeInv

(* Which steps touch which variables.                                      *)
LEMMA Frames ==
    ASSUME Next
    PROVE  /\ (\E o \in Objects : Write(o)) \/ Relist \/ Delete \/ UNCHANGED store
           /\ Relist \/ UNCHANGED listed
           /\ TearFinal \/ Relist \/ ReceiptChunk \/ WriteFinal \/ UNCHANGED local
           /\ Fault \/ StreamHead \/ StreamOpen \/ SendChunk \/ UploadManifest \/ UNCHANGED remote
           /\ \/ Fault \/ FrameHead \/ FrameRead \/ StorePack \/ UNCHANGED packs
           /\ TearPackReceipt \/ Relist \/ WritePackReceipt \/ UNCHANGED packReceipts
           /\ UploadPackManifest \/ UNCHANGED packManifests
  BY DEF Next, RunStep, PackStep, Write, Fault, TearFinal, TearPackReceipt, Start, Relist, BeginObject, StreamHead,
         StreamOpen, SendChunk, ReceiptChunk, Compare, HashSource, WriteFinal, UploadManifest, CheckUnchanged,
         Delete, BeginPack, FrameHead, FrameRead, StorePack, WritePackReceipt, UploadPackManifest, CutPack, store, local, remote, packed

StoreTyped == {source, written, listed} \subseteq [Objects -> 0 .. MaxVersion]
MacTyped   == mac \in [Objects -> [Places -> Versions \cup {None, Damaged}]]
LocalTyped == /\ receipts \in [Objects -> [Places -> Versions \cup {None, Damaged}]]
              /\ final \in [Objects -> Versions \cup {Torn, None}]
PacksTyped ==
    /\ DOMAIN packs = SUBSET Objects
    /\ \A P \in SUBSET Objects : packs[P] \in {None, Damaged} \/ packs[P] \in PackContents(P)
PackReceiptsTyped ==
    /\ DOMAIN packReceipts = SUBSET Objects
    /\ \A P \in SUBSET Objects :
       \/ packReceipts[P] \in {None, Torn}
       \/ packReceipts[P] \in [listed : [P -> Versions], content : PackContents(P)]

(* The current object or pack does not change when the run stays with it.  *)
LEMMA CurrentSame ==
    ASSUME UNCHANGED <<listed, cur>>
    PROVE  Pack(cur)' = Pack(cur) /\ Expected(cur)' = Expected(cur)
  BY PackSame DEF Expected

LEMMA CurrentObject ==
    ASSUME TypeInv
    PROVE  /\ pc \in ObjectSteps => /\ cur \in Objects /\ listed[cur] \in Versions
                                    /\ Expected(cur) \in 1 .. MaxChunks /\ 1 .. Expected(cur) \subseteq Places
           /\ pc \in PackSteps => cur \in Objects /\ Pack(cur) \in SUBSET Objects
<1>1. pc \in ObjectSteps \cup PackSteps => cur \in Objects
  BY DEF TypeInv, TypeOK, Running, ObjectSteps, PackSteps
<1>2. Pack(cur) \subseteq Objects
  BY DEF Pack, Packable
<1> QED BY <1>1, <1>2, Listed DEF TypeInv, RunTyped

LEMMA StoreTypes ==
    ASSUME TypeInv, Next
    PROVE  StoreTyped'
<1> USE DEF StoreTyped
<1>1. ASSUME NEW o \in Objects, Write(o) PROVE StoreTyped'
  BY <1>1, BoundsAssumption DEF Write, TypeInv, TypeOK
<1>2. CASE Relist
  BY <1>2 DEF Relist, TypeInv, TypeOK, store
<1>3. CASE Delete
  <2>1. 0 \in 0 .. MaxVersion
    BY BoundsAssumption
  <2>2. source \in [Objects -> 0 .. MaxVersion] /\ written \in [Objects -> 0 .. MaxVersion]
        /\ listed \in [Objects -> 0 .. MaxVersion]
    BY DEF TypeInv, TypeOK
  <2>3. source' = [source EXCEPT ![cur] = 0] /\ UNCHANGED <<written, listed>>
    BY <1>3 DEF Delete
  <2> QED BY <2>1, <2>2, <2>3
<1>4. CASE UNCHANGED <<store, listed>>
  BY <1>4 DEF TypeInv, TypeOK, store
<1> QED BY <1>1, <1>2, <1>3, <1>4, Frames

LEMMA MacTypes ==
    ASSUME TypeInv, Next
    PROVE  MacTyped' /\ (manifest \in [Objects -> Versions \cup {None}])'
<1> USE DEF MacTyped
<1>1. MacTyped /\ manifest \in [Objects -> Versions \cup {None}]
  BY DEF TypeInv, TypeOK
<1>2. CASE Fault \/ StreamHead \/ StreamOpen
  BY <1>1, <1>2 DEF Fault, StreamHead, StreamOpen, CutChunk, remote
<1>3. CASE SendChunk
  <2>1. body \in Versions
    BY <1>3, BoundsAssumption DEF SendChunk, TypeInv, TypeOK, RunTyped, Versions
  <2> QED BY <1>1, <1>3, <2>1 DEF SendChunk, CutChunk
<1>4. CASE UploadManifest
  <2>1. final[cur] \in Versions
    BY <1>4, CurrentObject DEF UploadManifest, TypeInv, RunTyped, ObjectSteps
  <2> QED BY <1>1, <1>4, <2>1 DEF UploadManifest
<1>5. CASE UNCHANGED remote
  BY <1>1, <1>5 DEF remote
<1> QED BY <1>2, <1>3, <1>4, <1>5, Frames

LEMMA LocalTypes ==
    ASSUME TypeInv, Next
    PROVE  LocalTyped'
<1> USE DEF LocalTyped
<1>1. LocalTyped
  BY DEF TypeInv, TypeOK
<1>2. CASE TearFinal
  BY <1>1, <1>2 DEF TearFinal
<1>3. CASE Relist
  BY <1>1, <1>3 DEF Relist, local, Empty
<1>4. CASE ReceiptChunk
  <2>1. cur \in Objects /\ chunk \in Places
    BY <1>4, CurrentObject DEF ReceiptChunk, TypeInv, TypeOK, ObjectSteps
  <2>2. mac[cur][chunk] \in Versions \cup {None, Damaged}
    BY <2>1 DEF TypeInv, TypeOK
  <2> QED BY <1>1, <1>4, <2>2 DEF ReceiptChunk
<1>5. CASE WriteFinal
  <2>1. listed[cur] \in Versions
    BY <1>5, CurrentObject DEF WriteFinal, ObjectSteps
  <2> QED BY <1>1, <1>5, <2>1 DEF WriteFinal
<1>6. CASE UNCHANGED local
  BY <1>1, <1>6 DEF local
<1> QED BY <1>2, <1>3, <1>4, <1>5, <1>6, Frames

LEMMA PacksTypes ==
    ASSUME TypeInv, Next
    PROVE  PacksTyped'
<1> USE DEF PacksTyped
<1>1. packs = packs /\ PacksTyped
  BY DEF TypeInv, TypeOK
<1>2. ASSUME packs' = [packs EXCEPT ![Pack(cur)] = Damaged] PROVE PacksTyped'
  BY <1>1, <1>2 DEF PackContents
<1>3. ASSUME packs' = [packs EXCEPT ![Pack(cur)] = sent], pc = "store" PROVE PacksTyped'
  <2>1. sent \in PackContents(Pack(cur))
    BY <1>3 DEF TypeInv, SentTyped, PackContents
  <2> QED BY <1>1, <1>3, <2>1 DEF PackContents
<1>4. CASE UNCHANGED packs
  BY <1>1, <1>4 DEF PackContents
<1> QED BY <1>2, <1>3, <1>4, Frames DEF Fault, FrameHead, FrameRead, StorePack, CutPack, packed

LEMMA PackReceiptsTypes ==
    ASSUME TypeInv, Next
    PROVE  PackReceiptsTyped'
<1> USE DEF PackReceiptsTyped
<1>1. PackReceiptsTyped
  BY DEF TypeInv, TypeOK
<1>2. CASE TearPackReceipt
  BY <1>1, <1>2 DEF TearPackReceipt, PackContents
<1>3. CASE Relist
  BY <1>1, <1>3 DEF Relist, PackContents
<1>4. CASE WritePackReceipt
  <2> DEFINE r == [listed |-> [o \in Pack(cur) |-> listed[o]], content |-> sent]
  <2>1. sent \in PackContents(Pack(cur))
    BY <1>4 DEF WritePackReceipt, TypeInv, SentTyped, PackContents, PackSteps
  <2>2. \A o \in Pack(cur) : listed[o] \in Versions
    BY PackOf, Listed DEF TypeInv
  <2>3. r \in [listed : [Pack(cur) -> Versions], content : PackContents(Pack(cur))]
    BY <2>1, <2>2
  <2>4. packReceipts' = [packReceipts EXCEPT ![Pack(cur)] = r]
    BY <1>4 DEF WritePackReceipt
  <2> HIDE DEF r
  <2> QED BY <1>1, <2>3, <2>4 DEF PackContents
<1>5. CASE UNCHANGED packReceipts
  BY <1>1, <1>5 DEF PackContents
<1> QED BY <1>2, <1>3, <1>4, <1>5, Frames

(* The place of the run, its stream and the counters.                      *)
PlaceTyped ==
    /\ lane \in Lanes
    /\ pc \in {"off", "done", "object", "pack"} \cup ObjectSteps \cup PackSteps
    /\ cur \in 1 .. (ObjectCount + 1)
    /\ Running /\ pc # "pack" => cur \in Objects

StreamTyped ==
    /\ {first, chunk} \subseteq Nat
    /\ pc \in {"send", "receipt"} => chunk \in 1 .. Expected(cur)
    /\ {head, body} \subseteq 0 .. MaxVersion
    /\ {writes, faults, damages, lists} \subseteq Nat

LEMMA PlaceTypes ==
    ASSUME TypeInv, Next
    PROVE  PlaceTyped'
<1> USE DEF PlaceTyped, ObjectSteps, PackSteps, Running, Lanes, Begin, Stop, stream, Objects
<1>a. PlaceTyped /\ ObjectCount \in Nat \ {0}
  BY CountAssumption DEF TypeInv, TypeOK
<1>b. Pack(cur) # {} /\ pc = "pack" => cur \in Objects
  BY <1>a, PackNumber
<1>1. ASSUME NEW o \in Objects, Write(o) PROVE PlaceTyped'
  BY <1>1, <1>a, <1>b DEF Write
<1>2. CASE Fault
  BY <1>2, <1>a, <1>b DEF Fault
<1>3. CASE TearFinal
  BY <1>3, <1>a, <1>b DEF TearFinal
<1>4. CASE TearPackReceipt
  BY <1>4, <1>a, <1>b DEF TearPackReceipt
<1>5. CASE Start
  BY <1>5, <1>a, <1>b DEF Start
<1>6. CASE Relist
  BY <1>6, <1>a, <1>b DEF Relist
<1>7. CASE BeginObject
  BY <1>7, <1>a, <1>b DEF BeginObject, NextObject
<1>8. CASE StreamHead
  BY <1>8, <1>a, <1>b DEF StreamHead
<1>9. CASE StreamOpen
  BY <1>9, <1>a, <1>b DEF StreamOpen
<1>10. CASE SendChunk
  BY <1>10, <1>a, <1>b DEF SendChunk
<1>11. CASE ReceiptChunk
  BY <1>11, <1>a, <1>b DEF ReceiptChunk
<1>12. CASE Compare
  BY <1>12, <1>a, <1>b DEF Compare
<1>13. CASE HashSource
  BY <1>13, <1>a, <1>b DEF HashSource
<1>14. CASE WriteFinal
  BY <1>14, <1>a, <1>b DEF WriteFinal
<1>15. CASE UploadManifest
  BY <1>15, <1>a, <1>b DEF UploadManifest
<1>16. CASE CheckUnchanged
  BY <1>16, <1>a, <1>b DEF CheckUnchanged
<1>17. CASE Delete
  BY <1>17, <1>a, <1>b DEF Delete, NextObject
<1>18. CASE BeginPack
  BY <1>18, <1>a, <1>b DEF BeginPack, NextPack
<1>19. CASE FrameHead
  BY <1>19, <1>a, <1>b DEF FrameHead
<1>20. CASE FrameRead
  BY <1>20, <1>a, <1>b DEF FrameRead
<1>21. CASE StorePack
  BY <1>21, <1>a, <1>b DEF StorePack
<1>22. CASE WritePackReceipt
  BY <1>22, <1>a, <1>b DEF WritePackReceipt
<1>23. CASE UploadPackManifest
  BY <1>23, <1>a, <1>b DEF UploadPackManifest, NextPack
<1> QED BY <1>1, <1>2, <1>3, <1>4, <1>5, <1>6, <1>7, <1>8, <1>9, <1>10, <1>11, <1>12, <1>13, <1>14, <1>15, <1>16, <1>17, <1>18, <1>19, <1>20, <1>21, <1>22, <1>23 DEF Next, RunStep, PackStep

LEMMA StreamTypes ==
    ASSUME TypeInv, Next
    PROVE  StreamTyped'
<1> USE DEF StreamTyped, Idle, Stop, stream, bounds, ObjectSteps, Begin
<1>a. StreamTyped /\ MaxVersion \in Nat /\ source \in [Objects -> 0 .. MaxVersion]
  BY BoundsAssumption DEF TypeInv, TypeOK
<1>b. pc \in {"head", "open"} => chunk \in 1 .. Expected(cur)
  BY DEF TypeInv, RunTyped
<1>c. pc \in ObjectSteps => cur \in Objects /\ Expected(cur) \in Nat
  BY CurrentObject
<1>d. UNCHANGED <<listed, cur>> => Expected(cur)' = Expected(cur)
  BY CurrentSame
<1>e. pc = "object" /\ listed[cur] # 0 => FirstMissing(cur) \in Nat
  BY FirstMissingIs, Listed DEF TypeInv, TypeOK, Running
<1>1. ASSUME NEW o \in Objects, Write(o) PROVE StreamTyped'
  BY <1>1, <1>a, <1>b, <1>c, <1>d, <1>e DEF Write
<1>2. CASE Fault
  BY <1>2, <1>a, <1>b, <1>c, <1>d, <1>e DEF Fault
<1>3. CASE TearFinal
  BY <1>3, <1>a, <1>b, <1>c, <1>d, <1>e DEF TearFinal
<1>4. CASE TearPackReceipt
  BY <1>4, <1>a, <1>b, <1>c, <1>d, <1>e DEF TearPackReceipt
<1>5. CASE Start
  BY <1>5, <1>a, <1>b, <1>c, <1>d, <1>e DEF Start
<1>6. CASE Relist
  BY <1>6, <1>a, <1>b, <1>c, <1>d, <1>e DEF Relist
<1>7. CASE BeginObject
  BY <1>7, <1>a, <1>b, <1>c, <1>d, <1>e DEF BeginObject, NextObject
<1>8. CASE StreamHead
  BY <1>8, <1>a, <1>b, <1>c, <1>d, <1>e DEF StreamHead
<1>9. CASE StreamOpen
  BY <1>9, <1>a, <1>b, <1>c, <1>d, <1>e DEF StreamOpen
<1>10. CASE SendChunk
  BY <1>10, <1>a, <1>b, <1>c, <1>d, <1>e DEF SendChunk
<1>11. CASE ReceiptChunk
  BY <1>11, <1>a, <1>b, <1>c, <1>d, <1>e DEF ReceiptChunk
<1>12. CASE Compare
  BY <1>12, <1>a, <1>b, <1>c, <1>d, <1>e DEF Compare
<1>13. CASE HashSource
  BY <1>13, <1>a, <1>b, <1>c, <1>d, <1>e DEF HashSource
<1>14. CASE WriteFinal
  BY <1>14, <1>a, <1>b, <1>c, <1>d, <1>e DEF WriteFinal
<1>15. CASE UploadManifest
  BY <1>15, <1>a, <1>b, <1>c, <1>d, <1>e DEF UploadManifest
<1>16. CASE CheckUnchanged
  BY <1>16, <1>a, <1>b, <1>c, <1>d, <1>e DEF CheckUnchanged
<1>17. CASE Delete
  BY <1>17, <1>a, <1>b, <1>c, <1>d, <1>e DEF Delete, NextObject
<1>18. CASE BeginPack
  BY <1>18, <1>a, <1>b, <1>c, <1>d, <1>e DEF BeginPack, NextPack
<1>19. CASE FrameHead
  BY <1>19, <1>a, <1>b, <1>c, <1>d, <1>e DEF FrameHead
<1>20. CASE FrameRead
  BY <1>20, <1>a, <1>b, <1>c, <1>d, <1>e DEF FrameRead
<1>21. CASE StorePack
  BY <1>21, <1>a, <1>b, <1>c, <1>d, <1>e DEF StorePack
<1>22. CASE WritePackReceipt
  BY <1>22, <1>a, <1>b, <1>c, <1>d, <1>e DEF WritePackReceipt
<1>23. CASE UploadPackManifest
  BY <1>23, <1>a, <1>b, <1>c, <1>d, <1>e DEF UploadPackManifest, NextPack
<1> QED BY <1>1, <1>2, <1>3, <1>4, <1>5, <1>6, <1>7, <1>8, <1>9, <1>10, <1>11, <1>12, <1>13, <1>14, <1>15, <1>16, <1>17, <1>18, <1>19, <1>20, <1>21, <1>22, <1>23 DEF Next, RunStep, PackStep

LEMMA RunTypes ==
    ASSUME TypeInv, Next
    PROVE  RunTyped'
<1> USE DEF RunTyped, ObjectSteps, PackSteps, Idle, Stop, Begin, stream, store, local
<1>a. RunTyped /\ source \in [Objects -> 0 .. MaxVersion]
  BY DEF TypeInv, TypeOK
<1>c. pc \in ObjectSteps => cur \in Objects
  BY CurrentObject
<1>d. UNCHANGED <<listed, cur>> => Pack(cur)' = Pack(cur) /\ Expected(cur)' = Expected(cur)
  BY CurrentSame
<1>e. pc = "object" /\ listed[cur] # 0 =>
         FirstMissing(cur) \in 1 .. (Expected(cur) + 1) /\ Expected(cur) \in Nat
  BY FirstMissingIs, Listed DEF TypeInv, TypeOK, Running
<1>f. final \in [Objects -> Versions \cup {None, Torn}]
  BY DEF TypeInv, TypeOK
<1>1. ASSUME NEW o \in Objects, Write(o) PROVE RunTyped'
  BY <1>1, <1>a, <1>c, <1>d, <1>e, <1>f DEF Write
<1>2. CASE Fault
  BY <1>2, <1>a, <1>c, <1>d, <1>e, <1>f DEF Fault
<1>3. CASE TearFinal
  BY <1>3, <1>a, <1>c, <1>d, <1>e, <1>f DEF TearFinal
<1>4. CASE TearPackReceipt
  BY <1>4, <1>a, <1>c, <1>d, <1>e, <1>f DEF TearPackReceipt
<1>5. CASE Start
  BY <1>5, <1>a, <1>c, <1>d, <1>e, <1>f DEF Start
<1>6. CASE Relist
  BY <1>6, <1>a, <1>c, <1>d, <1>e, <1>f DEF Relist
<1>7. CASE BeginObject
  BY <1>7, <1>a, <1>c, <1>d, <1>e, <1>f DEF BeginObject, NextObject
<1>8. CASE StreamHead
  BY <1>8, <1>a, <1>c, <1>d, <1>e, <1>f DEF StreamHead
<1>9. CASE StreamOpen
  BY <1>9, <1>a, <1>c, <1>d, <1>e, <1>f DEF StreamOpen
<1>10. CASE SendChunk
  BY <1>10, <1>a, <1>c, <1>d, <1>e, <1>f DEF SendChunk
<1>11. CASE ReceiptChunk
  BY <1>11, <1>a, <1>c, <1>d, <1>e, <1>f DEF ReceiptChunk
<1>12. CASE Compare
  BY <1>12, <1>a, <1>c, <1>d, <1>e, <1>f DEF Compare
<1>13. CASE HashSource
  BY <1>13, <1>a, <1>c, <1>d, <1>e, <1>f DEF HashSource
<1>14. CASE WriteFinal
  BY <1>14, <1>a, <1>c, <1>d, <1>e, <1>f DEF WriteFinal
<1>15. CASE UploadManifest
  BY <1>15, <1>a, <1>c, <1>d, <1>e, <1>f DEF UploadManifest
<1>16. CASE CheckUnchanged
  BY <1>16, <1>a, <1>c, <1>d, <1>e, <1>f DEF CheckUnchanged
<1>17. CASE Delete
  BY <1>17, <1>a, <1>c, <1>d, <1>e, <1>f DEF Delete, NextObject
<1>18. CASE BeginPack
  BY <1>18, <1>a, <1>c, <1>d, <1>e, <1>f DEF BeginPack, NextPack
<1>19. CASE FrameHead
  BY <1>19, <1>a, <1>c, <1>d, <1>e, <1>f DEF FrameHead
<1>20. CASE FrameRead
  BY <1>20, <1>a, <1>c, <1>d, <1>e, <1>f DEF FrameRead
<1>21. CASE StorePack
  BY <1>21, <1>a, <1>c, <1>d, <1>e, <1>f DEF StorePack
<1>22. CASE WritePackReceipt
  BY <1>22, <1>a, <1>c, <1>d, <1>e, <1>f DEF WritePackReceipt
<1>23. CASE UploadPackManifest
  BY <1>23, <1>a, <1>c, <1>d, <1>e, <1>f DEF UploadPackManifest, NextPack
<1> QED BY <1>1, <1>2, <1>3, <1>4, <1>5, <1>6, <1>7, <1>8, <1>9, <1>10, <1>11, <1>12, <1>13, <1>14, <1>15, <1>16, <1>17, <1>18, <1>19, <1>20, <1>21, <1>22, <1>23 DEF Next, RunStep, PackStep

LEMMA SentTypes ==
    ASSUME TypeInv, Next
    PROVE  SentTyped'
<1> USE DEF SentTyped, PackSteps, Idle, Stop, Begin, stream
<1>a. SentTyped
  BY DEF TypeInv
<1>b. <<>> \in [DOMAIN <<>> -> Versions \cup {Damaged}] /\ DOMAIN <<>> = {}
  OBVIOUS
<1>c. pc \in {"frame", "read"} => NextRow \in Pack(cur) /\ Pack(cur) \subseteq Objects
  BY NextRowIs, CurrentObject DEF TypeInv, TypeOK, Unsent, Objects
<1>d. UNCHANGED <<listed, cur>> => Pack(cur)' = Pack(cur)
  BY CurrentSame
<1>1. ASSUME NEW o \in Objects, Write(o) PROVE SentTyped'
  BY <1>1, <1>a, <1>b, <1>d DEF Write
<1>2. CASE Fault
  BY <1>2, <1>a, <1>b, <1>d DEF Fault
<1>3. CASE TearFinal
  BY <1>3, <1>a, <1>b, <1>d DEF TearFinal
<1>4. CASE TearPackReceipt
  BY <1>4, <1>a, <1>b, <1>d DEF TearPackReceipt
<1>5. CASE Start
  BY <1>5, <1>a, <1>b, <1>d DEF Start
<1>6. CASE Relist
  BY <1>6, <1>a, <1>b, <1>d DEF Relist
<1>7. CASE BeginObject
  BY <1>7, <1>a, <1>b, <1>d DEF BeginObject, NextObject
<1>8. CASE StreamHead
  BY <1>8, <1>a, <1>b, <1>d DEF StreamHead
<1>9. CASE StreamOpen
  BY <1>9, <1>a, <1>b, <1>d DEF StreamOpen
<1>10. CASE SendChunk
  BY <1>10, <1>a, <1>b, <1>d DEF SendChunk
<1>11. CASE ReceiptChunk
  BY <1>11, <1>a, <1>b, <1>d DEF ReceiptChunk
<1>12. CASE Compare
  BY <1>12, <1>a, <1>b, <1>d DEF Compare
<1>13. CASE HashSource
  BY <1>13, <1>a, <1>b, <1>d DEF HashSource
<1>14. CASE WriteFinal
  BY <1>14, <1>a, <1>b, <1>d DEF WriteFinal
<1>15. CASE UploadManifest
  BY <1>15, <1>a, <1>b, <1>d DEF UploadManifest
<1>16. CASE CheckUnchanged
  BY <1>16, <1>a, <1>b, <1>d DEF CheckUnchanged
<1>17. CASE Delete
  BY <1>17, <1>a, <1>b, <1>d DEF Delete, NextObject
<1>18. CASE BeginPack
  BY <1>18, <1>a, <1>b, <1>d DEF BeginPack, NextPack
<1>19. CASE FrameHead
  BY <1>19, <1>a, <1>b, <1>d DEF FrameHead
<1>20. CASE FrameRead
  <2>1. CASE source[NextRow] = 0
    BY <1>20, <1>b, <2>1 DEF FrameRead
  <2>2. CASE source[NextRow] # 0
    <3> DEFINE value(o) == IF o # NextRow THEN sent[o]
                           ELSE IF Chunks[o][source[o]] = 1 THEN source[o] ELSE Damaged
    <3>1. NextRow \in Pack(cur) /\ NextRow \in Objects /\ DOMAIN sent \subseteq Pack(cur)
      BY <1>20, <1>a, <1>c DEF FrameRead
    <3>2. source[NextRow] \in Versions
      BY <2>2, <3>1, BoundsAssumption DEF TypeInv, TypeOK, Versions
    <3>3. \A o \in DOMAIN sent \cup {NextRow} : value(o) \in Versions \cup {Damaged}
      BY <1>a, <3>2
    <3>4. sent' = [o \in DOMAIN sent \cup {NextRow} |-> value(o)] /\ UNCHANGED <<cur, listed>>
      BY <1>20, <2>2 DEF FrameRead
    <3>5. pc' = (IF Pack(cur) \ DOMAIN sent = {NextRow} THEN "store" ELSE "frame")
      BY <1>20, <2>2 DEF FrameRead, Unsent
    <3> HIDE DEF value
    <3> QED BY <1>d, <3>1, <3>3, <3>4, <3>5
  <2> QED BY <2>1, <2>2
<1>21. CASE StorePack
  BY <1>21, <1>a, <1>b, <1>d DEF StorePack
<1>22. CASE WritePackReceipt
  BY <1>22, <1>a, <1>b, <1>d DEF WritePackReceipt
<1>23. CASE UploadPackManifest
  BY <1>23, <1>a, <1>b, <1>d DEF UploadPackManifest, NextPack
<1> QED BY <1>1, <1>2, <1>3, <1>4, <1>5, <1>6, <1>7, <1>8, <1>9, <1>10, <1>11, <1>12, <1>13, <1>14, <1>15, <1>16, <1>17, <1>18, <1>19, <1>20, <1>21, <1>22, <1>23 DEF Next, RunStep, PackStep

LEMMA RestTypes ==
    ASSUME TypeInv, Next
    PROVE  /\ (packManifests \subseteq SUBSET Objects)'
           /\ (pc \in {"frame", "read"} => Pack(cur) \ DOMAIN sent # {})'
<1> USE DEF PackSteps, Idle, Stop, stream
<1>1. (packManifests \subseteq SUBSET Objects)'
  <2>1. CASE UploadPackManifest
    BY <2>1, CurrentObject DEF UploadPackManifest, TypeInv, TypeOK
  <2> QED BY <2>1, Frames DEF TypeInv, TypeOK
<1> DEFINE Left == Pack(cur) \ DOMAIN sent
<1>2. pc' \in {"frame", "read"} => Left' # {}
  <2>1. UNCHANGED <<listed, cur>> => Pack(cur)' = Pack(cur)
    BY CurrentSame
  <2>2. pc \in {"frame", "read"} => Left # {} /\ NextRow \in Left
    <3>1. pc \in {"frame", "read"} => Unsent # {} /\ Unsent \subseteq Nat
      BY CurrentObject DEF TypeInv, TypeOK, Unsent, Objects
    <3> QED BY <3>1, NextRowIs DEF Unsent
  <2>3. CASE BeginPack
    <3>1. pc = "pack" /\ sent = <<>>
      BY <2>3 DEF BeginPack, TypeInv, SentTyped
    <3> QED BY <2>1, <2>3, <3>1 DEF BeginPack, NextPack
  <2>4. CASE FrameHead
    BY <2>1, <2>2, <2>4 DEF FrameHead
  <2>5. CASE FrameRead
    <3>1. CASE source[NextRow] = 0
      BY <2>5, <3>1 DEF FrameRead
    <3>2. CASE source[NextRow] # 0
      <4>1. DOMAIN sent' = DOMAIN sent \cup {NextRow} /\ UNCHANGED <<cur, listed>>
        BY <2>5, <3>2 DEF FrameRead
      <4>2. pc' = (IF Left = {NextRow} THEN "store" ELSE "frame")
        BY <2>5, <3>2 DEF FrameRead, Unsent
      <4> QED BY <2>1, <2>2, <2>5, <4>1, <4>2 DEF FrameRead
    <3> QED BY <3>1, <3>2
  <2>6. CASE UNCHANGED <<pc, cur, listed, sent>>
    BY <2>1, <2>2, <2>6
  <2>7. CASE pc' \notin {"frame", "read"}
    BY <2>7
  <2>8. \/ BeginPack \/ FrameHead \/ FrameRead \/ UNCHANGED <<pc, cur, listed, sent>>
        \/ pc' \notin {"frame", "read"}
    BY DEF Next, RunStep, PackStep, Write, Fault, TearFinal, TearPackReceipt, Start, Relist, BeginObject, StreamHead,
           StreamOpen, SendChunk, ReceiptChunk, Compare, HashSource, WriteFinal, UploadManifest, CheckUnchanged,
           Delete, BeginPack, FrameHead, FrameRead, StorePack, WritePackReceipt, UploadPackManifest, Begin, NextObject, NextPack
  <2> QED BY <2>3, <2>4, <2>5, <2>6, <2>7, <2>8
<1> QED BY <1>1, <1>2

(* No step takes a variable out of its type.                               *)
LEMMA StepTypes ==
    ASSUME TypeInv, [Next]_vars
    PROVE  TypeInv'
<1>1. CASE Next
  <2>1. /\ StoreTyped' /\ MacTyped' /\ (manifest \in [Objects -> Versions \cup {None}])' /\ LocalTyped'
        /\ PacksTyped' /\ PackReceiptsTyped' /\ PlaceTyped' /\ StreamTyped' /\ RunTyped' /\ SentTyped'
    BY <1>1, StoreTypes, MacTypes, LocalTypes, PacksTypes, PackReceiptsTypes, PlaceTypes, StreamTypes,
       RunTypes, SentTypes
  <2>2. TypeOK'
    BY <1>1, <2>1, RestTypes DEF StoreTyped, MacTyped, LocalTyped, PacksTyped, PackReceiptsTyped,
       PlaceTyped, StreamTyped, TypeOK, ObjectSteps, PackSteps, Unsent
  <2> QED BY <2>1, <2>2 DEF TypeInv
<1>2. CASE UNCHANGED vars
  <2> USE <1>2 DEF vars, store, local, remote, packed, stream, bounds
  <2>1. Pack(cur)' = Pack(cur) /\ Expected(cur)' = Expected(cur)
    BY CurrentSame
  <2>2. RunTyped'
    BY <2>1 DEF TypeInv, RunTyped
  <2>3. SentTyped'
    BY <2>1 DEF TypeInv, SentTyped
  <2>4. TypeOK'
    BY <2>1 DEF TypeInv, TypeOK, Running, Unsent, PackContents
  <2> QED BY <2>2, <2>3, <2>4 DEF TypeInv
<1> QED BY <1>1, <1>2

(* Every variable of the relay keeps its kind (IcloudRelay).               *)
THEOREM RelayTypes == Spec => []TypeOK
<1>1. TypeInv => TypeOK
  BY DEF TypeInv
<1> QED BY InitTypes, StepTypes, <1>1, PTL DEF Spec

-----------------------------------------------------------------------------
(* Packs.  The object in the store is the newest version, if it is there;  *)
(* an inventory is never ahead of it.                                      *)
StoreInv ==
    \A o \in Objects : /\ source[o] \in {0, written[o]} /\ written[o] >= 1
                       /\ listed[o] <= written[o]

(* A pack that is streamed has no receipt yet, so a receipted pack is left *)
(* alone; what has been sent of an object is the version listed, or that   *)
(* has been overwritten.                                                   *)
PackInv ==
    /\ pc \in {"frame", "read", "store", "packreceipt"} => packReceipts[Pack(cur)] = None
    /\ pc \in PackSteps => \A o \in DOMAIN sent : sent[o] = listed[o] \/ written[o] > listed[o]
    /\ pc = "packreceipt" => packs[Pack(cur)] = sent
    /\ ReceiptedPackArrived

(* Objects.  Receipts of chunks have no gaps; each binds what the Mac has, *)
(* which is of the version listed, or that has been overwritten.           *)
ChunkInv ==
    \A o \in Objects, c \in Places : receipts[o][c] # None =>
        /\ \A b \in 1 .. c : receipts[o][b] # None
        /\ mac[o][c] = receipts[o][c]
        /\ receipts[o][c] = listed[o] \/ written[o] > listed[o]

(* An object's receipt is for the inventory at hand, and each of its chunks*)
(* is receipted as of that version.                                        *)
FinalInv ==
    \A o \in Objects : final[o] \in Versions =>
        final[o] = listed[o] /\ \A c \in 1 .. Expected(o) : receipts[o][c] = listed[o]

(* The run has a receipt for every chunk it does not still have to send,   *)
(* and works on no object that has its own.                                *)
SendInv ==
    /\ pc \in {"head", "open", "send", "receipt", "compare", "hash", "final"} => final[cur] \notin Versions
    /\ pc \in {"head", "open", "send", "receipt"} =>
          receipts[cur][chunk] = None /\ \A c \in 1 .. (chunk - 1) : receipts[cur][c] # None
    /\ pc \in {"send", "receipt"} => body = listed[cur] \/ written[cur] > listed[cur]
    /\ pc = "receipt" => mac[cur][chunk] = body
    /\ pc \in {"compare", "hash"} => \A c \in 1 .. Expected(cur) : receipts[cur][c] # None
    /\ pc = "final" => \A c \in 1 .. Expected(cur) : receipts[cur][c] = listed[cur]

ObjectInv == ~KeepWorkRoot /\ MaxDamage = 0 /\ ChunkInv /\ FinalInv /\ SendInv

(* An object that is gone from the store was receipted under the inventory *)
(* at hand, or before it; the Mac has its newest version.                  *)
GoneInv ==
    \A o \in Objects : source[o] = 0 =>
        /\ listed[o] = 0 \/ (listed[o] = written[o] /\ final[o] = listed[o])
        /\ manifest[o] = written[o]
        /\ \A c \in 1 .. Chunks[o][written[o]] : mac[o][c] = written[o]

DeleteInv ==
    /\ QuietDelete
    /\ pc \in {"manifest", "check", "delete"} => final[cur] = listed[cur]
    /\ pc \in {"check", "delete"} => manifest[cur] = listed[cur]
    /\ pc = "delete" => source[cur] = listed[cur]
    /\ GoneInv

LEMMA StoreStep ==
    ASSUME TypeInv, StoreInv, [Next]_vars
    PROVE  StoreInv' /\ \A o \in Objects : written'[o] >= written[o]
<1> USE DEF StoreInv
<1>0. /\ source \in [Objects -> 0 .. MaxVersion] /\ written \in [Objects -> 0 .. MaxVersion]
      /\ listed \in [Objects -> 0 .. MaxVersion] /\ MaxVersion \in Nat
  BY BoundsAssumption DEF TypeInv, TypeOK
<1>1. ASSUME NEW o \in Objects, Write(o) PROVE StoreInv' /\ \A p \in Objects : written'[p] >= written[p]
  <2>1. /\ written' = [written EXCEPT ![o] = @ + 1]
        /\ source' = [source EXCEPT ![o] = written[o] + 1] /\ UNCHANGED listed
    BY <1>0, <1>1 DEF Write
  <2> QED BY <1>0, <2>1
<1>2. CASE Relist
  BY <1>0, <1>2 DEF Relist, store
<1>3. CASE Delete
  <2>1. source' = [source EXCEPT ![cur] = 0] /\ UNCHANGED <<written, listed>>
    BY <1>3 DEF Delete
  <2> QED BY <1>0, <2>1
<1>4. CASE UNCHANGED <<store, listed>>
  BY <1>0, <1>4 DEF store
<1>5. Next => (\E o \in Objects : Write(o)) \/ Relist \/ Delete \/ UNCHANGED <<store, listed>>
  BY Frames
<1> QED BY <1>1, <1>2, <1>3, <1>4, <1>5 DEF vars

(* The packs on the Mac and what was sent, as the steps leave them.        *)
LEMMA PackStays ==
    ASSUME TypeInv, StoreInv, PackInv, Next
    PROVE  ReceiptedPackArrived'
<1> DEFINE Arrived(P, r, content, w) ==
              /\ content = r.content
              /\ \A o \in P : content[o] = r.listed[o] \/ w[o] > r.listed[o]
           Kept(P) == packReceipts'[P] = packReceipts[P] /\ packs'[P] = packs[P]
<1>1. \A P \in SUBSET Objects : packReceipts[P] \notin {None, Torn} =>
          Arrived(P, packReceipts[P], packs[P], written)
  BY DEF PackInv, ReceiptedPackArrived
<1>2. ASSUME NEW P \in SUBSET Objects, packReceipts[P] \notin {None, Torn}
      PROVE  packReceipts[P] \in [listed : [P -> Versions], content : PackContents(P)]
  BY <1>2 DEF TypeInv, TypeOK
<1>3. /\ written \in [Objects -> Nat] /\ written' \in [Objects -> Nat]
      /\ \A o \in Objects : written'[o] >= written[o]
  <2>1. StoreTyped'
    BY StoreTypes
  <2> QED BY <2>1, StoreStep, BoundsAssumption DEF StoreTyped, TypeInv, TypeOK
<1>4. ASSUME NEW P \in SUBSET Objects, packReceipts'[P] \notin {None, Torn}, Kept(P)
      PROVE  Arrived(P, packReceipts'[P], packs'[P], written')
  BY <1>1, <1>2, <1>3, <1>4 DEF Versions
<1>5. ASSUME NEW P \in SUBSET Objects, packReceipts'[P] \notin {None, Torn}, ~Kept(P)
      PROVE  Arrived(P, packReceipts'[P], packs'[P], written')
  <2>1. DOMAIN packs = SUBSET Objects /\ DOMAIN packReceipts = SUBSET Objects
    BY DEF TypeInv, TypeOK
  <2>2. CASE WritePackReceipt
    <3>1. /\ packReceipts' = [packReceipts EXCEPT ![Pack(cur)] =
                                [listed |-> [o \in Pack(cur) |-> listed[o]], content |-> sent]]
          /\ UNCHANGED packs /\ pc = "packreceipt"
      BY <2>2 DEF WritePackReceipt
    <3>2. P = Pack(cur)
      BY <1>5, <2>1, <3>1
    <3>3. packReceipts'[P].content = sent /\ \A o \in P : packReceipts'[P].listed[o] = listed[o]
      BY <2>1, <3>1, <3>2
    <3>4. packs'[P] = sent /\ DOMAIN sent = P
      BY <3>1, <3>2 DEF PackInv, TypeInv, SentTyped
    <3>5. \A o \in P : sent[o] = listed[o] \/ written'[o] > listed[o]
      BY <1>3, <3>1, <3>4, BoundsAssumption DEF PackInv, TypeInv, TypeOK, PackSteps
    <3> QED BY <3>3, <3>4, <3>5
  <2>3. CASE TearPackReceipt
    BY <1>5, <2>1, <2>3 DEF TearPackReceipt
  <2>4. CASE Relist
    BY <1>5, <2>1, <2>4 DEF Relist
  <2>5. CASE UNCHANGED packReceipts
    <3>1. packReceipts[Pack(cur)] = None /\ \A Q \in SUBSET Objects : Q # Pack(cur) => packs'[Q] = packs[Q]
      <4>1. CASE Fault
        BY <1>5, <2>1, <2>5, <4>1 DEF Fault, CutPack, PackInv, packed
      <4>2. CASE FrameHead
        BY <1>5, <2>1, <2>5, <4>2 DEF FrameHead, CutPack, PackInv, packed
      <4>3. CASE FrameRead
        BY <1>5, <2>1, <2>5, <4>3 DEF FrameRead, CutPack, PackInv, packed
      <4>4. CASE StorePack
        BY <1>5, <2>1, <2>5, <4>4 DEF StorePack, CutPack, PackInv, packed
      <4> QED BY <1>5, <2>5, <4>1, <4>2, <4>3, <4>4, Frames
    <3> QED BY <1>5, <2>5, <3>1
  <2> QED BY <2>2, <2>3, <2>4, <2>5, Frames
<1> QED BY <1>4, <1>5 DEF ReceiptedPackArrived

LEMMA PackStreams ==
    ASSUME TypeInv, StoreInv, PackInv, Next
    PROVE  /\ (pc \in {"frame", "read", "store", "packreceipt"} => packReceipts[Pack(cur)] = None)'
           /\ (pc \in PackSteps => \A o \in DOMAIN sent : sent[o] = listed[o] \/ written[o] > listed[o])'
           /\ (pc = "packreceipt" => packs[Pack(cur)] = sent)'
<1> DEFINE Goal == /\ pc \in {"frame", "read", "store", "packreceipt"} => packReceipts[Pack(cur)] = None
                   /\ pc \in PackSteps => \A o \in DOMAIN sent : sent[o] = listed[o] \/ written[o] > listed[o]
                   /\ pc = "packreceipt" => packs[Pack(cur)] = sent
<1> USE DEF PackSteps, Idle, Stop, Begin, stream, store, packed
<1>a. Goal
  BY DEF PackInv
<1>b. UNCHANGED <<listed, cur>> => Pack(cur)' = Pack(cur)
  BY CurrentSame
<1>c. /\ written \in [Objects -> Nat] /\ written' \in [Objects -> Nat] /\ listed \in [Objects -> Nat]
      /\ \A o \in Objects : written'[o] >= written[o]
  <2>1. StoreTyped'
    BY StoreTypes
  <2> QED BY <2>1, StoreStep, BoundsAssumption DEF StoreTyped, TypeInv, TypeOK
<1>d. DOMAIN packs = SUBSET Objects /\ (pc \in PackSteps => Pack(cur) \in SUBSET Objects)
  BY CurrentObject DEF TypeInv, TypeOK
<1>e. /\ pc \notin PackSteps => sent = <<>>
      /\ pc \in PackSteps => \A o \in DOMAIN sent : o \in Objects
  BY <1>d DEF TypeInv, SentTyped
<1>1. ASSUME NEW o \in Objects, Write(o) PROVE Goal'
  BY <1>1, <1>a, <1>b, <1>c, <1>d, <1>e DEF Write
<1>2. CASE Fault
  BY <1>2, <1>a, <1>b, <1>c, <1>d, <1>e DEF Fault
<1>3. CASE TearFinal
  BY <1>3, <1>a, <1>b, <1>c, <1>d, <1>e DEF TearFinal
<1>4. CASE TearPackReceipt
  BY <1>4, <1>a, <1>b, <1>c, <1>d, <1>e DEF TearPackReceipt
<1>5. CASE Start
  BY <1>5, <1>a, <1>b, <1>c, <1>d, <1>e DEF Start
<1>6. CASE Relist
  BY <1>6, <1>a, <1>b, <1>c, <1>d, <1>e DEF Relist
<1>7. CASE BeginObject
  BY <1>7, <1>a, <1>b, <1>c, <1>d, <1>e DEF BeginObject, NextObject
<1>8. CASE StreamHead
  BY <1>8, <1>a, <1>b, <1>c, <1>d, <1>e DEF StreamHead
<1>9. CASE StreamOpen
  BY <1>9, <1>a, <1>b, <1>c, <1>d, <1>e DEF StreamOpen
<1>10. CASE SendChunk
  BY <1>10, <1>a, <1>b, <1>c, <1>d, <1>e DEF SendChunk
<1>11. CASE ReceiptChunk
  BY <1>11, <1>a, <1>b, <1>c, <1>d, <1>e DEF ReceiptChunk
<1>12. CASE Compare
  BY <1>12, <1>a, <1>b, <1>c, <1>d, <1>e DEF Compare
<1>13. CASE HashSource
  BY <1>13, <1>a, <1>b, <1>c, <1>d, <1>e DEF HashSource
<1>14. CASE WriteFinal
  BY <1>14, <1>a, <1>b, <1>c, <1>d, <1>e DEF WriteFinal
<1>15. CASE UploadManifest
  BY <1>15, <1>a, <1>b, <1>c, <1>d, <1>e DEF UploadManifest
<1>16. CASE CheckUnchanged
  BY <1>16, <1>a, <1>b, <1>c, <1>d, <1>e DEF CheckUnchanged
<1>17. CASE Delete
  BY <1>17, <1>a, <1>b, <1>c, <1>d, <1>e DEF Delete, NextObject
<1>18. CASE BeginPack
  BY <1>18, <1>a, <1>b, <1>c, <1>d, <1>e DEF BeginPack, NextPack
<1>19. CASE FrameHead
  BY <1>19, <1>a, <1>b, <1>c, <1>d, <1>e DEF FrameHead
<1>20. CASE FrameRead
  <2>1. CASE source[NextRow] = 0
    BY <1>20, <2>1 DEF FrameRead
  <2>2. CASE source[NextRow] # 0
    <3>1. NextRow \in Pack(cur)
      BY <1>20, <1>d, NextRowIs DEF FrameRead, TypeInv, TypeOK, Unsent, Objects
    <3>2. source[NextRow] = written[NextRow] /\ listed[NextRow] <= written[NextRow]
          /\ Chunks[NextRow][listed[NextRow]] = 1 /\ NextRow \in Objects
      BY <2>2, <3>1, PackOf DEF StoreInv
    <3>3. DOMAIN sent' = DOMAIN sent \cup {NextRow} /\ UNCHANGED <<cur, listed, packReceipts, written>>
          /\ pc' \in {"store", "frame"}
      BY <1>20, <2>2 DEF FrameRead
    <3>4. \A o \in DOMAIN sent : o # NextRow => sent'[o] = sent[o]
      BY <1>20, <2>2 DEF FrameRead
    <3>5. Chunks[NextRow][source[NextRow]] = 1 => sent'[NextRow] = source[NextRow]
      BY <1>20, <2>2 DEF FrameRead
    <3>6. sent'[NextRow] = listed[NextRow] \/ written[NextRow] > listed[NextRow]
      BY <1>c, <3>2, <3>5
    <3>7. pc = "read"
      BY <1>20 DEF FrameRead
    <3> QED BY <1>a, <1>b, <1>c, <3>3, <3>4, <3>6, <3>7
  <2> QED BY <2>1, <2>2
<1>21. CASE StorePack
  BY <1>21, <1>a, <1>b, <1>c, <1>d, <1>e DEF StorePack
<1>22. CASE WritePackReceipt
  BY <1>22, <1>a, <1>b, <1>c, <1>d, <1>e DEF WritePackReceipt
<1>23. CASE UploadPackManifest
  BY <1>23, <1>a, <1>b, <1>c, <1>d, <1>e DEF UploadPackManifest, NextPack
<1> QED BY <1>1, <1>2, <1>3, <1>4, <1>5, <1>6, <1>7, <1>8, <1>9, <1>10, <1>11, <1>12, <1>13, <1>14, <1>15, <1>16, <1>17, <1>18, <1>19, <1>20, <1>21, <1>22, <1>23 DEF Next, RunStep, PackStep

LEMMA PackUnchanged ==
    ASSUME PackInv, UNCHANGED vars
    PROVE  PackInv'
<1> USE DEF vars, store, local, remote, packed, stream, bounds
<1>1. Pack(cur)' = Pack(cur)
  BY CurrentSame
<1> QED BY <1>1 DEF PackInv, ReceiptedPackArrived

(* What the receipt of a pack binds is on the Mac, whichever runs failed,  *)
(* whatever was overwritten, and also when a new inventory is migrated in  *)
(* the old work root (migrate_small_pack).                                 *)
THEOREM PacksArrive == Spec => []ReceiptedPackArrived
<1> DEFINE I == TypeInv /\ StoreInv /\ PackInv
<1>1. Init => I
  <2> SUFFICES ASSUME Init PROVE I
    OBVIOUS
  <2>1. StoreInv /\ PackInv
    BY BoundsAssumption DEF Init, StoreInv, PackInv, ReceiptedPackArrived, PackSteps
  <2> QED BY <2>1, InitTypes
<1>2. I /\ [Next]_vars => I'
  <2> SUFFICES ASSUME I, [Next]_vars PROVE I'
    OBVIOUS
  <2>1. TypeInv' /\ StoreInv'
    BY StepTypes, StoreStep
  <2>2. CASE Next
    BY <2>1, <2>2, PackStays, PackStreams DEF PackInv
  <2>3. CASE UNCHANGED vars
    BY <2>1, <2>3, PackUnchanged
  <2> QED BY <2>2, <2>3
<1>3. I => ReceiptedPackArrived
  BY DEF PackInv
<1> QED BY <1>1, <1>2, <1>3, PTL DEF Spec

-----------------------------------------------------------------------------
(* Objects.                                                                *)

(* What the proofs about objects use of the types.                         *)
LEMMA ObjectFacts ==
    ASSUME TypeInv, StoreInv, [Next]_vars
    PROVE  /\ source \in [Objects -> Nat] /\ written \in [Objects -> Nat] /\ listed \in [Objects -> Nat]
           /\ written' \in [Objects -> Nat] /\ \A o \in Objects : written'[o] >= written[o]
           /\ DOMAIN receipts = Objects /\ \A o \in Objects : DOMAIN receipts[o] = Places
           /\ DOMAIN mac = Objects /\ \A o \in Objects : DOMAIN mac[o] = Places
           /\ \A o \in Objects, c \in Places : {receipts[o][c], mac[o][c]} \subseteq Versions \cup {None, Damaged}
           /\ DOMAIN final = Objects /\ DOMAIN manifest = Objects
           /\ \A v \in 0 .. MaxVersion : v \in Nat
           /\ Versions = (0 .. MaxVersion) \ {0}
           /\ \A o \in Objects : source[o] \in 0 .. MaxVersion /\ listed[o] \in 0 .. MaxVersion
                                 /\ written[o] \in 0 .. MaxVersion
<1>1. /\ {source, written, listed} \subseteq [Objects -> 0 .. MaxVersion] /\ MaxVersion \in Nat
      /\ written' \in [Objects -> 0 .. MaxVersion]
  BY StepTypes, BoundsAssumption DEF TypeInv, TypeOK
<1>2. /\ mac \in [Objects -> [Places -> Versions \cup {None, Damaged}]]
      /\ receipts \in [Objects -> [Places -> Versions \cup {None, Damaged}]]
      /\ DOMAIN final = Objects /\ DOMAIN manifest = Objects
  BY DEF TypeInv, TypeOK
<1>3. source \in [Objects -> Nat] /\ written \in [Objects -> Nat] /\ listed \in [Objects -> Nat]
      /\ written' \in [Objects -> Nat]
  BY <1>1
<1>4. \A o \in Objects, c \in Places : {receipts[o][c], mac[o][c]} \subseteq Versions \cup {None, Damaged}
  BY <1>2
<1>5. Versions = (0 .. MaxVersion) \ {0} /\ \A v \in 0 .. MaxVersion : v \in Nat
  BY <1>1 DEF Versions
<1>6. \A o \in Objects : written'[o] >= written[o]
  BY StoreStep
<1> HIDE DEF Versions
<1> QED BY <1>1, <1>2, <1>3, <1>4, <1>5, <1>6

(* A step changes the receipt of a chunk only by writing one that was not  *)
(* there, or by starting anew; and bytes on the Mac only where there is no *)
(* receipt.                                                                *)
LEMMA ChunkStep ==
    ASSUME TypeInv, StoreInv, ObjectInv, Next
    PROVE  ChunkInv'
<1>0. /\ ChunkInv /\ SendInv /\ ~KeepWorkRoot
  BY DEF ObjectInv
<1>1. StoreInv /\ [Next]_vars
  OBVIOUS
<1>2. CASE Relist
  <2>1. receipts' = Empty
    BY <1>0, <1>2 DEF Relist
  <2> QED BY <2>1 DEF ChunkInv, Empty
<1>3. CASE ReceiptChunk
  <2>1. cur \in Objects /\ chunk \in Places
    BY <1>3, CurrentObject DEF ReceiptChunk, TypeInv, TypeOK, ObjectSteps
  <2>2. receipts' = [receipts EXCEPT ![cur][chunk] = body] /\ UNCHANGED <<mac, listed, written>>
        /\ mac[cur][chunk] = body /\ (body = listed[cur] \/ written[cur] > listed[cur])
        /\ \A c \in 1 .. (chunk - 1) : receipts[cur][c] # None
    BY <1>0, <1>3 DEF ReceiptChunk, SendInv, remote, store
  <2>3. body \in 0 .. MaxVersion /\ body # 0
    BY <1>3 DEF ReceiptChunk, TypeInv, TypeOK, RunTyped
  <2>4. body # None
    BY <2>3, ObjectFacts, Sentinels
  <2>5. ASSUME NEW o \in Objects, NEW c \in Places, ~(o = cur /\ c = chunk)
        PROVE  receipts'[o][c] = receipts[o][c]
    BY <2>1, <2>2, <2>5, ObjectFacts
  <2>6. receipts'[cur][chunk] = body
    BY <2>1, <2>2, ObjectFacts
  <2>7. ASSUME NEW o \in Objects, NEW c \in Places, receipts'[o][c] # None
        PROVE  \A b \in 1 .. c : receipts'[o][b] # None
    <3> SUFFICES ASSUME NEW b \in 1 .. c PROVE receipts'[o][b] # None
      OBVIOUS
    <3>1. b \in Places
      BY ChunksAssumption DEF Places
    <3>2. CASE o = cur /\ b = chunk
      BY <2>4, <2>6, <3>2
    <3>3. CASE ~(o = cur /\ b = chunk) /\ o = cur /\ c = chunk
      BY <2>1, <2>2, <2>5, <3>1, <3>3 DEF Places
    <3>4. CASE ~(o = cur /\ b = chunk) /\ ~(o = cur /\ c = chunk)
      BY <1>0, <2>5, <2>7, <3>1, <3>4 DEF ChunkInv
    <3> QED BY <3>2, <3>3, <3>4
  <2>8. ASSUME NEW o \in Objects, NEW c \in Places, receipts'[o][c] # None
        PROVE  mac[o][c] = receipts'[o][c] /\ (receipts'[o][c] = listed[o] \/ written[o] > listed[o])
    BY <1>0, <2>2, <2>5, <2>6, <2>8 DEF ChunkInv
  <2> QED BY <2>2, <2>7, <2>8 DEF ChunkInv
<1>4. CASE UNCHANGED <<receipts, listed>>
  <2>1. ASSUME NEW o \in Objects, NEW c \in Places, receipts[o][c] # None
        PROVE  mac'[o][c] = mac[o][c]
    <3>1. \/ UNCHANGED mac
          \/ /\ pc \in {"head", "open", "send"}
             /\ \E content : mac' = [mac EXCEPT ![cur][chunk] = content]
      BY Frames DEF Fault, StreamHead, StreamOpen, SendChunk, UploadManifest, CutChunk, remote
    <3>2. pc \in {"head", "open", "send"} => cur \in Objects /\ chunk \in Places /\ receipts[cur][chunk] = None
      BY <1>0, CurrentObject DEF SendInv, TypeInv, TypeOK, RunTyped, ObjectSteps
    <3> QED BY <2>1, <3>1, <3>2, ObjectFacts
  <2>2. \A o \in Objects : listed[o] \in Nat /\ written[o] \in Nat /\ written'[o] \in Nat /\ written'[o] >= written[o]
    BY ObjectFacts
  <2> QED BY <1>0, <1>4, <2>1, <2>2 DEF ChunkInv
<1> QED BY <1>2, <1>3, <1>4, Frames DEF TearFinal, WriteFinal, local

LEMMA FinalStep ==
    ASSUME TypeInv, StoreInv, ObjectInv, Next
    PROVE  FinalInv'
<1>0. FinalInv /\ SendInv /\ ~KeepWorkRoot
  BY DEF ObjectInv
<1>1. CASE Relist
  BY <1>0, <1>1, Sentinels DEF Relist, FinalInv
<1>2. CASE ReceiptChunk
  <2>1. cur \in Objects /\ final[cur] \notin Versions
    BY <1>0, <1>2, CurrentObject DEF ReceiptChunk, SendInv, ObjectSteps
  <2>2. UNCHANGED <<final, listed>> /\ \A o \in Objects : o # cur => receipts'[o] = receipts[o]
    BY <1>2, <2>1, ObjectFacts DEF ReceiptChunk
  <2> QED BY <1>0, <2>1, <2>2 DEF FinalInv, Expected
<1>3. CASE WriteFinal
  <2>1. UNCHANGED <<receipts, listed>> /\ final' = [final EXCEPT ![cur] = listed[cur]]
        /\ \A c \in 1 .. Expected(cur) : receipts[cur][c] = listed[cur]
    BY <1>0, <1>3 DEF WriteFinal, SendInv
  <2> QED BY <1>0, <2>1, ObjectFacts DEF FinalInv, Expected
<1>4. CASE TearFinal
  BY <1>0, <1>4, ObjectFacts, Sentinels DEF TearFinal, FinalInv, Expected
<1>5. CASE UNCHANGED <<local, listed>>
  BY <1>0, <1>5 DEF FinalInv, Expected, local
<1> QED BY <1>1, <1>2, <1>3, <1>4, <1>5, Frames

(* The run, step by step.                                                  *)
LEMMA SendStep ==
    ASSUME TypeInv, StoreInv, ObjectInv, Next
    PROVE  SendInv'
<1> DEFINE Goal == SendInv
<1> USE DEF SendInv, Idle, Stop, Begin, stream, store, local, remote, ObjectSteps
<1>a. SendInv /\ ChunkInv /\ FinalInv /\ ~KeepWorkRoot /\ MaxDamage = 0
  BY DEF ObjectInv
<1>b. UNCHANGED <<listed, cur>> => Expected(cur)' = Expected(cur)
  BY CurrentSame
<1>c. /\ written \in [Objects -> Nat] /\ written' \in [Objects -> Nat] /\ listed \in [Objects -> Nat]
      /\ \A o \in Objects : written'[o] >= written[o]
  BY ObjectFacts
<1>d. pc \in ObjectSteps => cur \in Objects
  BY CurrentObject
<1>g. /\ DOMAIN receipts = Objects /\ (\A o \in Objects : DOMAIN receipts[o] = Places)
      /\ DOMAIN mac = Objects /\ (\A o \in Objects : DOMAIN mac[o] = Places)
  BY ObjectFacts
<1>1. ASSUME NEW o \in Objects, Write(o) PROVE Goal'
  BY <1>1, <1>a, <1>b, <1>c, <1>d DEF Write
<1>2. CASE Fault
  BY <1>2 DEF Fault
<1>3. CASE TearFinal
  BY <1>3, <1>a, <1>b, <1>d DEF TearFinal
<1>4. CASE TearPackReceipt
  BY <1>4, <1>a, <1>b, <1>d DEF TearPackReceipt
<1>5. CASE Start
  BY <1>5, <1>a, <1>b, <1>d DEF Start
<1>6. CASE Relist
  BY <1>6, <1>a, <1>b, <1>d DEF Relist
<1>7. CASE BeginObject
  <2>1. CASE listed[cur] = 0 \/ final[cur] = listed[cur] \/ final[cur] = Torn
    BY <1>7, <2>1, <1>a, <1>b DEF BeginObject, NextObject
  <2>2. CASE ~(listed[cur] = 0 \/ final[cur] = listed[cur] \/ final[cur] = Torn)
    <3>1. cur \in Objects
      BY <1>7 DEF BeginObject, TypeInv, TypeOK, Running
    <3>2. final[cur] \notin Versions
      BY <2>2, <3>1, <1>a DEF FinalInv
    <3>3. Expected(cur) \in Nat
      BY <2>2, <3>1, Listed DEF TypeInv
    <3>4. chunk' = FirstMissing(cur) /\ pc' = (IF FirstMissing(cur) <= Expected(cur) THEN "head" ELSE "hash")
          /\ UNCHANGED <<cur, listed, receipts, final>>
      BY <1>7, <2>2 DEF BeginObject, local
    <3> HIDE DEF Goal
    <3>5. FirstMissing(cur) \in Nat /\ \A c \in 1 .. (FirstMissing(cur) - 1) : receipts[cur][c] # None
      BY <3>3, FirstMissingIs
    <3>6. CASE FirstMissing(cur) <= Expected(cur)
      <4>1. receipts[cur][FirstMissing(cur)] = None
        BY <3>3, <3>6, FirstMissingIs
      <4> QED BY <3>2, <3>4, <3>5, <3>6, <4>1 DEF Goal
    <3>7. CASE ~(FirstMissing(cur) <= Expected(cur))
      <4>1. FirstMissing(cur) = Expected(cur) + 1
        BY <3>3, <3>7, FirstMissingIs
      <4>2. Expected(cur)' = Expected(cur)
        BY <3>4, CurrentSame
      <4> QED BY <3>2, <3>3, <3>4, <3>5, <3>7, <4>1, <4>2 DEF Goal
    <3> QED BY <3>6, <3>7
  <2> QED BY <2>1, <2>2
<1>8. CASE StreamHead
  BY <1>8, <1>a, <1>b, <1>d DEF StreamHead
<1>9. CASE StreamOpen
  <2>1. cur \in Objects /\ (source[cur] # 0 => source[cur] = written[cur]) /\ listed[cur] <= written[cur]
    BY <1>9, CurrentObject DEF StreamOpen, StoreInv
  <2> QED BY <1>9, <2>1, <1>a, <1>b, <1>c DEF StreamOpen
<1>10. CASE SendChunk
  <2>1. cur \in Objects /\ chunk \in Places
    BY <1>10, CurrentObject DEF SendChunk, TypeInv, TypeOK
  <2>2. CASE chunk > Chunks[cur][body]
    BY <1>10, <2>2, <1>a DEF SendChunk
  <2>3. CASE ~(chunk > Chunks[cur][body])
    <3>1. ~(damages < MaxDamage)
      BY <1>a DEF TypeInv, TypeOK
    <3>2. mac' = [mac EXCEPT ![cur][chunk] = body] /\ pc' = "receipt" /\ UNCHANGED <<cur, chunk, body, listed, written, receipts, final>>
      BY <1>10, <2>3, <3>1 DEF SendChunk, local
    <3>3. mac'[cur][chunk] = body
      BY <1>g, <2>1, <3>2
    <3>4. pc = "send"
      BY <1>10 DEF SendChunk
    <3> QED BY <1>a, <3>2, <3>3, <3>4
  <2> QED BY <2>2, <2>3
<1>11. CASE ReceiptChunk
  <2>1. cur \in Objects /\ chunk \in 1 .. Expected(cur) /\ 1 .. Expected(cur) \subseteq Places /\ Expected(cur) \in Nat
    BY <1>11, CurrentObject DEF ReceiptChunk, TypeInv, TypeOK
  <2>2. /\ receipts' = [receipts EXCEPT ![cur][chunk] = body] /\ UNCHANGED <<cur, listed, written, final, body>>
        /\ chunk' = chunk + 1 /\ pc' = (IF chunk = Expected(cur) THEN "compare" ELSE "send") /\ pc = "receipt"
    BY <1>11, <1>a DEF ReceiptChunk
  <2>3. body # None
    <3>1. body \in 0 .. MaxVersion /\ body # 0
      BY <2>2 DEF TypeInv, TypeOK, RunTyped
    <3> QED BY <3>1, ObjectFacts, Sentinels
  <2>4. \A c \in 1 .. chunk : receipts'[cur][c] # None
    BY <1>a, <1>g, <2>1, <2>2, <2>3
  <2>5. Expected(cur)' = Expected(cur)
    BY <2>2, CurrentSame
  <2>6. CASE chunk = Expected(cur)
    BY <1>a, <2>1, <2>2, <2>4, <2>5, <2>6
  <2>7. CASE chunk # Expected(cur)
    <3>1. receipts'[cur][chunk + 1] = receipts[cur][chunk + 1] /\ chunk + 1 \in Places
      BY <1>g, <2>1, <2>2, <2>7 DEF Places
    <3>2. receipts[cur][chunk + 1] = None
      BY <1>a, <2>1, <2>2, <3>1 DEF ChunkInv
    <3>3. (chunk + 1) - 1 = chunk
      BY <2>1
    <3> QED BY <1>a, <2>1, <2>2, <2>4, <2>7, <3>1, <3>2, <3>3
  <2> QED BY <2>6, <2>7
<1>12. CASE Compare
  BY <1>12, <1>a, <1>b, <1>d DEF Compare
<1>13. CASE HashSource
  <2>1. CASE source[cur] # listed[cur]
    BY <1>13, <2>1 DEF HashSource
  <2>2. CASE source[cur] = listed[cur]
    <3>1. cur \in Objects /\ listed[cur] # 0 /\ 1 .. Expected(cur) \subseteq Places
      BY <1>13, CurrentObject DEF HashSource, TypeInv, RunTyped
    <3>2. written[cur] = listed[cur]
      BY <2>2, <3>1 DEF StoreInv
    <3>3. pc' = "final" /\ UNCHANGED <<cur, listed, receipts, final>> /\ pc = "hash"
      BY <1>13, <2>2 DEF HashSource, local
    <3>4. \A c \in 1 .. Expected(cur) : receipts[cur][c] = listed[cur]
      BY <1>a, <1>c, <3>1, <3>2, <3>3 DEF ChunkInv
    <3>5. Expected(cur)' = Expected(cur)
      BY <3>3, CurrentSame
    <3> QED BY <1>a, <3>3, <3>4, <3>5
  <2> QED BY <2>1, <2>2
<1>14. CASE WriteFinal
  BY <1>14, <1>a, <1>b, <1>d DEF WriteFinal
<1>15. CASE UploadManifest
  BY <1>15, <1>a, <1>b, <1>d DEF UploadManifest
<1>16. CASE CheckUnchanged
  BY <1>16, <1>a, <1>b, <1>d DEF CheckUnchanged
<1>17. CASE Delete
  BY <1>17, <1>a, <1>b, <1>d DEF Delete, NextObject
<1>18. CASE BeginPack
  BY <1>18, <1>a, <1>b, <1>d DEF BeginPack, NextPack
<1>19. CASE FrameHead
  BY <1>19, <1>a, <1>b, <1>d DEF FrameHead
<1>20. CASE FrameRead
  BY <1>20, <1>a, <1>b, <1>d DEF FrameRead
<1>21. CASE StorePack
  BY <1>21, <1>a, <1>b, <1>d DEF StorePack
<1>22. CASE WritePackReceipt
  BY <1>22, <1>a, <1>b, <1>d DEF WritePackReceipt
<1>23. CASE UploadPackManifest
  BY <1>23, <1>a, <1>b, <1>d DEF UploadPackManifest, NextPack
<1> QED BY <1>1, <1>2, <1>3, <1>4, <1>5, <1>6, <1>7, <1>8, <1>9, <1>10, <1>11, <1>12, <1>13, <1>14, <1>15, <1>16, <1>17, <1>18, <1>19, <1>20, <1>21, <1>22, <1>23 DEF Next, RunStep, PackStep

LEMMA ObjectUnchanged ==
    ASSUME ObjectInv, UNCHANGED vars
    PROVE  ObjectInv'
<1> USE DEF vars, store, local, remote, packed, stream, bounds
<1>1. \A o : Expected(o)' = Expected(o)
  BY DEF Expected
<1> QED BY <1>1 DEF ObjectInv, ChunkInv, FinalInv, SendInv

LEMMA ObjectStep ==
    ASSUME TypeInv, StoreInv, ObjectInv, [Next]_vars
    PROVE  ObjectInv'
<1>1. CASE Next
  BY <1>1, ChunkStep, FinalStep, SendStep DEF ObjectInv
<1>2. CASE UNCHANGED vars
  BY <1>2, ObjectUnchanged
<1> QED BY <1>1, <1>2

LEMMA ObjectArrived ==
    ASSUME TypeInv, ObjectInv
    PROVE  ReceiptedObjectArrived
<1> SUFFICES ASSUME NEW o \in Objects, final[o] \in Versions, NEW c \in 1 .. Chunks[o][final[o]]
             PROVE  mac[o][c] = final[o]
  BY DEF ReceiptedObjectArrived
<1>1. final[o] = listed[o] /\ \A d \in 1 .. Expected(o) : receipts[o][d] = listed[o]
  BY DEF ObjectInv, FinalInv
<1>2. receipts[o][c] = final[o] /\ c \in Places
  BY <1>1, ChunkCount DEF Expected
<1> QED BY <1>2, Sentinels DEF ObjectInv, ChunkInv

LEMMA InitObjects == Init => TypeInv /\ StoreInv /\ ChunkInv /\ FinalInv /\ SendInv
<1> SUFFICES ASSUME Init PROVE TypeInv /\ StoreInv /\ ChunkInv /\ FinalInv /\ SendInv
  OBVIOUS
<1>1. StoreInv /\ ChunkInv /\ FinalInv /\ SendInv
  BY BoundsAssumption, Sentinels DEF Init, StoreInv, ChunkInv, FinalInv, SendInv, Empty
<1> QED BY <1>1, InitTypes

(* An object with a COMPLETE receipt is on the Mac, whole and of the       *)
(* version the receipt names (migrate_one), when every new inventory has a *)
(* work root of its own and the Mac stores what it is sent; without either,*)
(* it need not be.                                                         *)
THEOREM ObjectsArrive == ~KeepWorkRoot /\ MaxDamage = 0 /\ Spec => []ReceiptedObjectArrived
<1> DEFINE I == TypeInv /\ StoreInv /\ ObjectInv
<1>1. ~KeepWorkRoot /\ MaxDamage = 0 /\ Init => I
  BY InitObjects DEF ObjectInv
<1>2. I /\ [Next]_vars => I'
  BY StepTypes, StoreStep, ObjectStep
<1>3. I => ReceiptedObjectArrived
  BY ObjectArrived
<1> QED BY <1>1, <1>2, <1>3, PTL DEF Spec

-----------------------------------------------------------------------------
(* Deletion.                                                               *)

LEMMA GoneStep ==
    ASSUME TypeInv, StoreInv, ObjectInv, DeleteInv, Next
    PROVE  GoneInv'
<1> SUFFICES ASSUME NEW o \in Objects, source'[o] = 0
             PROVE  /\ listed'[o] = 0 \/ (listed'[o] = written'[o] /\ final'[o] = listed'[o])
                    /\ manifest'[o] = written'[o]
                    /\ \A c \in 1 .. Chunks[o][written'[o]] : mac'[o][c] = written'[o]
  BY DEF GoneInv
<1> DEFINE Kept == /\ listed[o] = 0 \/ (listed[o] = written[o] /\ final[o] = listed[o])
                   /\ manifest[o] = written[o]
                   /\ \A c \in 1 .. Chunks[o][written[o]] : mac[o][c] = written[o]
<1>a. source[o] = 0 => Kept
  BY DEF DeleteInv, GoneInv
<1>b. /\ pc \in ObjectSteps => cur \in Objects /\ listed[cur] \in Versions
      /\ pc \in {"head", "open", "send", "final"} => final[cur] \notin Versions
  BY CurrentObject DEF ObjectInv, SendInv
<1>c. pc \in {"head", "open", "send", "final"} /\ source[o] = 0 => o # cur
  BY <1>a, <1>b, Sentinels DEF ObjectSteps
<1>1. ASSUME NEW p \in Objects, Write(p) PROVE Kept'
  <2>1. source' = [source EXCEPT ![p] = written[p] + 1] /\ written' = [written EXCEPT ![p] = @ + 1]
        /\ UNCHANGED <<listed, final, manifest, mac>>
    BY <1>1, ObjectFacts DEF Write, local, remote
  <2>2. o # p
    <3>1. source'[p] = written[p] + 1 /\ written[p] \in Nat
      BY <2>1, ObjectFacts
    <3> QED BY <3>1
  <2>3. source[o] = 0 /\ written'[o] = written[o]
    BY <2>1, <2>2, ObjectFacts
  <2> QED BY <1>a, <2>1, <2>3
<1>2. CASE Relist
  BY <1>2, <1>a DEF Relist, store, remote
<1>3. CASE Delete
  <2>1. source' = [source EXCEPT ![cur] = 0] /\ UNCHANGED <<written, listed, final, manifest, mac>> /\ pc = "delete"
    BY <1>3 DEF Delete, local, remote
  <2>2. CASE o # cur
    BY <1>a, <2>1, <2>2, ObjectFacts
  <2>3. CASE o = cur
    <3>1. source[o] = listed[o] /\ final[o] = listed[o] /\ manifest[o] = listed[o] /\ listed[o] \in Versions
      BY <1>b, <2>1, <2>3 DEF DeleteInv, ObjectSteps
    <3>2. written[o] = listed[o]
      BY <3>1, Sentinels DEF StoreInv
    <3>3. \A c \in 1 .. Chunks[o][final[o]] : mac[o][c] = final[o]
      BY <3>1, ObjectArrived DEF ReceiptedObjectArrived
    <3> QED BY <2>1, <3>1, <3>2, <3>3
  <2> QED BY <2>2, <2>3
<1>4. CASE UNCHANGED <<store, listed>>
  <2>0. source[o] = 0 /\ Kept
    BY <1>4, <1>a DEF store
  <2>1. final'[o] = final[o] \/ Relist
    BY <1>c, <2>0, Frames, ObjectFacts DEF TearFinal, ReceiptChunk, WriteFinal, local
  <2>2. mac'[o] = mac[o] /\ (manifest'[o] = manifest[o] \/ (UploadManifest /\ o = cur))
    BY <1>c, <2>0, Frames, ObjectFacts DEF Fault, StreamHead, StreamOpen, SendChunk, CutChunk, UploadManifest, remote
  <2>3. UploadManifest /\ o = cur => manifest'[o] = written[o]
    <3> SUFFICES ASSUME UploadManifest, o = cur PROVE manifest'[o] = written[o]
      OBVIOUS
    <3>1. manifest' = [manifest EXCEPT ![cur] = final[cur]] /\ pc = "manifest"
      BY DEF UploadManifest
    <3>2. final[o] = listed[o] /\ listed[o] \in Versions
      BY <1>b, <3>1 DEF DeleteInv, ObjectSteps
    <3> QED BY <2>0, <3>1, <3>2, ObjectFacts, Sentinels
  <2> QED BY <1>2, <1>4, <2>0, <2>1, <2>2, <2>3 DEF store
<1>5. Kept'
  BY <1>1, <1>2, <1>3, <1>4, Frames
<1> QED BY <1>5

LEMMA DeleteStep ==
    ASSUME TypeInv, StoreInv, ObjectInv, DeleteInv, Next
    PROVE  DeleteInv'
<1> DEFINE Goal == /\ pc \in {"manifest", "check", "delete"} => final[cur] = listed[cur]
                   /\ pc \in {"check", "delete"} => manifest[cur] = listed[cur]
                   /\ pc = "delete" => source[cur] = listed[cur]
<1> USE DEF Idle, Stop, Begin, stream, store, local, remote
<1>a. Goal /\ QuietDelete
  BY DEF DeleteInv
<1>b. pc \in ObjectSteps => cur \in Objects
  BY CurrentObject
<1>c. DOMAIN final = Objects /\ DOMAIN manifest = Objects /\ written \in [Objects -> Nat] /\ source \in [Objects -> Nat]
  BY ObjectFacts
<1>1. ASSUME NEW o \in Objects, Write(o) PROVE Goal'
  BY <1>1, <1>a, <1>b, <1>c DEF Write
<1>2. ASSUME Fault PROVE Goal'
  BY <1>2, <1>a, <1>b, <1>c DEF Fault
<1>3. ASSUME TearFinal PROVE Goal'
  BY <1>3, <1>a, <1>b, <1>c DEF TearFinal
<1>4. ASSUME TearPackReceipt PROVE Goal'
  BY <1>4, <1>a, <1>b, <1>c DEF TearPackReceipt
<1>5. ASSUME Start PROVE Goal'
  BY <1>5, <1>a, <1>b, <1>c DEF Start
<1>6. ASSUME Relist PROVE Goal'
  BY <1>6, <1>a, <1>b, <1>c DEF Relist
<1>7. ASSUME BeginObject PROVE Goal'
  BY <1>7, <1>a, <1>b, <1>c DEF BeginObject, NextObject
<1>8. ASSUME StreamHead PROVE Goal'
  BY <1>8, <1>a, <1>b, <1>c DEF StreamHead
<1>9. ASSUME StreamOpen PROVE Goal'
  BY <1>9, <1>a, <1>b, <1>c DEF StreamOpen
<1>10. ASSUME SendChunk PROVE Goal'
  BY <1>10, <1>a, <1>b, <1>c DEF SendChunk
<1>11. ASSUME ReceiptChunk PROVE Goal'
  BY <1>11, <1>a, <1>b, <1>c DEF ReceiptChunk
<1>12. ASSUME Compare PROVE Goal'
  BY <1>12, <1>a, <1>b, <1>c DEF Compare
<1>13. ASSUME HashSource PROVE Goal'
  BY <1>13, <1>a, <1>b, <1>c DEF HashSource
<1>14. ASSUME WriteFinal PROVE Goal'
  BY <1>14, <1>a, <1>b, <1>c DEF WriteFinal, ObjectSteps
<1>15. ASSUME UploadManifest PROVE Goal'
  BY <1>15, <1>a, <1>b, <1>c DEF UploadManifest, ObjectSteps
<1>16. ASSUME CheckUnchanged PROVE Goal'
  BY <1>16, <1>a, <1>b, <1>c DEF CheckUnchanged
<1>17. ASSUME Delete PROVE Goal'
  BY <1>17, <1>a, <1>b, <1>c DEF Delete, NextObject
<1>18. ASSUME BeginPack PROVE Goal'
  BY <1>18, <1>a, <1>b, <1>c DEF BeginPack, NextPack
<1>19. ASSUME FrameHead PROVE Goal'
  BY <1>19, <1>a, <1>b, <1>c DEF FrameHead
<1>20. ASSUME FrameRead PROVE Goal'
  BY <1>20, <1>a, <1>b, <1>c DEF FrameRead
<1>21. ASSUME StorePack PROVE Goal'
  BY <1>21, <1>a, <1>b, <1>c DEF StorePack
<1>22. ASSUME WritePackReceipt PROVE Goal'
  BY <1>22, <1>a, <1>b, <1>c DEF WritePackReceipt
<1>23. ASSUME UploadPackManifest PROVE Goal'
  BY <1>23, <1>a, <1>b, <1>c DEF UploadPackManifest, NextPack
<1> QED BY <1>1, <1>2, <1>3, <1>4, <1>5, <1>6, <1>7, <1>8, <1>9, <1>10, <1>11, <1>12, <1>13, <1>14, <1>15, <1>16, <1>17, <1>18, <1>19, <1>20, <1>21, <1>22, <1>23, <1>a, GoneStep DEF Next, RunStep, PackStep, DeleteInv

LEMMA DeleteUnchanged ==
    ASSUME DeleteInv, UNCHANGED vars
    PROVE  DeleteInv'
  BY DEF DeleteInv, GoneInv, vars, store, local, remote

(* The newest version of an object that was deleted from the store is on   *)
(* the Mac, under a manifest that names it (migrate_one), when besides     *)
(* nobody writes between the last look at the source and its deletion.     *)
THEOREM DeletedArrives == ~KeepWorkRoot /\ MaxDamage = 0 /\ QuietDelete /\ Spec => []DeletedIsRelayed
<1> DEFINE I == TypeInv /\ StoreInv /\ ObjectInv /\ DeleteInv
<1>1. ~KeepWorkRoot /\ MaxDamage = 0 /\ QuietDelete /\ Init => I
  <2>1. Init => GoneInv /\ pc = "off"
    BY DEF Init, GoneInv
  <2> QED BY <2>1, InitObjects DEF ObjectInv, DeleteInv
<1>2. I /\ [Next]_vars => I'
  <2> SUFFICES ASSUME I, [Next]_vars PROVE I'
    OBVIOUS
  <2>1. TypeInv' /\ StoreInv' /\ ObjectInv'
    BY StepTypes, StoreStep, ObjectStep
  <2>2. DeleteInv'
    BY DeleteStep, DeleteUnchanged
  <2> QED BY <2>1, <2>2
<1>3. I => DeletedIsRelayed
  BY DEF DeleteInv, GoneInv, DeletedIsRelayed
<1> QED BY <1>1, <1>2, <1>3, PTL DEF Spec

=============================================================================
