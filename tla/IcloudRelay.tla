---------------------------- MODULE IcloudRelay ----------------------------
(***************************************************************************)
(* The relay of large objects from the store, through this host, to a Mac  *)
(* that evicts them to iCloud (migrate_one).  An object is streamed in     *)
(* chunks; a chunk that the Mac has stored is receipted here, and a run    *)
(* resumes at the first chunk without a receipt.  When all chunks are      *)
(* there, the hashes both sides computed for the chunks of this run are    *)
(* compared, the whole object is hashed at the source, and the object's    *)
(* receipt is written here and uploaded; then the source is deleted.       *)
(*                                                                         *)
(* The other command packs small objects (migrate_small_pack): a pack is   *)
(* streamed in one go, stored, compared and receipted as a whole, and its  *)
(* sources stay.                                                           *)
(*                                                                         *)
(* The content of an object is its version, which its ETag identifies; a   *)
(* chunk holds its part of some version.  The size of an object is told in *)
(* chunks, and a small object is one of a single chunk.  An object of one  *)
(* chunk that no pack holds with its frame, which the second command       *)
(* leaves to the first, is not modelled.                                   *)
(***************************************************************************)
EXTENDS Integers, FiniteSets

CONSTANTS ObjectCount,    \* objects, numbered in inventory order
          Chunks,         \* Chunks[o][v]: chunks of version v of object o
          MaxChunks,      \* the most chunks an object has
          PackRecords,    \* the most objects of a pack
          KeepWorkRoot,   \* a new inventory is migrated in the old work root
          QuietDelete,    \* no write between the check and the deletion
          None,           \* nothing stored
          Damaged,        \* bytes that are not those that were sent, or cut
          Torn,           \* a receipt whose writer was killed
          MaxVersion, MaxWrites, MaxFaults, MaxDamage, MaxLists   \* bounds

Objects  == 1 .. ObjectCount
Versions == 1 .. MaxVersion

ASSUME CountAssumption == ObjectCount \in Nat \ {0}
ASSUME ChunksAssumption == MaxChunks \in Nat /\ Chunks \in [Objects -> [Versions -> 1 .. MaxChunks]]
ASSUME PackAssumption == PackRecords \in Nat \ {0}
ASSUME SwitchAssumption == {KeepWorkRoot, QuietDelete} \subseteq BOOLEAN
ASSUME BoundsAssumption == MaxVersion \in Nat \ {0} /\ {MaxWrites, MaxFaults, MaxDamage, MaxLists} \subseteq Nat
ASSUME SentinelAssumption ==
    /\ None # Damaged /\ None # Torn /\ Damaged # Torn
    /\ {None, Damaged, Torn} \cap Int = {}

Lanes == {"objects", "packs"}

VARIABLES
    lane,       \* which of the two commands is run
    source,     \* source[o]: version of the object in the store, 0 = none
    written,    \* written[o]: the newest version anyone has written
    listed,     \* the inventory: version listed, 0 = not listed
    mac,        \* mac[o][c]: content of chunk c on the Mac
    receipts,   \* receipts[o][c]: the content chunk receipt c binds
    final,      \* final[o]: version in the object's COMPLETE receipt
    manifest,   \* manifest[o]: version in the manifest on the Mac
    packs,      \* packs[P]: versions of the objects in the pack on the Mac
    packReceipts,   \* packReceipts[P]: versions listed and versions packed
    packManifests,  \* the packs with a manifest on the Mac
    pc, cur,    \* the run: next step, object or pack at work
    first,      \* the chunk this run resumed at
    chunk,      \* the chunk to send next
    head, body, \* versions the source stream declared and sends
    sent,       \* versions in the frames of the pack so far
    writes, faults, damages, lists

store  == <<source, written>>
local  == <<receipts, final>>
remote == <<mac, manifest>>
packed == <<packs, packReceipts, packManifests>>
stream == <<first, chunk, head, body, sent>>
bounds == <<writes, faults, damages, lists>>
vars   == <<lane, packed, store, listed, local, remote, packed, pc, cur, stream, bounds>>

Places == 1 .. MaxChunks

Empty == [o \in Objects |-> [c \in Places |-> None]]

(* The chunks the inventory gives the object.                              *)
Expected(o) == Chunks[o][listed[o]]

(* The small objects of the inventory, in its order, in groups.            *)
Packable == {o \in Objects : listed[o] # 0 /\ Expected(o) = 1}

Pack(i) ==
    {o \in Packable : Cardinality({p \in Packable : p < o}) \div PackRecords = i - 1}

(* A pack of which not all arrived.                                        *)
CutPack == packs' = [packs EXCEPT ![Pack(cur)] = Damaged] /\ UNCHANGED <<packReceipts, packManifests>>

-----------------------------------------------------------------------------
Begin == IF lane = "objects" THEN "object" ELSE "pack"

Init ==
    /\ lane \in Lanes
    /\ source = [o \in Objects |-> 1]
    /\ written = source /\ listed = source
    /\ mac = Empty /\ receipts = Empty
    /\ final = [o \in Objects |-> None]
    /\ manifest = [o \in Objects |-> None]
    /\ packs = [P \in SUBSET Objects |-> None]
    /\ packReceipts = packs /\ packManifests = {}
    /\ pc = "off" /\ cur = 1
    /\ first = 1 /\ chunk = 1 /\ head = 0 /\ body = 0 /\ sent = <<>>
    /\ writes = 0 /\ faults = 0 /\ damages = 0 /\ lists = 0

(* A producer writes a new version of an object.                           *)
Write(o) ==
    /\ writes < MaxWrites /\ written[o] < MaxVersion
    /\ QuietDelete => ~(pc = "delete" /\ cur = o)
    /\ writes' = writes + 1
    /\ written' = [written EXCEPT ![o] = @ + 1]
    /\ source' = [source EXCEPT ![o] = written'[o]]
    /\ UNCHANGED <<lane, listed, local, remote, packed, pc, cur, stream, faults, damages, lists>>

(* The run ends, with an error or at a kill.                               *)
Idle == first' = 1 /\ chunk' = 1 /\ head' = 0 /\ body' = 0 /\ sent' = <<>>

Stop == pc' = "off" /\ cur' = 1 /\ Idle

Running == pc \notin {"off", "done"}

(* What the Mac received before its input ended it stores, as if it were   *)
(* all, under the final name of the chunk or of the pack.                  *)
CutChunk == mac' = [mac EXCEPT ![cur][chunk] = Damaged] /\ UNCHANGED manifest

(* The Mac is short of space or does not evict, a connection breaks, or    *)
(* the relay is killed.                                                    *)
Fault ==
    /\ Running /\ faults < MaxFaults
    /\ faults' = faults + 1
    /\ \/ UNCHANGED <<remote, packed>>
       \/ pc \in {"head", "open", "send"} /\ CutChunk /\ UNCHANGED packed
       \/ pc \in {"frame", "read", "store"} /\ CutPack /\ UNCHANGED remote
    /\ Stop
    /\ UNCHANGED <<lane, store, listed, local, writes, damages, lists>>

(* The relay is killed while it writes the receipt of an object or a pack. *)
TearFinal ==
    /\ pc = "final" /\ faults < MaxFaults
    /\ faults' = faults + 1
    /\ final' = [final EXCEPT ![cur] = Torn]
    /\ Stop
    /\ UNCHANGED <<lane, packed, store, listed, receipts, remote, writes, damages, lists>>

TearPackReceipt ==
    /\ pc = "packreceipt" /\ faults < MaxFaults
    /\ faults' = faults + 1
    /\ packReceipts' = [packReceipts EXCEPT ![Pack(cur)] = Torn]
    /\ Stop
    /\ UNCHANGED <<lane, store, listed, local, remote, packs, packManifests, writes, damages, lists>>

Start ==
    /\ pc = "off"
    /\ pc' = Begin /\ cur' = 1
    /\ UNCHANGED <<lane, packed, store, listed, local, remote, stream, bounds>>

(* The operator takes a new inventory for either command, and starts it in *)
(* a new work root or in the one that holds the receipts of the old.       *)
Relist ==
    /\ pc \in {"off", "done"} /\ lists < MaxLists /\ listed # source
    /\ lists' = lists + 1
    /\ listed' = source
    /\ lane' \in Lanes
    /\ IF KeepWorkRoot THEN UNCHANGED <<local, packReceipts>>
       ELSE /\ receipts' = Empty /\ final' = [o \in Objects |-> None]
            /\ packReceipts' = [P \in SUBSET Objects |-> None]
    /\ Stop
    /\ UNCHANGED <<store, remote, packs, packManifests, writes, faults, damages>>

-----------------------------------------------------------------------------
(* migrate_one.                                                            *)

(* Mutation: the end of the inventory is not noticed.                      *)
NextObjectPastEnd == cur' = cur + 1 /\ pc' = "object" /\ Idle

NextObject == cur' = cur + 1 /\ pc' = (IF cur = ObjectCount THEN "done" ELSE "object") /\ Idle

(* The first chunk without a receipt.                                      *)
FirstMissing(o) ==
    CHOOSE n \in 1 .. (Expected(o) + 1) :
        /\ \A c \in 1 .. (n - 1) : receipts[o][c] # None
        /\ n <= Expected(o) => receipts[o][n] = None

(* Mutation: a stream is opened although every chunk is receipted.         *)
BeginObjectStreams ==
    /\ pc = "object"
    /\ IF listed[cur] = 0 \/ final[cur] = listed[cur] THEN NextObject
       ELSE IF final[cur] = Torn THEN Stop
       ELSE /\ first' = FirstMissing(cur) /\ chunk' = first'
            /\ pc' = "head"
            /\ UNCHANGED <<cur, head, body, sent>>
    /\ UNCHANGED <<lane, packed, store, listed, local, remote, bounds>>

(* Skip an object with a COMPLETE receipt for the inventory's record, fail *)
(* on a receipt that does not parse, or resume; with all chunks receipted  *)
(* no stream is opened.                                                    *)
BeginObject ==
    /\ pc = "object"
    /\ IF listed[cur] = 0 \/ final[cur] = listed[cur] THEN NextObject
       ELSE IF final[cur] = Torn THEN Stop
       ELSE /\ first' = FirstMissing(cur) /\ chunk' = first'
            /\ pc' = IF first' <= Expected(cur) THEN "head" ELSE "hash"
            /\ UNCHANGED <<cur, head, body, sent>>
    /\ UNCHANGED <<lane, packed, store, listed, local, remote, bounds>>

(* The source process asks for the object's metadata.  When it ends before *)
(* it sent a byte, the Mac stores an empty chunk.                          *)
StreamHead ==
    /\ pc = "head"
    /\ IF source[cur] = 0 THEN CutChunk /\ Stop
       ELSE head' = source[cur] /\ pc' = "open" /\ UNCHANGED <<remote, cur, first, chunk, body, sent>>
    /\ UNCHANGED <<lane, packed, store, listed, local, bounds>>

(* Then it opens the object at the offset of the first missing chunk.      *)
StreamOpen ==
    /\ pc = "open"
    /\ IF source[cur] = 0 THEN CutChunk /\ Stop
       ELSE body' = source[cur] /\ pc' = "send" /\ UNCHANGED <<remote, cur, first, chunk, head, sent>>
    /\ UNCHANGED <<lane, packed, store, listed, local, bounds>>

(* The Mac stores a chunk, under its final name, and reports its hash; a   *)
(* stream that ends too early ends the run.                                *)
SendChunk ==
    /\ pc = "send"
    /\ IF chunk > Chunks[cur][body]
       THEN CutChunk /\ Stop /\ UNCHANGED damages
       ELSE /\ \/ mac' = [mac EXCEPT ![cur][chunk] = body] /\ UNCHANGED <<manifest, damages>>
               \/ damages < MaxDamage /\ damages' = damages + 1 /\ CutChunk
            /\ pc' = "receipt" /\ UNCHANGED <<cur, stream>>
    /\ UNCHANGED <<lane, packed, store, listed, local, writes, faults, lists>>

(* The receipt binds the Mac's hash.                                       *)
ReceiptChunk ==
    /\ pc = "receipt"
    /\ receipts' = [receipts EXCEPT ![cur][chunk] = mac[cur][chunk]]
    /\ chunk' = chunk + 1
    /\ pc' = IF chunk = Expected(cur) THEN "compare" ELSE "send"
    /\ UNCHANGED <<lane, packed, store, listed, final, remote, cur, first, head, body, sent, bounds>>

(* The stream must end with the size and ETag of the inventory, and the    *)
(* chunks of this run must have arrived as they were sent.                 *)
StreamAccepted ==
    /\ head = listed[cur] /\ Chunks[cur][body] = Chunks[cur][head]
    /\ \A c \in first .. Expected(cur) : receipts[cur][c] = body

Compare ==
    /\ pc = "compare"
    /\ IF StreamAccepted THEN pc' = "hash" /\ UNCHANGED <<cur, stream>> ELSE Stop
    /\ UNCHANGED <<lane, packed, store, listed, local, remote, bounds>>

(* Mutation: the ETag that comes with the whole-object hash is ignored.    *)
HashSourceAnyTag ==
    /\ pc = "hash"
    /\ IF source[cur] # 0 THEN pc' = "final" /\ UNCHANGED <<cur, stream>> ELSE Stop
    /\ UNCHANGED <<lane, packed, store, listed, local, remote, bounds>>

(* The source hashes the whole object; its size and ETag must be those of  *)
(* the inventory, and the hash goes into the object's receipt.             *)
HashSource ==
    /\ pc = "hash"
    /\ IF source[cur] = listed[cur] THEN pc' = "final" /\ UNCHANGED <<cur, stream>> ELSE Stop
    /\ UNCHANGED <<lane, packed, store, listed, local, remote, bounds>>

WriteFinal ==
    /\ pc = "final"
    /\ final' = [final EXCEPT ![cur] = listed[cur]]
    /\ pc' = "manifest"
    /\ UNCHANGED <<lane, packed, store, listed, receipts, remote, cur, stream, bounds>>

UploadManifest ==
    /\ pc = "manifest"
    /\ manifest' = [manifest EXCEPT ![cur] = final[cur]]
    /\ pc' = "check"
    /\ UNCHANGED <<lane, packed, store, listed, local, mac, cur, stream, bounds>>

(* Mutation: the deletion does not look at the object again.               *)
CheckUnchangedSkipped ==
    /\ pc = "check"
    /\ pc' = "delete" /\ UNCHANGED <<cur, stream>>
    /\ UNCHANGED <<lane, packed, store, listed, local, remote, bounds>>

(* Only an object with the inventory's size and ETag is deleted.           *)
CheckUnchanged ==
    /\ pc = "check"
    /\ IF source[cur] = listed[cur] THEN pc' = "delete" /\ UNCHANGED <<cur, stream>> ELSE Stop
    /\ UNCHANGED <<lane, packed, store, listed, local, remote, bounds>>

Delete ==
    /\ pc = "delete"
    /\ source' = [source EXCEPT ![cur] = 0]
    /\ NextObject
    /\ UNCHANGED <<lane, packed, written, listed, local, remote, bounds>>

-----------------------------------------------------------------------------
(* migrate_small_pack.                                                     *)

NextPack == cur' = cur + 1 /\ pc' = "pack" /\ Idle

(* Mutation: the receipt of a pack is not looked for.                      *)
BeginPackAgain ==
    /\ pc = "pack"
    /\ IF Pack(cur) = {} THEN pc' = "done" /\ UNCHANGED <<cur, stream>>
       ELSE pc' = "frame" /\ UNCHANGED <<cur, stream>>
    /\ UNCHANGED <<lane, packed, store, listed, local, remote, bounds>>

(* Skip a pack with a receipt, whose name is that of its objects alone, or *)
(* start the stream of a new one.                                          *)
BeginPack ==
    /\ pc = "pack"
    /\ IF Pack(cur) = {} THEN pc' = "done" /\ UNCHANGED <<cur, stream>>
       ELSE \/ packReceipts[Pack(cur)] = None /\ pc' = "frame" /\ UNCHANGED <<cur, stream>>
            \/ packReceipts[Pack(cur)] = Torn /\ Stop
            \/ packReceipts[Pack(cur)] \notin {None, Torn} /\ NextPack
    /\ UNCHANGED <<lane, packed, store, listed, local, remote, bounds>>

Unsent == Pack(cur) \ DOMAIN sent

NextRow == CHOOSE o \in Unsent : \A p \in Unsent : o <= p

(* The source process asks for the metadata of the next row, which must be *)
(* those of the inventory.                                                 *)
FrameHead ==
    /\ pc = "frame"
    /\ IF source[NextRow] = listed[NextRow]
       THEN pc' = "read" /\ UNCHANGED <<cur, stream, packed>>
       ELSE CutPack /\ Stop
    /\ UNCHANGED <<lane, store, listed, local, remote, bounds>>

(* Then it reads as many bytes as the inventory says, and frames them.  Of *)
(* a version that has grown since, these are only the first.               *)
FrameRead ==
    /\ pc = "read"
    /\ IF source[NextRow] = 0
       THEN CutPack /\ Stop
       ELSE /\ sent' = [o \in DOMAIN sent \cup {NextRow} |->
                  IF o # NextRow THEN sent[o]
                  ELSE IF Chunks[o][source[o]] = 1 THEN source[o] ELSE Damaged]
            /\ pc' = IF Unsent = {NextRow} THEN "store" ELSE "frame"
            /\ UNCHANGED <<cur, first, chunk, head, body, packed>>
    /\ UNCHANGED <<lane, store, listed, local, remote, bounds>>

(* The Mac has stored the pack; both sides must agree on its hash.         *)
StorePack ==
    /\ pc = "store"
    /\ \/ /\ packs' = [packs EXCEPT ![Pack(cur)] = sent]
          /\ pc' = "packreceipt"
          /\ UNCHANGED <<cur, stream, packReceipts, packManifests, damages>>
       \/ damages < MaxDamage /\ damages' = damages + 1 /\ CutPack /\ Stop
    /\ UNCHANGED <<lane, store, listed, local, remote, writes, faults, lists>>

WritePackReceipt ==
    /\ pc = "packreceipt"
    /\ packReceipts' = [packReceipts EXCEPT ![Pack(cur)] =
                          [listed |-> [o \in Pack(cur) |-> listed[o]], content |-> sent]]
    /\ pc' = "packmanifest"
    /\ UNCHANGED <<lane, store, listed, local, remote, packs, packManifests, cur, stream, bounds>>

UploadPackManifest ==
    /\ pc = "packmanifest"
    /\ packManifests' = packManifests \cup {Pack(cur)}
    /\ NextPack
    /\ UNCHANGED <<lane, store, listed, local, remote, packs, packReceipts, bounds>>

PackStep == \/ BeginPack \/ FrameHead \/ FrameRead
            \/ StorePack \/ WritePackReceipt \/ UploadPackManifest

RunStep == \/ BeginObject \/ StreamHead \/ StreamOpen \/ SendChunk \/ ReceiptChunk
           \/ Compare \/ HashSource \/ WriteFinal \/ UploadManifest \/ CheckUnchanged \/ Delete
           \/ PackStep

Next == \/ \E o \in Objects : Write(o)
        \/ Fault \/ TearFinal \/ TearPackReceipt
        \/ Start \/ Relist
        \/ RunStep

Spec == Init /\ [][Next]_vars

(* A run that was started goes on, and one that failed is started again.   *)
FairSpec == Spec /\ WF_vars(RunStep) /\ WF_vars(Start)

-----------------------------------------------------------------------------
PackContents(P) == [P -> Versions \cup {Damaged}]

(* Every variable holds a value of its kind.                               *)
TypeOK ==
    /\ lane \in Lanes
    /\ {source, written, listed} \subseteq [Objects -> 0 .. MaxVersion]
    /\ mac \in [Objects -> [Places -> Versions \cup {None, Damaged}]]
    /\ receipts \in [Objects -> [Places -> Versions \cup {None, Damaged}]]
    /\ final \in [Objects -> Versions \cup {None, Torn}]
    /\ manifest \in [Objects -> Versions \cup {None}]
    /\ pc \in {"off", "object", "head", "open", "send", "receipt", "compare", "hash",
               "final", "manifest", "check", "delete", "done",
               "pack", "frame", "read", "store", "packreceipt", "packmanifest"}
    /\ cur \in 1 .. (ObjectCount + 1)
    /\ Running /\ pc # "pack" => cur \in Objects
    /\ pc \in {"frame", "read"} => Unsent # {}
    /\ DOMAIN packs = SUBSET Objects /\ DOMAIN packReceipts = SUBSET Objects
    /\ \A P \in SUBSET Objects :
          /\ packs[P] \in {None, Damaged} \/ packs[P] \in PackContents(P)
          /\ \/ packReceipts[P] \in {None, Torn}
             \/ packReceipts[P] \in [listed : [P -> Versions], content : PackContents(P)]
    /\ packManifests \subseteq SUBSET Objects
    /\ {first, chunk} \subseteq Nat
    /\ pc \in {"send", "receipt"} => chunk \in 1 .. Expected(cur)
    /\ {head, body} \subseteq 0 .. MaxVersion
    /\ {writes, faults, damages, lists} \subseteq Nat

(* An object with a COMPLETE receipt is on the Mac, every chunk of it of   *)
(* the version the receipt names, however often the relay was interrupted  *)
(* and whatever was written to the source in between.                      *)
ReceiptedObjectArrived ==
    \A o \in Objects : final[o] \in Versions =>
        \A c \in 1 .. Chunks[o][final[o]] : mac[o][c] = final[o]

(* What the receipt of a pack binds is on the Mac; of each object it is    *)
(* the version that the receipt names, or that one has been overwritten.   *)
ReceiptedPackArrived ==
    \A P \in SUBSET Objects : packReceipts[P] \notin {None, Torn} =>
        /\ packs[P] = packReceipts[P].content
        /\ \A o \in P : \/ packs[P][o] = packReceipts[P].listed[o]
                       \/ written[o] > packReceipts[P].listed[o]

(* The newest version of an object that was deleted from the store is on   *)
(* the Mac, under a manifest that names it.                                *)
DeletedIsRelayed ==
    \A o \in Objects : source[o] = 0 /\ written[o] > 0 =>
        /\ manifest[o] = written[o]
        /\ \A c \in 1 .. Chunks[o][written[o]] : mac[o][c] = written[o]

(* When nobody rewrites the source and no receipt is torn, every object,   *)
(* or every pack, is receipted in the end, through any finite number of    *)
(* failed runs.                                                            *)
Torns == (\E o \in Objects : final[o] = Torn) \/ (\E P \in SUBSET Objects : packReceipts[P] = Torn)

Relayed ==
    IF lane = "objects"
    THEN \A o \in Objects : listed[o] # 0 => final[o] = listed[o]
    ELSE \A o \in Packable : \E P \in SUBSET Objects : o \in P /\ packReceipts[P] # None

Relays == [](writes = 0 /\ ~Torns) => <>Relayed
=============================================================================
