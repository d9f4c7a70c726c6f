------------------------- MODULE AcquisitionProofs -------------------------
(***************************************************************************)
(* Proofs about Acquisition, for any processes, lengths, nested archives   *)
(* and bounds: an undisturbed download leaves a whole artifact, a worker   *)
(* derives from a whole tree, and a ready tree stays as it is.             *)
(***************************************************************************)
EXTENDS Acquisition, FiniteSetTheorems, TLAPS

Assumptions == ProcessAssumption /\ LengthAssumption /\ BoundAssumption

-----------------------------------------------------------------------------
(* The pieces 1 .. n of version v, in order.                               *)

Prefix(f, v, n) == f = [i \in 1 .. n |-> <<v, i>>]

LEMMA PrefixLen ==
    ASSUME NEW v \in Nat, NEW n \in Nat, NEW f, Prefix(f, v, n)
    PROVE  f \in Seq(Nat \X Nat) /\ Len(f) = n /\ \A i \in 1 .. n : f[i] = <<v, i>>
  <1>1. f \in [1 .. n -> Nat \X Nat]
    BY DEF Prefix
  <1>2. f \in Seq(Nat \X Nat) /\ DOMAIN f = 1 .. n
    BY <1>1
  <1> QED BY <1>2 DEF Prefix

LEMMA PrefixEmpty ==
    ASSUME NEW v \in Nat
    PROVE  Prefix(<<>>, v, 0)
  BY DEF Prefix

(* The next piece may be appended or written behind the last.              *)
LEMMA PrefixNext ==
    ASSUME NEW v \in Nat, NEW n \in Nat, NEW f, Prefix(f, v, n), NEW k \in {0, n + 1}
    PROVE  Prefix(Put(f, k, <<v, n + 1>>), v, n + 1)
  <1>1. f \in Seq(Nat \X Nat) /\ Len(f) = n /\ \A i \in 1 .. n : f[i] = <<v, i>>
    BY PrefixLen
  <1>2. CASE k = 0
    <2>1. /\ Append(f, <<v, n + 1>>) \in Seq(Nat \X Nat)
          /\ Len(Append(f, <<v, n + 1>>)) = n + 1
          /\ \A i \in 1 .. n + 1 : Append(f, <<v, n + 1>>)[i] = <<v, i>>
      BY <1>1
    <2> QED BY <1>2, <2>1 DEF Put, Prefix
  <1>3. CASE k = n + 1
    <2>1. (IF Len(f) < k THEN k ELSE Len(f)) = n + 1 /\ k # 0
      BY <1>1, <1>3
    <2>2. Put(f, k, <<v, n + 1>>) =
            [i \in 1 .. n + 1 |-> IF i = k THEN <<v, n + 1>> ELSE IF i <= Len(f) THEN f[i] ELSE <<0, 0>>]
      BY <2>1 DEF Put
    <2>3. ASSUME NEW i \in 1 .. n + 1
          PROVE  (IF i = k THEN <<v, n + 1>> ELSE IF i <= Len(f) THEN f[i] ELSE <<0, 0>>) = <<v, i>>
      BY <1>1, <1>3, <2>3
    <2> QED BY <2>2, <2>3 DEF Prefix
  <1> QED BY <1>2, <1>3

LEMMA PrefixWhole ==
    ASSUME NEW f, NEW v \in 1 .. MaxVersion, Prefix(f, v, Length)
    PROVE  Whole(f)
  BY DEF Prefix, Whole

-----------------------------------------------------------------------------
(* The variables are functions of processes and inodes, and a process that *)
(* holds a file open is writing or about to rename.                        *)
Shape ==
    /\ version \in 1 .. MaxVersion
    /\ DOMAIN file = Inodes /\ DOMAIN pc = Process /\ DOMAIN tries = Process
    /\ DOMAIN offset = Process /\ DOMAIN fd = Process /\ DOMAIN at = Process
    /\ DOMAIN body = Process
    /\ \A p \in Process : fd[p] # None => pc[p] \in {"write", "rename"}

(* Where an undisturbed downloader is: the .part file holds the first      *)
(* pieces of the version served, and the next one is on its way.           *)
Place(p) ==
    /\ pc[p] = "open" => offset[p] = IF part = None THEN 0 ELSE Len(file[part])
    /\ pc[p] = "write" =>
          /\ part # None /\ fd[p] = part
          /\ \E n \in 0 .. Length - 1 :
                Prefix(file[part], version, n) /\ body[p] = <<version, n + 1>> /\ at[p] \in {0, n + 1}
    /\ pc[p] = "rename" => part # None /\ Prefix(file[part], version, Length)

(* As long as nothing has spoiled a download, there is one downloader at a *)
(* time, and none any more when the artifact is there.                     *)
Fresh ==
    /\ \A p, q \in Process : pc[p] \in Downloading /\ pc[q] \in Downloading => p = q
    /\ dest # None => Whole(file[dest]) /\ \A p \in Process : pc[p] \notin Downloading
    /\ part # None => part \in Inodes /\ part # dest /\ \E n \in 0 .. Length : Prefix(file[part], version, n)
    /\ \A p \in Process : Place(p)

DownloadInv == Shape /\ (spoiled = {} => Fresh)

DiskInv == Assumptions /\ DownloadInv

LEMMA Numbers ==
    ASSUME Assumptions
    PROVE  /\ Length \in Nat \ {0} /\ MaxVersion \in Nat \ {0} /\ Attempts \in Nat \ {0} /\ Archives \in Nat
           /\ 1 \in Inodes /\ None \notin Inodes /\ None \notin Process
  <1>1. Cardinality(Process) \in Nat
    BY FS_CardinalityType DEF Assumptions, ProcessAssumption
  <1> QED BY <1>1 DEF Assumptions, ProcessAssumption, LengthAssumption, Inodes, None

(* The file that a lone downloader opens.                                  *)
LEMMA OpenedInode ==
    ASSUME DiskInv, spoiled = {}, NEW p \in Process, pc[p] = "open"
    PROVE  Opened \in Inodes /\ Opened # None /\ dest = None
  <1>1. dest = None /\ \A q \in Process : q # p => pc[q] \notin Downloading
    BY DEF DiskInv, DownloadInv, Fresh, Downloading
  <1>2. CASE part # None
    BY <1>1, <1>2, Numbers DEF Opened, DiskInv, DownloadInv, Fresh
  <1>3. CASE part = None
    <2>1. \A q \in Process : fd[q] = None
      BY <1>1 DEF DiskInv, DownloadInv, Shape, Downloading
    <2>2. 1 \in Inodes /\ Free(1)
      BY <1>1, <1>3, <2>1, Numbers DEF Free, DiskInv, None
    <2>3. (CHOOSE i \in Inodes : Free(i)) \in Inodes
      BY <2>2
    <2> QED BY <1>1, <1>3, <2>3, Numbers DEF Opened, DiskInv
  <1> QED BY <1>2, <1>3

LEMMA DownloadInit ==
    ASSUME Assumptions, Init
    PROVE  DownloadInv
  BY Numbers DEF Init, DownloadInv, Shape, Fresh, Place, Downloading, None

(* What a step of p leaves of the others.                                  *)
OthersKept(p) ==
    /\ DOMAIN pc' = Process /\ DOMAIN tries' = Process /\ DOMAIN offset' = Process
    /\ DOMAIN fd' = Process /\ DOMAIN at' = Process /\ DOMAIN body' = Process
    /\ \A q \in Process \ {p} : /\ pc'[q] = pc[q] /\ offset'[q] = offset[q] /\ fd'[q] = fd[q]
                              /\ at'[q] = at[q] /\ body'[q] = body[q]

LEMMA KeepsOthers ==
    ASSUME Shape, NEW p \in Process, NEW step
    PROVE  /\ Goes(p, step) /\ Close(p) => OthersKept(p) /\ pc'[p] = step /\ fd'[p] = None
           /\ Goes(p, step) /\ UNCHANGED client => OthersKept(p) /\ pc'[p] = step /\ fd'[p] = fd[p]
           /\ Fails(p) => OthersKept(p) /\ pc'[p] \in {"stat", "off"} /\ fd'[p] = None
           /\ Obtained(p) => OthersKept(p) /\ pc'[p] \in {"extract", "off"} /\ fd'[p] = None
  BY DEF Shape, Goes, Close, Fails, Obtained, OthersKept, client

(* A step that leaves the disk alone and does not go on with a download:   *)
(* it is none, gives up, asks again, or begins while nobody downloads.     *)
LEMMA MovesOn ==
    ASSUME DiskInv, NEW p \in Process, UNCHANGED <<version, disk>>, OthersKept(p), fd'[p] = None,
           pc'[p] \in Downloading => pc'[p] = "stat",
           spoiled' = {} => spoiled = {},
           spoiled' = {} /\ pc'[p] \in Downloading =>
              \/ pc[p] \in Downloading
              \/ dest = None /\ \A q \in Process : pc[q] \notin Downloading
    PROVE  DownloadInv'
<1>1. Shape'
  BY DEF DiskInv, DownloadInv, Shape, OthersKept, disk
<1>2. ASSUME spoiled' = {} PROVE Fresh'
  <2>1. Fresh /\ UNCHANGED <<version, file, part, dest>>
    BY <1>2 DEF DiskInv, DownloadInv, disk
  <2>2. ASSUME NEW q \in Process PROVE Place(q)'
    <3>1. CASE q = p
      BY <3>1 DEF Place, Downloading
    <3>2. CASE q # p
      BY <2>1, <3>2 DEF Fresh, Place, OthersKept, Prefix
    <3> QED BY <3>1, <3>2
  <2>3. (\A q, r \in Process : pc[q] \in Downloading /\ pc[r] \in Downloading => q = r)'
    BY <1>2, <2>1 DEF Fresh, OthersKept
  <2>4. (dest # None => Whole(file[dest]) /\ \A q \in Process : pc[q] \notin Downloading)'
    <3>1. dest # None => \A q \in Process : pc[q] \notin Downloading
      BY <2>1 DEF Fresh
    <3>2. dest # None => \A q \in Process : pc'[q] \notin Downloading
      BY <1>2, <3>1 DEF OthersKept
    <3> QED BY <2>1, <3>2 DEF Fresh, Whole
  <2>5. (part # None => part \in Inodes /\ part # dest /\ \E n \in 0 .. Length : Prefix(file[part], version, n))'
    BY <2>1 DEF Fresh, Prefix
  <2> QED BY <2>2, <2>3, <2>4, <2>5 DEF Fresh
<1> QED BY <1>1, <1>2 DEF DownloadInv

(* The next step of the downloader that is alone.                          *)
LEMMA GoesOn ==
    ASSUME DiskInv, NEW p \in Process, UNCHANGED <<version, dest>>, OthersKept(p),
           DOMAIN file' = Inodes, pc[p] \in Downloading, pc'[p] \in Downloading,
           fd'[p] # None => pc'[p] \in {"write", "rename"},
           spoiled' = {} => spoiled = {},
           spoiled' = {} => Place(p)',
           spoiled' = {} /\ part' # None =>
              part' \in Inodes /\ \E n \in 0 .. Length : Prefix(file'[part'], version, n)
    PROVE  DownloadInv'
<1>1. Shape'
  BY DEF DiskInv, DownloadInv, Shape, OthersKept
<1>2. ASSUME spoiled' = {} PROVE Fresh'
  <2>1. Fresh /\ spoiled = {}
    BY <1>2 DEF DiskInv, DownloadInv
  <2>2. dest = None /\ \A q \in Process \ {p} : pc[q] \notin Downloading /\ pc'[q] = pc[q]
    BY <2>1 DEF Fresh, OthersKept
  <2>3. ASSUME NEW q \in Process PROVE Place(q)'
    <3>1. CASE q # p
      BY <2>2, <3>1 DEF Place, Downloading
    <3> QED BY <1>2, <3>1
  <2>4. (part # None => part \in Inodes /\ part # dest /\ \E n \in 0 .. Length : Prefix(file[part], version, n))'
    BY <1>2, <2>2, Numbers DEF DiskInv, Prefix
  <2> QED BY <2>2, <2>3, <2>4 DEF Fresh
<1> QED BY <1>1, <1>2 DEF DownloadInv

LEMMA PublishDisk ==
    ASSUME DiskInv, Publish
    PROVE  DownloadInv'
<1>1. Shape'
  BY Numbers DEF DiskInv, DownloadInv, Shape, Publish, disk, client
<1>2. ASSUME spoiled' = {} PROVE Fresh'
  <2>1. /\ spoiled = {} /\ part = None /\ \A q \in Process : pc[q] \notin Downloading
        /\ UNCHANGED <<file, part, dest, pc>>
    BY <1>2 DEF Publish, disk
  <2> QED BY <2>1 DEF DiskInv, DownloadInv, Fresh, Place, Downloading, Whole
<1> QED BY <1>1, <1>2 DEF DownloadInv

LEMMA BeginDisk ==
    ASSUME DiskInv, NEW p \in Process, Begin(p)
    PROVE  DownloadInv'
<1>0. Shape /\ fd[p] = None /\ pc[p] \notin Downloading
  BY DEF Begin, DiskInv, DownloadInv, Shape, Downloading
<1>1. CASE dest # None
  <2>1. OthersKept(p) /\ pc'[p] \in {"extract", "off"} /\ fd'[p] = None
    BY <1>0, <1>1, KeepsOthers DEF Begin
  <2>2. pc'[p] \notin Downloading /\ UNCHANGED <<version, disk, spoiled>>
    BY <1>1, <2>1 DEF Begin, Downloading
  <2> QED BY <2>1, <2>2, MovesOn
<1>2. CASE dest = None
  <2>1. /\ OthersKept(p) /\ pc'[p] = "stat" /\ fd'[p] = None
    BY <1>0, <1>2 DEF Begin, Shape, Goes, OthersKept
  <2>2. /\ UNCHANGED <<version, disk>>
        /\ spoiled' = {} => spoiled = {}
        /\ spoiled' = {} => \A q \in Process : pc[q] \notin Downloading
    BY <1>2 DEF Begin
  <2> QED BY <1>2, <2>1, <2>2, MovesOn
<1> QED BY <1>1, <1>2

LEMMA StatDisk ==
    ASSUME DiskInv, NEW p \in Process, Stat(p)
    PROVE  DownloadInv'
<1>1. /\ OthersKept(p) /\ pc'[p] = "open" /\ fd'[p] = fd[p] /\ fd[p] = None
      /\ offset'[p] = IF part = None THEN 0 ELSE Len(file[part])
      /\ UNCHANGED <<version, file, part, dest, spoiled>> /\ pc[p] = "stat"
  BY DEF Stat, DiskInv, DownloadInv, Shape, Goes, OthersKept, disk
<1>2. Place(p)' /\ pc[p] \in Downloading /\ pc'[p] \in Downloading /\ DOMAIN file' = Inodes
  BY <1>1 DEF Place, Downloading, DiskInv, DownloadInv, Shape
<1>3. spoiled' = {} /\ part' # None =>
         part' \in Inodes /\ \E n \in 0 .. Length : Prefix(file'[part'], version, n)
  BY <1>1 DEF DiskInv, DownloadInv, Fresh
<1> QED BY <1>1, <1>2, <1>3, GoesOn

LEMMA FailsDisk ==
    ASSUME DiskInv, NEW p \in Process, pc[p] \in Downloading, Fails(p),
           UNCHANGED <<version, disk, spoiled>>
    PROVE  DownloadInv'
<1>1. OthersKept(p) /\ pc'[p] \in {"stat", "off"} /\ fd'[p] = None
  BY KeepsOthers DEF DiskInv, DownloadInv
<1> QED BY <1>1, MovesOn DEF Downloading

LEMMA ServesDisk ==
    ASSUME DiskInv, NEW p \in Process, pc[p] = "open", NEW ranged \in BOOLEAN, Serves(p, ranged),
           ranged => offset[p] \in 1 .. Length - 1, UNCHANGED <<version, spoiled>>
    PROVE  DownloadInv'
<1>n. /\ Length \in Nat \ {0} /\ None \notin Inodes /\ version \in Nat
  BY Numbers DEF DiskInv, DownloadInv, Shape
<1>s. Shape
  BY DEF DiskInv, DownloadInv
<1>1. /\ OthersKept(p) /\ pc'[p] = "write" /\ fd'[p] = Opened /\ part' = Opened
      /\ body'[p] = <<version, IF ranged THEN offset[p] + 1 ELSE 1>>
      /\ at'[p] = IF ranged THEN 0 ELSE 1
      /\ dest' = dest /\ DOMAIN file' = Inodes
  BY <1>s DEF Serves, Shape, Goes, OthersKept
<1>2. ASSUME spoiled = {}
      PROVE  /\ Opened \in Inodes /\ Opened # None
             /\ \E n \in 0 .. Length - 1 :
                   Prefix(file'[Opened], version, n) /\ body'[p] = <<version, n + 1>> /\ at'[p] \in {0, n + 1}
  <2>1. Opened \in Inodes /\ Opened # None /\ dest = None
    BY <1>2, OpenedInode
  <2>2. offset[p] = IF part = None THEN 0 ELSE Len(file[part])
    BY <1>2 DEF DiskInv, DownloadInv, Fresh, Place
  <2>3. CASE ranged
    <3>1. part # None /\ file' = file /\ Opened = part /\ offset[p] = Len(file[part])
      BY <2>2, <2>3, <1>n DEF Serves, Opened
    <3>2. PICK n \in 0 .. Length : Prefix(file[part], version, n)
      BY <1>2, <3>1 DEF DiskInv, DownloadInv, Fresh
    <3>3. offset[p] = n /\ n \in 0 .. Length - 1
      BY <2>3, <3>1, <3>2, <1>n, PrefixLen
    <3> QED BY <1>1, <2>1, <2>3, <3>1, <3>2, <3>3
  <2>4. CASE ~ranged
    <3>1. file'[Opened] = <<>>
      BY <2>1, <2>4, <1>s DEF Serves, Shape
    <3>2. Prefix(file'[Opened], version, 0) /\ 0 \in 0 .. Length - 1
      BY <1>n, <3>1, PrefixEmpty
    <3> QED BY <1>1, <2>1, <2>4, <3>2
  <2> QED BY <2>3, <2>4
<1>3. spoiled' = {} => Place(p)'
  BY <1>1, <1>2 DEF Place
<1>4. spoiled' = {} /\ part' # None =>
         part' \in Inodes /\ \E n \in 0 .. Length : Prefix(file'[part'], version, n)
  BY <1>1, <1>2, <1>n
<1> QED BY <1>1, <1>3, <1>4, GoesOn DEF Downloading

LEMMA OpenDisk ==
    ASSUME DiskInv, NEW p \in Process, Open(p)
    PROVE  DownloadInv'
<1>1. pc[p] = "open" /\ UNCHANGED <<version, spoiled>>
  BY DEF Open
<1>2. CASE Serves(p, FALSE)
  BY <1>1, <1>2, ServesDisk
<1>3. CASE offset[p] \in 1 .. Length - 1 /\ Serves(p, TRUE)
  BY <1>1, <1>3, ServesDisk
<1>4. CASE Fails(p) /\ UNCHANGED disk
  BY <1>1, <1>4, FailsDisk DEF Downloading
<1> QED BY <1>2, <1>3, <1>4 DEF Open

LEMMA WriteDisk ==
    ASSUME DiskInv, NEW p \in Process, Write(p)
    PROVE  DownloadInv'
<1>n. Length \in Nat \ {0} /\ None \notin Inodes /\ version \in Nat
  BY Numbers DEF DiskInv, DownloadInv, Shape
<1>s. Shape
  BY DEF DiskInv, DownloadInv
<1>1. /\ OthersKept(p) /\ pc[p] = "write" /\ fd' = fd /\ UNCHANGED <<version, part, dest, spoiled>>
      /\ pc'[p] = IF body[p][2] = Length THEN "rename" ELSE "write"
      /\ DOMAIN file' = Inodes
      /\ at'[p] = IF at[p] = 0 THEN 0 ELSE at[p] + 1
      /\ body[p][2] # Length => body'[p] = <<body[p][1], body[p][2] + 1>>
  BY <1>s DEF Write, Shape, Goes, OthersKept
<1>2. ASSUME spoiled = {}
      PROVE  /\ Place(p)'
             /\ part \in Inodes /\ \E n \in 0 .. Length : Prefix(file'[part], version, n)
  <2>1. PICK n \in 0 .. Length - 1 :
          Prefix(file[part], version, n) /\ body[p] = <<version, n + 1>> /\ at[p] \in {0, n + 1}
    BY <1>1, <1>2 DEF DiskInv, DownloadInv, Fresh, Place
  <2>2. part # None /\ part \in Inodes /\ fd[p] = part
    BY <1>1, <1>2 DEF DiskInv, DownloadInv, Fresh, Place
  <2>3. file'[part] = Put(file[part], at[p], <<version, n + 1>>)
    BY <1>s, <2>1, <2>2 DEF Write, Shape
  <2>4. Prefix(file'[part], version, n + 1) /\ n + 1 \in 0 .. Length
    <3>1. n \in Nat /\ n + 1 \in 0 .. Length
      BY <1>n
    <3>2. Prefix(Put(file[part], at[p], <<version, n + 1>>), version, n + 1)
      BY <1>n, <2>1, <3>1, PrefixNext
    <3> QED BY <2>3, <3>1, <3>2
  <2>5. CASE n + 1 = Length
    BY <1>1, <2>1, <2>2, <2>4, <2>5 DEF Place
  <2>6. CASE n + 1 # Length
    <3>1. n + 1 \in 0 .. Length - 1 /\ at'[p] \in {0, n + 2} /\ body'[p] = <<version, n + 2>>
      BY <1>1, <1>n, <2>1, <2>6
    <3>2. pc'[p] = "write"
      BY <1>1, <2>1, <2>6
    <3>3. (\E m \in 0 .. Length - 1 :
              Prefix(file[part], version, m) /\ body[p] = <<version, m + 1>> /\ at[p] \in {0, m + 1})'
      BY <1>1, <2>4, <3>1
    <3> QED BY <1>1, <2>2, <2>4, <3>2, <3>3 DEF Place
  <2> QED BY <2>5, <2>6
<1>3. fd'[p] # None => pc'[p] \in {"write", "rename"}
  BY <1>1
<1>4. spoiled' = {} => Place(p)'
  BY <1>1, <1>2
<1>5. spoiled' = {} /\ part' # None =>
         part' \in Inodes /\ \E n \in 0 .. Length : Prefix(file'[part'], version, n)
  BY <1>1, <1>2
<1> QED BY <1>1, <1>3, <1>4, <1>5, GoesOn DEF Downloading

LEMMA RenameDisk ==
    ASSUME DiskInv, NEW p \in Process, Rename(p)
    PROVE  DownloadInv'
<1>s. Shape /\ pc[p] = "rename" /\ UNCHANGED <<version, spoiled>>
  BY DEF DiskInv, DownloadInv, Rename
<1>1. CASE part = None
  BY <1>1, <1>s, FailsDisk DEF Rename, Downloading, disk
<1>2. CASE part # None
  <2>1. /\ OthersKept(p) /\ pc'[p] \in {"extract", "off"} /\ fd'[p] = None
        /\ dest' = part /\ part' = None /\ file' = file
    BY <1>2, <1>s, KeepsOthers DEF Rename
  <2>2. Shape'
    BY <1>s, <2>1 DEF Shape, OthersKept
  <2>3. ASSUME spoiled' = {} PROVE Fresh'
    <3>1. Fresh /\ spoiled = {}
      BY <1>s, <2>3 DEF DiskInv, DownloadInv
    <3>2. Whole(file[part])
      BY <1>s, <3>1, PrefixWhole DEF Fresh, Place, Shape
    <3>3. \A q \in Process : pc'[q] \notin Downloading
      BY <1>s, <2>1, <3>1 DEF Fresh, OthersKept, Downloading
    <3>4. Whole(file'[dest'])
      BY <2>1, <3>2
    <3> QED BY <2>1, <3>3, <3>4 DEF Fresh, Place, Downloading
  <2> QED BY <2>2, <2>3 DEF DownloadInv
<1> QED BY <1>1, <1>2

LEMMA CutDisk ==
    ASSUME DiskInv, NEW p \in Process, Cut(p)
    PROVE  DownloadInv'
<1>1. spoiled' # {}
  BY DEF Cut
<1>2. Shape'
  BY DEF DiskInv, DownloadInv, Shape, Cut, Goes, disk, client
<1> QED BY <1>1, <1>2 DEF DownloadInv

LEMMA KillDisk ==
    ASSUME DiskInv, NEW p \in Process, Kill(p)
    PROVE  DownloadInv'
<1>1. OthersKept(p) /\ pc'[p] = "off" /\ fd'[p] = None
  BY KeepsOthers DEF Kill, DiskInv, DownloadInv
<1> QED BY <1>1, MovesOn DEF Kill, Downloading

LEMMA PrepareDisk ==
    ASSUME DiskInv, NEW p \in Process, Prepare(p)
    PROVE  DownloadInv'
<1>1. /\ UNCHANGED <<version, disk, client, spoiled>>
      /\ pc' = pc \/ \E step \in {"off", "derive", "expand", "unpack", "mark", "mark nested"} : Goes(p, step)
      /\ pc[p] \notin Downloading
  BY DEF Downloading, Prepare, Extract, Unpack, Mark, Expand, MarkNested, PreStaged, Derive
<1>2. Shape /\ fd[p] = None
  BY <1>1 DEF DiskInv, DownloadInv, Shape, Downloading
<1>3. CASE pc' = pc
  BY <1>1, <1>2, <1>3, MovesOn DEF Shape, OthersKept, client
<1>4. ASSUME NEW step \in {"off", "derive", "expand", "unpack", "mark", "mark nested"}, Goes(p, step)
      PROVE  DownloadInv'
  <2>1. OthersKept(p) /\ pc'[p] = step /\ fd'[p] = None
    BY <1>1, <1>2, <1>4, KeepsOthers
  <2> QED BY <1>1, <1>4, <2>1, MovesOn DEF Downloading
<1> QED BY <1>1, <1>3, <1>4

LEMMA DownloadStep ==
    ASSUME DiskInv, [Next]_vars
    PROVE  DiskInv'
<1>1. ASSUME NEW p \in Process, Break(p) PROVE DownloadInv'
  BY <1>1, FailsDisk DEF Break, Downloading
<1>2. ASSUME NEW p \in Process, Download(p) PROVE DownloadInv'
  BY <1>2, BeginDisk, StatDisk, OpenDisk, WriteDisk, RenameDisk DEF Download
<1>3. CASE UNCHANGED vars
  <2>1. UNCHANGED <<version, file, part, dest, pc, tries, offset, fd, at, body, spoiled>>
    BY <1>3 DEF vars, disk, client
  <2>2. Shape'
    BY <2>1 DEF DiskInv, DownloadInv, Shape
  <2>3. ASSUME spoiled' = {} PROVE Fresh'
    <3>1. Fresh
      BY <2>1, <2>3 DEF DiskInv, DownloadInv
    <3>2. ASSUME NEW q \in Process PROVE Place(q)'
      BY <2>1, <3>1 DEF Fresh, Place, Prefix
    <3>3. (dest # None => Whole(file[dest]) /\ \A q \in Process : pc[q] \notin Downloading)'
      BY <2>1, <3>1 DEF Fresh, Whole
    <3>4. (part # None => part \in Inodes /\ part # dest /\ \E n \in 0 .. Length : Prefix(file[part], version, n))'
      BY <2>1, <3>1 DEF Fresh, Prefix
    <3> QED BY <2>1, <3>1, <3>2, <3>3, <3>4 DEF Fresh
  <2> QED BY <2>2, <2>3 DEF DownloadInv, DiskInv
<1> QED BY <1>1, <1>2, <1>3, PublishDisk, CutDisk, KillDisk, PrepareDisk DEF Next, ProcessStep, DiskInv

(* Whatever is killed, broken off and resumed, a file that bears the final *)
(* name is the whole of one version, unless two processes downloaded at    *)
(* once, an answer was cut short, or the source changed under a download   *)
(* (core.py:68-83).                                                        *)
THEOREM UndisturbedIsWhole == Assumptions /\ Spec => []ArtifactIsWhole
<1>1. Assumptions /\ Init => DiskInv
  BY DownloadInit DEF DiskInv
<1>2. DiskInv /\ [Next]_vars => DiskInv'
  BY DownloadStep
<1>3. DiskInv => ArtifactIsWhole
  BY DEF DiskInv, DownloadInv, Fresh, ArtifactIsWhole
<1> QED BY <1>1, <1>2, <1>3, PTL DEF Spec

-----------------------------------------------------------------------------
(* The tree.  A process that extracts has the lock; nobody does once the   *)
(* tree is ready; and a copied artifact has been spoiled.                  *)
TreeGood == tree = "whole" \/ (tree = "copied" /\ spoiled # {})

(* Where an extraction is.                                                 *)
Stands(p) ==
    /\ pc[p] \in Extracting => lock = p /\ dest # None
    /\ pc[p] = "extract" => dest # None
    /\ pc[p] = "unpack" => ~marker
    /\ pc[p] = "mark" => ~marker /\ TreeGood
    /\ pc[p] \in {"expand", "mark nested"} => marker /\ Archives > 0 /\ nested_marker = FALSE
    /\ pc[p] = "mark nested" /\ tree = "whole" => expanded = Archives
    /\ pc[p] = "derive" => Ready

TreeInv ==
    /\ marker \in BOOLEAN /\ nested_marker \in BOOLEAN
    /\ expanded \in 0 .. Archives
    /\ ~marker => expanded = 0
    /\ marker => TreeGood
    /\ nested_marker => marker /\ Archives > 0 /\ (tree = "whole" => expanded = Archives)
    /\ \A p \in Process : Stands(p)

AllInv == DiskInv /\ TreeInv

(* A step that leaves the tree as it is, and the lock to whoever has it.   *)
LEMMA StandsStill ==
    ASSUME AllInv, NEW p \in Process, OthersKept(p), UNCHANGED <<tree, expanded, marker, nested_marker>>,
           \A q \in Process \ {p} : lock = q => lock' = q,
           dest # None => dest' # None, spoiled # {} => spoiled' # {}, Stands(p)'
    PROVE  TreeInv'
<1>1. ASSUME NEW q \in Process PROVE Stands(q)'
  <2>1. CASE q = p
    BY <2>1
  <2>2. CASE q # p
    <3>1. pc'[q] = pc[q] /\ Stands(q)
      BY <2>2 DEF AllInv, TreeInv, OthersKept
    <3>2. (Ready => Ready') /\ (TreeGood => TreeGood') /\ (lock = q => lock' = q)
      BY <2>2 DEF Ready, TreeGood
    <3> QED BY <3>1, <3>2 DEF Stands
  <2> QED BY <2>1, <2>2
<1> QED BY <1>1 DEF AllInv, TreeInv, TreeGood

(* While a process extracts, nobody else does, and nobody derives.         *)
LEMMA ExtractsAlone ==
    ASSUME AllInv, NEW p \in Process, pc[p] \in Extracting
    PROVE  /\ lock = p /\ ~Ready /\ dest # None
           /\ \A q \in Process \ {p} : pc[q] \notin Extracting /\ pc[q] # "derive"
<1>1. Stands(p) /\ \A q \in Process : Stands(q)
  BY DEF AllInv, TreeInv
<1>2. lock = p /\ dest # None
  BY <1>1 DEF Stands
<1>3. ~Ready
  BY <1>1 DEF Stands, Ready, Extracting
<1> QED BY <1>1, <1>2, <1>3 DEF Stands

(* The steps of the holder of the lock, who may keep it or let go of it.   *)
LEMMA HolderMoves ==
    ASSUME AllInv, NEW p \in Process, pc[p] \in Extracting, OthersKept(p), UNCHANGED <<dest, spoiled>>,
           Stands(p)'
    PROVE  \A q \in Process : Stands(q)'
<1>1. ASSUME NEW q \in Process \ {p} PROVE Stands(q)'
  <2>1. pc'[q] = pc[q] /\ Stands(q) /\ pc[q] \notin Extracting /\ pc[q] # "derive"
    BY ExtractsAlone DEF AllInv, TreeInv, OthersKept
  <2> QED BY <2>1 DEF Stands, Extracting
<1> QED BY <1>1

LEMMA DownloadMoves ==
    ASSUME AllInv, NEW p \in Process, Download(p) \/ Cut(p) \/ Break(p)
    PROVE  /\ OthersKept(p) /\ UNCHANGED out
           /\ pc'[p] \in {"extract", "off"} \cup Downloading
           /\ pc'[p] = "extract" => dest' # None
           /\ dest # None => dest' # None
           /\ spoiled # {} => spoiled' # {}
<1>s. Shape
  BY DEF AllInv, DiskInv, DownloadInv
<1>1. CASE Begin(p)
  BY <1>s, <1>1, KeepsOthers DEF Begin, disk, Shape, OthersKept, Goes, Downloading
<1>2. CASE Stat(p)
  BY <1>s, <1>2 DEF Stat, disk, Shape, OthersKept, Goes, Downloading
<1>3. CASE Open(p)
  <2>1. pc[p] = "open" /\ UNCHANGED <<out, spoiled>>
    BY <1>3 DEF Open
  <2>2. ASSUME NEW ranged \in BOOLEAN, Serves(p, ranged)
        PROVE  OthersKept(p) /\ pc'[p] = "write" /\ dest' = dest
    BY <1>s, <2>2 DEF Serves, Shape, Goes, OthersKept
  <2>3. CASE Fails(p) /\ UNCHANGED disk
    BY <1>s, <2>3, <2>1, KeepsOthers DEF disk, Downloading
  <2> QED BY <1>3, <2>1, <2>2, <2>3 DEF Open, Downloading
<1>4. CASE Write(p)
  BY <1>s, <1>4 DEF Write, Shape, OthersKept, Goes, Downloading
<1>5. CASE Rename(p)
  BY <1>s, <1>5, KeepsOthers DEF Rename, Downloading
<1>6. CASE Cut(p)
  BY <1>s, <1>6 DEF Cut, disk, client, Shape, OthersKept, Goes, Downloading
<1>7. CASE Break(p)
  BY <1>s, <1>7, KeepsOthers DEF Break, disk, Downloading
<1> QED BY <1>1, <1>2, <1>3, <1>4, <1>5, <1>6, <1>7 DEF Download

LEMMA TreeStep ==
    ASSUME AllInv, [Next]_vars
    PROVE  TreeInv'
<1>0. /\ DiskInv /\ TreeInv /\ Shape /\ Archives \in Nat /\ None \notin Process
      /\ marker \in BOOLEAN /\ nested_marker \in BOOLEAN /\ expanded \in 0 .. Archives
  BY Numbers DEF AllInv, DiskInv, DownloadInv, TreeInv
<1>1. CASE Publish
  <2>1. /\ UNCHANGED <<dest, pc, lock, tree, expanded, marker, nested_marker>>
        /\ spoiled # {} => spoiled' # {}
    BY <1>1 DEF Publish, disk, out
  <2>2. ASSUME NEW q \in Process PROVE Stands(q)'
    BY <1>0, <2>1 DEF TreeInv, Stands, TreeGood, Ready
  <2> QED BY <1>0, <2>1, <2>2 DEF TreeInv, TreeGood
<1>2. ASSUME NEW p \in Process, Download(p) \/ Cut(p) \/ Break(p) PROVE TreeInv'
  <2>1. /\ OthersKept(p) /\ UNCHANGED <<lock, tree, expanded, marker, nested_marker>>
        /\ pc'[p] \in {"extract", "off"} \cup Downloading
        /\ pc'[p] = "extract" => dest' # None
        /\ dest # None => dest' # None
        /\ spoiled # {} => spoiled' # {}
    BY <1>2, DownloadMoves DEF out
  <2>2. Stands(p)'
    BY <2>1 DEF Stands, Extracting, Downloading
  <2> QED BY <2>1, <2>2, StandsStill
<1>3. ASSUME NEW p \in Process, Extract(p) PROVE TreeInv'
  <2>1. /\ pc[p] = "extract" /\ lock = None /\ dest # None
        /\ UNCHANGED <<dest, tree, expanded, marker, nested_marker, spoiled>> /\ OthersKept(p)
    BY <1>0, <1>3, KeepsOthers DEF Extract, disk, TreeInv, Stands, Goes, OthersKept, Shape, client
  <2>2. CASE Ready
    <3>1. pc'[p] = "derive" /\ lock' = lock
      BY <1>0, <1>3, <2>2 DEF Extract, Goes, Shape
    <3>2. Stands(p)'
      BY <2>1, <2>2, <3>1 DEF Stands, Extracting, Ready
    <3> QED BY <2>1, <3>1, <3>2, StandsStill
  <2>3. CASE ~Ready
    <3>1. pc'[p] = (IF marker THEN "expand" ELSE "unpack") /\ lock' = p
      BY <1>0, <1>3, <2>3 DEF Extract, Goes, Shape
    <3>2. Stands(p)'
      BY <1>0, <2>1, <2>3, <3>1 DEF Stands, Extracting, Ready
    <3> QED BY <1>0, <2>1, <3>2, StandsStill
  <2> QED BY <2>2, <2>3
<1>4. ASSUME NEW p \in Process, Unpack(p) PROVE TreeInv'
  <2>1. pc[p] = "unpack" /\ pc[p] \in Extracting /\ lock = p /\ dest # None /\ ~marker
    BY <1>0, <1>4 DEF Unpack, Extracting, TreeInv, Stands
  <2>2. /\ OthersKept(p) /\ UNCHANGED <<dest, spoiled, expanded, marker, nested_marker>>
        /\ \/ pc'[p] = "mark" /\ lock' = p /\ (tree' = "whole" \/ (tree' = "copied" /\ ~Whole(file[dest])))
           \/ pc'[p] = "off"
    BY <1>0, <1>4, <2>1 DEF Unpack, Goes, Shape, OthersKept, disk, client
  <2>3. ~Whole(file[dest]) => spoiled # {}
    BY <1>0, <2>1 DEF DiskInv, DownloadInv, Fresh
  <2>4. Stands(p)'
    BY <2>1, <2>2, <2>3 DEF Stands, Extracting, TreeGood
  <2>5. \A q \in Process : Stands(q)'
    BY <2>1, <2>2, <2>4, HolderMoves
  <2> QED BY <1>0, <2>1, <2>2, <2>5 DEF TreeInv
<1>5. ASSUME NEW p \in Process, Mark(p) PROVE TreeInv'
  <2>1. pc[p] \in Extracting /\ lock = p /\ dest # None /\ ~marker /\ TreeGood /\ ~nested_marker
    BY <1>0, <1>5 DEF Mark, Extracting, TreeInv, Stands
  <2>2. /\ OthersKept(p) /\ UNCHANGED <<dest, spoiled, tree, expanded, nested_marker>> /\ marker' = TRUE
        /\ \/ Archives > 0 /\ pc'[p] = "expand" /\ lock' = p
           \/ ~(Archives > 0) /\ pc'[p] = "derive"
    BY <1>0, <1>5, <2>1 DEF Mark, Goes, Shape, OthersKept, disk, client
  <2>3. TreeGood'
    BY <2>1, <2>2 DEF TreeGood
  <2>4. Stands(p)'
    BY <1>0, <2>1, <2>2 DEF Stands, Extracting, Ready
  <2>5. \A q \in Process : Stands(q)'
    BY <2>1, <2>2, <2>4, HolderMoves
  <2> QED BY <1>0, <2>1, <2>2, <2>3, <2>5 DEF TreeInv
<1>6. ASSUME NEW p \in Process, Expand(p) PROVE TreeInv'
  <2>1. /\ pc[p] \in Extracting /\ pc[p] = "expand" /\ lock = p /\ dest # None
        /\ marker /\ Archives > 0 /\ nested_marker = FALSE /\ TreeGood
    BY <1>0, <1>6 DEF Expand, Extracting, TreeInv, Stands
  <2>2. /\ OthersKept(p) /\ UNCHANGED <<dest, lock, spoiled, tree, marker, nested_marker>>
        /\ \/ Pending > 0 /\ expanded' = expanded + 1 /\ pc'[p] = "expand"
           \/ ~(Pending > 0) /\ expanded' = expanded /\ pc'[p] = "mark nested"
    BY <1>0, <1>6, <2>1 DEF Expand, Goes, Shape, OthersKept, disk, client
  <2>3. TreeGood'
    BY <2>1, <2>2 DEF TreeGood
  <2>4. /\ expanded' \in 0 .. Archives
        /\ pc'[p] = "mark nested" /\ tree = "whole" => expanded' = Archives
    <3>1. Pending = IF tree = "copied" THEN 0 ELSE Archives - expanded
      BY DEF Pending
    <3>0. Archives \in Nat /\ expanded \in 0 .. Archives /\ tree' = tree
      BY <1>0, <2>2
    <3>2. CASE Pending > 0 /\ expanded' = expanded + 1 /\ pc'[p] = "expand"
      BY <3>0, <3>1, <3>2
    <3>3. CASE ~(Pending > 0) /\ expanded' = expanded /\ pc'[p] = "mark nested"
      <4>1. CASE tree = "whole"
        <5>1. ~(Archives - expanded > 0)
          BY <3>1, <3>3, <4>1
        <5>2. expanded = Archives
          BY <3>0, <5>1
        <5> QED BY <3>0, <3>3, <5>2
      <4>2. CASE tree # "whole"
        BY <3>0, <3>3, <4>2
      <4> QED BY <4>1, <4>2
    <3> QED BY <2>2, <3>2, <3>3
  <2>5. Stands(p)'
    BY <1>0, <2>1, <2>2, <2>4 DEF Stands, Extracting
  <2>6. \A q \in Process : Stands(q)'
    BY <2>1, <2>2, <2>5, HolderMoves
  <2> QED BY <1>0, <2>1, <2>2, <2>3, <2>4, <2>6 DEF TreeInv
<1>7. ASSUME NEW p \in Process, MarkNested(p) PROVE TreeInv'
  <2>1. /\ pc[p] \in Extracting /\ lock = p /\ marker /\ Archives > 0 /\ TreeGood
        /\ tree = "whole" => expanded = Archives
    BY <1>0, <1>7 DEF MarkNested, Extracting, TreeInv, Stands
  <2>2. /\ OthersKept(p) /\ UNCHANGED <<dest, spoiled, tree, expanded, marker>> /\ nested_marker' = TRUE
        /\ pc'[p] = "derive"
    BY <1>0, <1>7, <2>1 DEF MarkNested, Goes, Shape, OthersKept, disk, client
  <2>3. TreeGood' /\ Stands(p)'
    BY <2>1, <2>2 DEF TreeGood, Stands, Extracting, Ready
  <2>4. \A q \in Process : Stands(q)'
    BY <2>1, <2>2, <2>3, HolderMoves
  <2> QED BY <1>0, <2>1, <2>2, <2>3, <2>4 DEF TreeInv
<1>8. ASSUME NEW p \in Process, PreStaged(p) \/ Derive(p) PROVE TreeInv'
  <2>1. /\ OthersKept(p) /\ UNCHANGED <<dest, lock, tree, expanded, marker, nested_marker, spoiled>>
        /\ pc'[p] = "off" \/ (pc'[p] = "derive" /\ Ready)
    BY <1>0, <1>8 DEF PreStaged, Derive, Goes, Shape, OthersKept, disk, client, out
  <2>2. Stands(p)'
    BY <2>1 DEF Stands, Extracting, Ready
  <2> QED BY <2>1, <2>2, StandsStill
<1>9. ASSUME NEW p \in Process, Kill(p) PROVE TreeInv'
  <2>1. /\ OthersKept(p) /\ pc'[p] = "off" /\ UNCHANGED <<dest, expanded, marker, nested_marker, spoiled>>
        /\ lock' = IF lock = p THEN None ELSE lock
        /\ tree' = IF pc[p] = "unpack" THEN "torn" ELSE tree
    BY <1>0, <1>9, KeepsOthers DEF Kill, disk
  <2>2. Stands(p)'
    BY <2>1 DEF Stands, Extracting
  <2>3. CASE pc[p] = "unpack"
    <3>1. pc[p] \in Extracting /\ ~marker
      BY <1>0, <2>3 DEF Extracting, TreeInv, Stands
    <3>2. \A q \in Process : Stands(q)'
      BY <2>1, <2>2, <3>1, HolderMoves
    <3> QED BY <1>0, <2>1, <3>1, <3>2 DEF TreeInv
  <2>4. CASE pc[p] # "unpack"
    BY <2>1, <2>2, <2>4, StandsStill
  <2> QED BY <2>3, <2>4
<1>10. CASE UNCHANGED vars
  <2>1. UNCHANGED <<dest, pc, lock, tree, expanded, marker, nested_marker, spoiled>>
    BY <1>10 DEF vars, disk, out
  <2>2. ASSUME NEW q \in Process PROVE Stands(q)'
    BY <1>0, <2>1 DEF TreeInv, Stands, TreeGood, Ready
  <2> QED BY <1>0, <2>1, <2>2 DEF TreeInv, TreeGood
<1> QED BY <1>1, <1>2, <1>3, <1>4, <1>5, <1>6, <1>7, <1>8, <1>9, <1>10 DEF Next, ProcessStep, Prepare

LEMMA TreeInit ==
    ASSUME Assumptions, Init
    PROVE  TreeInv
<1>1. Archives \in Nat
  BY Numbers
<1>2. ASSUME NEW p \in Process PROVE Stands(p)
  BY <1>2 DEF Init, Stands, Extracting
<1>3. expanded = 0 /\ 0 \in 0 .. Archives
  BY <1>1 DEF Init
<1>4. marker = FALSE /\ nested_marker = FALSE
  BY DEF Init
<1> QED BY <1>2, <1>3, <1>4 DEF TreeInv

LEMMA AllStep ==
    ASSUME AllInv, [Next]_vars
    PROVE  AllInv'
  BY DownloadStep, TreeStep DEF AllInv

(* No worker derives from a tree that is still being made: by then every   *)
(* nested archive is expanded, unless the artifact was no archive, which   *)
(* only a spoiled download leaves (core.py:116-138, distributed.py:122).   *)
THEOREM DerivedFromWhole == Assumptions /\ Spec => []DerivesFromWholeTree
<1>1. Assumptions /\ Init => AllInv
  BY DownloadInit, TreeInit DEF AllInv, DiskInv
<1>2. AllInv /\ [Next]_vars => AllInv'
  BY AllStep
<1>3. AllInv => DerivesFromWholeTree
  <2> SUFFICES ASSUME AllInv, NEW p \in Process, pc[p] = "derive"
               PROVE  \/ tree = "whole" /\ expanded = Archives
                      \/ tree = "copied" /\ spoiled # {}
    BY DEF DerivesFromWholeTree
  <2>1. Ready /\ TreeInv /\ Archives \in Nat
    BY Numbers DEF AllInv, TreeInv, Stands, DiskInv
  <2> QED BY <2>1 DEF TreeInv, Ready, TreeGood
<1> QED BY <1>1, <1>2, <1>3, PTL DEF Spec

(* What a worker derives from stays as it is while others come and go:     *)
(* whoever finds the markers makes nothing, and whoever makes holds the    *)
(* lock before them (core.py:116-138).                                     *)
THEOREM ReadyIsFinal == Assumptions /\ Spec => ReadyTreeStays
<1>1. Assumptions /\ Init => AllInv
  BY DownloadInit, TreeInit DEF AllInv, DiskInv
<1>2. AllInv /\ [Next]_vars => AllInv'
  BY AllStep
<1>3. AllInv /\ [Next]_vars => [Ready => Ready' /\ tree' = tree /\ expanded' = expanded]_vars
  <2> SUFFICES ASSUME AllInv, Next, Ready PROVE Ready' /\ UNCHANGED <<tree, expanded>>
    OBVIOUS
  <2>0. \A p \in Process : pc[p] \notin Extracting
    BY ExtractsAlone
  <2>1. CASE Publish
    BY <2>1 DEF Publish, out, Ready
  <2>2. ASSUME NEW p \in Process, Download(p) \/ Cut(p) \/ Break(p) PROVE Ready' /\ UNCHANGED <<tree, expanded>>
    BY <2>2, DownloadMoves DEF out, Ready
  <2>3. ASSUME NEW p \in Process, Prepare(p) PROVE Ready' /\ UNCHANGED <<tree, expanded>>
    BY <2>0, <2>3 DEF Prepare, Extract, Unpack, Mark, Expand, MarkNested, PreStaged, Derive, out, Extracting, Ready
  <2>4. ASSUME NEW p \in Process, Kill(p) PROVE Ready' /\ UNCHANGED <<tree, expanded>>
    BY <2>0, <2>4 DEF Kill, Extracting, Ready
  <2> QED BY <2>1, <2>2, <2>3, <2>4 DEF Next, ProcessStep
<1> QED BY <1>1, <1>2, <1>3, PTL DEF Spec, ReadyTreeStays
=============================================================================
