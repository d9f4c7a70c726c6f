---------------------------- MODULE Acquisition ----------------------------
(***************************************************************************)
(* How one source comes to a corpus root: download() with its resumable    *)
(* .part file, extract() under its lock, and the workers that derive from  *)
(* the tree.  Several processes do this on one root: prefetch, which only  *)
(* downloads; builds, which go on to extract and derive; and workers that  *)
(* extract what has been downloaded, or find even that done, and derive.   *)
(*                                                                         *)
(* Nothing locks a download.  A name stands for an inode, and a process    *)
(* writes to the inode it has opened whatever its name is by then.         *)
(***************************************************************************)
EXTENDS Integers, Sequences, FiniteSets

CONSTANTS Fetchers,      \* processes that only download (prefetch)
          Builders,      \* processes that download, extract and derive (run)
          Workers,       \* processes that extract and derive (shard)
          Length,        \* pieces of the artifact
          Archives,      \* archives nested in it (0 unless the source is gigamidi)
          Attempts,      \* requests of one download() before it fails
          MaxFaults,     \* bound: connections that break or are cut short
          MaxKills, MaxVersion  \* bounds: kills, versions at the source

Downloaders == Fetchers \cup Builders
Derivers    == Builders \cup Workers
Process     == Downloaders \cup Workers
Inodes  == 1 .. Cardinality(Process) + 2
None    == 0

ASSUME ProcessAssumption ==
    /\ Fetchers \cap Derivers = {} /\ Builders \cap Workers = {}
    /\ IsFiniteSet(Process) /\ None \notin Process
ASSUME LengthAssumption == {Length, Attempts, MaxVersion} \subseteq Nat \ {0} /\ Archives \in Nat
ASSUME BoundAssumption == {MaxFaults, MaxKills} \subseteq Nat

VARIABLES
    version,   \* the version the source serves
    file,      \* file[i]: pieces of inode i, each <<version, index>>
    part, dest,            \* the inodes that have the two names, or None
    pc, tries, offset,     \* of each process: step, request, size of the .part
    fd, at, body,          \* inode it writes, position there (0 appends), next piece
    lock,      \* the process that holds the extraction lock, or None
    tree,      \* what the outer archive left: "empty", "torn", "whole", "copied"
    expanded,  \* nested archives whose expansion is marked
    marker, nested_marker, \* the two readiness markers
    derived,   \* the processes that have derived
    spoiled,   \* why a download may have gone wrong
    faults, kills

disk   == <<file, part, dest>>
client == <<tries, offset, fd, at, body>>
out    == <<lock, tree, expanded, marker, nested_marker, derived>>
bounds == <<faults, kills>>
vars   == <<version, disk, pc, client, out, spoiled, bounds>>

Whole(f) == \E v \in 1 .. MaxVersion : f = [i \in 1 .. Length |-> <<v, i>>]

Downloading == {"stat", "open", "write", "rename"}
Extracting  == {"unpack", "mark", "expand", "mark nested"}

-----------------------------------------------------------------------------
Init ==
    /\ version = 1
    /\ file = [i \in Inodes |-> <<>>] /\ part = None /\ dest = None
    /\ pc = [p \in Process |-> "off"]
    /\ tries = [p \in Process |-> 0] /\ offset = [p \in Process |-> 0]
    /\ fd = [p \in Process |-> None] /\ at = [p \in Process |-> 0]
    /\ body = [p \in Process |-> <<1, 1>>]
    /\ lock = None /\ tree = "empty" /\ expanded = 0
    /\ marker = FALSE /\ nested_marker = FALSE /\ derived = {}
    /\ spoiled = {} /\ faults = 0 /\ kills = 0

Goes(p, step) == pc' = [pc EXCEPT ![p] = step]

Close(p) == /\ tries' = [tries EXCEPT ![p] = 0] /\ offset' = [offset EXCEPT ![p] = 0]
            /\ fd' = [fd EXCEPT ![p] = None] /\ at' = [at EXCEPT ![p] = 0]
            /\ body' = [body EXCEPT ![p] = <<1, 1>>]

(* The source publishes another version.                                   *)
Publish ==
    /\ version < MaxVersion
    /\ version' = version + 1
    /\ spoiled' = IF part # None \/ \E p \in Process : pc[p] \in Downloading
                  THEN spoiled \cup {"changed"} ELSE spoiled
    /\ UNCHANGED <<disk, pc, client, out, bounds>>

-----------------------------------------------------------------------------
(* download().                                                             *)

Obtained(p) == Goes(p, IF p \in Derivers THEN "extract" ELSE "off") /\ Close(p)

(* An artifact that exists is not looked at; without one a worker fails.   *)
Begin(p) ==
    /\ pc[p] = "off" /\ p \notin derived
    /\ IF dest # None
       THEN Obtained(p) /\ UNCHANGED spoiled
       ELSE /\ p \in Downloaders
            /\ Goes(p, "stat")
            /\ tries' = [tries EXCEPT ![p] = 1] /\ UNCHANGED <<offset, fd, at, body>>
            /\ spoiled' = IF \E q \in Process : pc[q] \in Downloading
                          THEN spoiled \cup {"shared"} ELSE spoiled
    /\ UNCHANGED <<version, disk, out, bounds>>

Stat(p) ==
    /\ pc[p] = "stat"
    /\ offset' = [offset EXCEPT ![p] = IF part = None THEN 0 ELSE Len(file[part])]
    /\ Goes(p, "open")
    /\ UNCHANGED <<version, disk, tries, fd, at, body, out, spoiled, bounds>>

(* The request failed: try again, or give up.  The retry does not look     *)
(* whether the artifact has come by other hands.                           *)
Fails(p) ==
    IF tries[p] < Attempts
    THEN /\ Goes(p, "stat")
         /\ tries' = [tries EXCEPT ![p] = @ + 1]
         /\ offset' = [offset EXCEPT ![p] = 0] /\ fd' = [fd EXCEPT ![p] = None]
         /\ at' = [at EXCEPT ![p] = 0] /\ body' = [body EXCEPT ![p] = <<1, 1>>]
    ELSE Goes(p, "off") /\ Close(p)

Free(i) == i \notin {part, dest} /\ \A p \in Process : fd[p] # i

Opened == IF part # None THEN part ELSE CHOOSE i \in Inodes : Free(i)

(* Mutation: what a ranged answer brings replaces the .part.               *)
ServesOver(p, ranged) ==
    /\ part' = Opened
    /\ fd' = [fd EXCEPT ![p] = Opened]
    /\ file' = [file EXCEPT ![Opened] = <<>>]
    /\ at' = [at EXCEPT ![p] = 1]
    /\ body' = [body EXCEPT ![p] = <<version, IF ranged THEN offset[p] + 1 ELSE 1>>]
    /\ Goes(p, "write")
    /\ UNCHANGED <<dest, tries, offset>>

(* The answer begins at the offset and is appended, or, from a server that *)
(* knows no ranges or when there was no .part, replaces what is there.     *)
Serves(p, ranged) ==
    /\ part' = Opened
    /\ fd' = [fd EXCEPT ![p] = Opened]
    /\ file' = IF ranged /\ part # None THEN file ELSE [file EXCEPT ![Opened] = <<>>]
    /\ at' = [at EXCEPT ![p] = IF ranged THEN 0 ELSE 1]
    /\ body' = [body EXCEPT ![p] = <<version, IF ranged THEN offset[p] + 1 ELSE 1>>]
    /\ Goes(p, "write")
    /\ UNCHANGED <<dest, tries, offset>>

(* A range behind the last byte is an error.                               *)
Open(p) ==
    /\ pc[p] = "open"
    /\ \/ Serves(p, FALSE)
       \/ offset[p] \in 1 .. Length - 1 /\ Serves(p, TRUE)
       \/ offset[p] >= Length /\ Fails(p) /\ UNCHANGED disk
    /\ UNCHANGED <<version, out, spoiled, bounds>>

(* One piece arrives.  A write behind the end of a file that another       *)
(* process has truncated leaves a hole.                                    *)
Put(f, k, piece) ==
    IF k = 0 THEN Append(f, piece)
    ELSE [i \in 1 .. (IF Len(f) < k THEN k ELSE Len(f)) |->
             IF i = k THEN piece ELSE IF i <= Len(f) THEN f[i] ELSE <<0, 0>>]

Write(p) ==
    /\ pc[p] = "write"
    /\ file' = [file EXCEPT ![fd[p]] = Put(@, at[p], body[p])]
    /\ at' = [at EXCEPT ![p] = IF @ = 0 THEN 0 ELSE @ + 1]
    /\ IF body[p][2] = Length
       THEN Goes(p, "rename") /\ UNCHANGED body
       ELSE body' = [body EXCEPT ![p] = <<@[1], @[2] + 1>>] /\ UNCHANGED pc
    /\ UNCHANGED <<version, part, dest, tries, offset, fd, out, spoiled, bounds>>

(* The connection is cut: an answer that ends early is no error.           *)
Cut(p) ==
    /\ pc[p] = "write" /\ faults < MaxFaults
    /\ faults' = faults + 1
    /\ spoiled' = spoiled \cup {"cut"}
    /\ Goes(p, "rename")
    /\ UNCHANGED <<version, disk, client, out, kills>>

(* The connection breaks, or times out.                                    *)
Break(p) ==
    /\ pc[p] \in {"open", "write"} /\ faults < MaxFaults
    /\ faults' = faults + 1
    /\ Fails(p)
    /\ UNCHANGED <<version, disk, out, spoiled, kills>>

(* Whatever is named .part now becomes the artifact.                       *)
Rename(p) ==
    /\ pc[p] = "rename"
    /\ IF part # None
       THEN dest' = part /\ part' = None /\ Obtained(p)
       ELSE Fails(p) /\ UNCHANGED <<part, dest>>
    /\ UNCHANGED <<version, file, out, spoiled, bounds>>

Download(p) == Begin(p) \/ Stat(p) \/ Open(p) \/ Write(p) \/ Rename(p)

-----------------------------------------------------------------------------
(* extract().                                                              *)

(* Mutation: the marker of the outer archive is enough.                    *)
OuterReady == marker

Ready == marker /\ (Archives > 0 => nested_marker)

(* Mutation: nobody waits for the lock.                                    *)
ExtractUnlocked(p) ==
    /\ pc[p] = "extract"
    /\ IF Ready THEN Goes(p, "derive") /\ UNCHANGED lock
       ELSE Goes(p, IF marker THEN "expand" ELSE "unpack") /\ lock' = p
    /\ UNCHANGED <<version, disk, client, tree, expanded, marker, nested_marker, derived, spoiled, bounds>>

(* Wait for the lock, then look at the markers.                            *)
Extract(p) ==
    /\ pc[p] = "extract" /\ lock = None
    /\ IF Ready THEN Goes(p, "derive") /\ UNCHANGED lock
       ELSE Goes(p, IF marker THEN "expand" ELSE "unpack") /\ lock' = p
    /\ UNCHANGED <<version, disk, client, tree, expanded, marker, nested_marker, derived, spoiled, bounds>>

(* A whole artifact is unpacked.  One that is not may still be taken for   *)
(* an archive, which fails while it is read; otherwise it is copied as it  *)
(* is.                                                                     *)
Unpack(p) ==
    /\ pc[p] = "unpack"
    /\ IF Whole(file[dest])
       THEN tree' = "whole" /\ Goes(p, "mark") /\ UNCHANGED lock
       ELSE \/ tree' = "copied" /\ Goes(p, "mark") /\ UNCHANGED lock
            \/ tree' = "torn" /\ Goes(p, "off") /\ lock' = None
    /\ UNCHANGED <<version, disk, client, expanded, marker, nested_marker, derived, spoiled, bounds>>

Mark(p) ==
    /\ pc[p] = "mark"
    /\ marker' = TRUE
    /\ IF Archives > 0 THEN Goes(p, "expand") /\ UNCHANGED lock
       ELSE Goes(p, "derive") /\ lock' = None
    /\ UNCHANGED <<version, disk, client, tree, expanded, nested_marker, derived, spoiled, bounds>>

Pending == IF tree = "copied" THEN 0 ELSE Archives - expanded

(* The next nested archive is expanded and marked; one that was expanded   *)
(* and not marked is expanded again.                                       *)
Expand(p) ==
    /\ pc[p] = "expand"
    /\ IF Pending > 0 THEN expanded' = expanded + 1 /\ UNCHANGED pc
       ELSE Goes(p, "mark nested") /\ UNCHANGED expanded
    /\ UNCHANGED <<version, disk, client, lock, tree, marker, nested_marker, derived, spoiled, bounds>>

MarkNested(p) ==
    /\ pc[p] = "mark nested"
    /\ nested_marker' = TRUE
    /\ Goes(p, "derive") /\ lock' = None
    /\ UNCHANGED <<version, disk, client, tree, expanded, marker, derived, spoiled, bounds>>

(* A worker that was told the source is staged takes no lock.              *)
PreStaged(p) ==
    /\ pc[p] = "off" /\ p \in Workers \ derived
    /\ dest # None /\ file[dest] # <<>> /\ Ready
    /\ Goes(p, "derive")
    /\ UNCHANGED <<version, disk, client, out, spoiled, bounds>>

Derive(p) ==
    /\ pc[p] = "derive"
    /\ derived' = derived \cup {p}
    /\ Goes(p, "off")
    /\ UNCHANGED <<version, disk, client, lock, tree, expanded, marker, nested_marker, spoiled, bounds>>

Prepare(p) == Extract(p) \/ Unpack(p) \/ Mark(p) \/ Expand(p) \/ MarkNested(p) \/ PreStaged(p) \/ Derive(p)

(* Mutation: the lock is a file that nobody removes.                       *)
KillKeepsLock(p) ==
    /\ pc[p] # "off" /\ kills < MaxKills
    /\ kills' = kills + 1
    /\ Goes(p, "off") /\ Close(p)
    /\ tree' = IF pc[p] = "unpack" THEN "torn" ELSE tree
    /\ UNCHANGED <<version, disk, lock, expanded, marker, nested_marker, derived, spoiled, faults>>

(* A process is killed; its lock goes with it, and what it was unpacking   *)
(* stays.                                                                  *)
Kill(p) ==
    /\ pc[p] # "off" /\ kills < MaxKills
    /\ kills' = kills + 1
    /\ Goes(p, "off") /\ Close(p)
    /\ lock' = IF lock = p THEN None ELSE lock
    /\ tree' = IF pc[p] = "unpack" THEN "torn" ELSE tree
    /\ UNCHANGED <<version, disk, expanded, marker, nested_marker, derived, spoiled, faults>>

-----------------------------------------------------------------------------
ProcessStep(p) == Download(p) \/ Prepare(p)

Next ==
    \/ Publish
    \/ \E p \in Process : ProcessStep(p) \/ Cut(p) \/ Break(p) \/ Kill(p)

Spec == Init /\ [][Next]_vars

(* A process that ended without its result is started again, and the       *)
(* holder of the lock goes on.                                             *)
FairSpec == Spec /\ \A p \in Process : WF_vars(ProcessStep(p))

-----------------------------------------------------------------------------
(* Properties.                                                             *)

Pieces == (0 .. MaxVersion) \X (0 .. Length)
Steps  == {"off", "extract", "derive"} \cup Downloading \cup Extracting

(* Every variable has its kind.                                            *)
TypeOK ==
    /\ version \in 1 .. MaxVersion
    /\ file \in [Inodes -> Seq(Pieces)] /\ {part, dest} \subseteq Inodes \cup {None}
    /\ pc \in [Process -> Steps]
    /\ tries \in [Process -> 0 .. Attempts] /\ offset \in [Process -> Nat]
    /\ fd \in [Process -> Inodes \cup {None}] /\ at \in [Process -> Nat]
    /\ body \in [Process -> Pieces]
    /\ lock \in Derivers \cup {None}
    /\ tree \in {"empty", "torn", "whole", "copied"} /\ expanded \in 0 .. Archives
    /\ marker \in BOOLEAN /\ nested_marker \in BOOLEAN /\ derived \subseteq Derivers
    /\ spoiled \subseteq {"changed", "shared", "cut"}
    /\ faults \in 0 .. MaxFaults /\ kills \in 0 .. MaxKills

(* Whatever is killed, broken off and resumed, a file that bears the final *)
(* name is the whole of one version, unless two processes downloaded at    *)
(* once, an answer was cut short, or the source changed under a download.  *)
ArtifactIsWhole == dest # None /\ spoiled = {} => Whole(file[dest])

(* No worker derives from a tree that is still being made: by then every   *)
(* nested archive is expanded, unless the artifact was no archive, which   *)
(* only a spoiled download leaves.                                         *)
DerivesFromWholeTree ==
    \A p \in Process : pc[p] = "derive" =>
        \/ tree = "whole" /\ expanded = Archives
        \/ tree = "copied" /\ spoiled # {}

(* What a worker derives from stays as it is while others come and go.     *)
ReadyTreeStays == [][Ready => Ready' /\ tree' = tree /\ expanded' = expanded]_vars

Stuck == dest = None /\ part # None /\ Len(file[part]) >= Length

Spoiled == dest # None /\ ~Whole(file[dest])

(* Every builder and worker derives in the end, however often they are     *)
(* killed or disconnected; or the .part file is complete and only not      *)
(* renamed, when its server answers no range behind the end, or the        *)
(* artifact is damaged, and that stays so.                                 *)
Derives == <>(derived = Derivers) \/ <>[](Stuck \/ Spoiled)
=============================================================================
