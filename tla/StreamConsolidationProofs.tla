--------------------- MODULE StreamConsolidationProofs ---------------------
(***************************************************************************)
(* Theorems about StreamConsolidation for every number of shards, streams, *)
(* hashes and workspaces, and without its bounds on failures.              *)
(***************************************************************************)
EXTENDS StreamConsolidation, FiniteSetTheorems, WellFoundedInduction, TLAPS

(* A run that is under way has opened its workspace's index.               *)
RunHasIndex == pc # "idle" => Idx.state = "OPEN"

TypeInv == TypeOK /\ RunHasIndex

-----------------------------------------------------------------------------
(* Facts about the corpus that mention no other variable.                  *)

LEMMA CorpusType ==
    ASSUME corpus \in [Stream -> Item]
    PROVE  /\ \A i \in Stream : corpus[i].shard \in Shards /\ corpus[i].shard \in Nat
           /\ \A i \in Stream : Accepted(i) => corpus[i].hash \in Hash
           /\ \A i \in Stream : i \in Nat
  <1>1. \A i \in Stream : corpus[i].shard \in Shards /\ corpus[i].shard \in Nat
    BY ShardCountAssumption DEF Item, Shards
  <1>2. \A i \in Stream : Accepted(i) => corpus[i].hash \in Hash
    BY DEF Item, Accepted
  <1>3. \A i \in Stream : i \in Nat
    BY StreamAssumption
  <1>4. QED
    BY <1>1, <1>2, <1>3

(* Package t is published again: the rows of the other shards stay.        *)
OthersKept(t) ==
    /\ corpus \in [Stream -> Item] /\ corpus' \in [Stream -> Item]
    /\ \A i \in Stream : /\ corpus'[i].shard = corpus[i].shard
                         /\ corpus[i].shard # t => corpus'[i] = corpus[i]

LEMMA ReissueKeepsOthers ==
    ASSUME corpus \in [Stream -> Item], NEW t \in Shards, corpus' \in Reissues(t)
    PROVE  OthersKept(t)
  <1>1. PICK c \in Corpora :
          /\ \A i \in Stream : c[i].shard = corpus[i].shard
          /\ corpus' = [i \in Stream |-> IF i \in Rows(t) THEN c[i] ELSE corpus[i]]
    BY DEF Reissues
  <1>2. c \in [Stream -> Item]
    BY CorporaAssumption
  <1>3. QED
    BY <1>1, <1>2 DEF OthersKept, Rows

(* What is said of the shards before t does not depend on the rows of t.   *)
LEMMA OtherRows ==
    ASSUME NEW t \in Shards, OthersKept(t), NEW s \in Shards, s # t
    PROVE  /\ Rows(s)' = Rows(s) /\ AcceptedRows(s)' = AcceptedRows(s)
           /\ \A h : Copies(s, h)' = Copies(s, h)
           /\ \A i \in Rows(s) : corpus'[i] = corpus[i]
  <1>1. Rows(s)' = Rows(s) /\ \A i \in Rows(s) : corpus'[i] = corpus[i]
    BY DEF Rows, OthersKept
  <1>2. AcceptedRows(s)' = AcceptedRows(s)
    BY <1>1 DEF AcceptedRows, Accepted
  <1>3. \A h : Copies(s, h)' = Copies(s, h)
    BY <1>1, <1>2 DEF Copies, AcceptedRows
  <1>4. QED
    BY <1>1, <1>2, <1>3

LEMMA EarlierOwners ==
    ASSUME NEW t \in Shards, OthersKept(t), NEW i \in Stream, corpus[i].shard < t
    PROVE  FirstOwner(i)' <=> FirstOwner(i)
  <1>1. /\ corpus'[i] = corpus[i] /\ corpus[i].shard \in Nat /\ t \in Nat
        /\ \A j \in Stream : corpus[j].shard \in Nat /\ corpus'[j].shard = corpus[j].shard
    BY CorpusType DEF OthersKept, Shards
  <1>2. Accepted(i)' <=> Accepted(i)
    BY <1>1 DEF Accepted
  <1>3. ASSUME NEW j \in Stream
        PROVE  (Accepted(j)' /\ corpus'[j].hash = corpus'[i].hash => i = j \/ Before(i, j)')
                  <=> (Accepted(j) /\ corpus[j].hash = corpus[i].hash => i = j \/ Before(i, j))
    <2>1. Before(i, j)' <=> Before(i, j)
      BY <1>1 DEF Before
    <2>2. CASE corpus[j].shard = t
      BY <1>1, <2>1, <2>2 DEF Before
    <2>3. CASE corpus[j].shard # t
      BY <1>1, <2>1, <2>3 DEF OthersKept, Accepted
    <2>4. QED
      BY <2>2, <2>3
  <1>4. QED
    BY <1>2, <1>3 DEF FirstOwner

(* Every non-empty set of streams has a least element.                     *)
LEMMA LeastStream ==
    ASSUME NEW T, T \subseteq Stream, T # {}
    PROVE  \E i \in T : \A j \in T : i <= j
  <1>1. T \subseteq Nat
    BY StreamAssumption
  <1>2. PICK i \in T : \A j \in T : ~(<<j, i>> \in OpToRel(<, Nat))
    BY <1>1, NatLessThanWellFounded, WFMin
  <1>3. \A j \in T : ~(j < i)
    BY <1>1, <1>2 DEF OpToRel
  <1>4. QED
    BY <1>1, <1>3

(* FirstCopy chooses the least stream of a shard that has the hash.        *)
LEMMA FirstCopyIsLeast ==
    ASSUME NEW s, NEW h, Copies(s, h) # {}
    PROVE  /\ FirstCopy(s, h) \in Copies(s, h)
           /\ \A j \in Copies(s, h) : FirstCopy(s, h) <= j
  <1>1. Copies(s, h) \subseteq Stream
    BY DEF Copies, AcceptedRows, Rows
  <1>2. \E i \in Copies(s, h) : \A j \in Copies(s, h) : i <= j
    BY <1>1, LeastStream
  <1>3. QED
    BY <1>2 DEF FirstCopy

(* A hash has at most one first owner.                                     *)
LEMMA FirstOwnerUnique ==
    ASSUME corpus \in [Stream -> Item], NEW i \in Stream, NEW j \in Stream,
           FirstOwner(i), FirstOwner(j), corpus[i].hash = corpus[j].hash
    PROVE  i = j
  BY CorpusType DEF FirstOwner, Before

LEMMA CopiesCardinality ==
    ASSUME NEW s, NEW h
    PROVE  Cardinality(Copies(s, h)) \in Nat
  <1>1. Copies(s, h) \subseteq Stream
    BY DEF Copies, AcceptedRows, Rows
  <1>2. QED
    BY <1>1, StreamAssumption, FS_Subset, FS_CardinalityType

-----------------------------------------------------------------------------
(* Type correctness.                                                       *)

LEMMA PlainTypes ==
    /\ 0 \in Shards
    /\ NoDraft \in Manifests
    /\ EmptyIndex \in OpenIndexes
    /\ \A m \in Manifests : Stored(m) \in ArtifactStates
  <1>1. 0 \in Shards
    BY ShardCountAssumption DEF Shards
  <1>2. NoDraft \in Manifests
    <2>1. [i \in {} |-> NoStream] \in [{} -> Stream]
      OBVIOUS
    <2>2. [i \in {} |-> NoStream] \in UNION {[rows -> Stream] : rows \in SUBSET Stream}
      BY <2>1
    <2>3. QED
      BY <2>2 DEF NoDraft, Manifests
  <1>3. EmptyIndex \in OpenIndexes
    BY DEF EmptyIndex, OpenIndexes
  <1>4. \A m \in Manifests : Stored(m) \in ArtifactStates
    BY DEF Stored, ArtifactStates
  <1>5. QED
    BY <1>1, <1>2, <1>3, <1>4

(* The index a running process works on.                                   *)
LEMMA RunningIndex ==
    ASSUME TypeInv, pc # "idle"
    PROVE  Idx \in OpenIndexes
  BY DEF TypeInv, TypeOK, RunHasIndex, Idx, IndexStates, Absent, Corrupt

(* What a projection computes is well typed.                               *)
LEMMA ProjectionTypes ==
    ASSUME TypeInv, pc # "idle", NEW s \in Shards
    PROVE  /\ KeptAfter(s) \in [Hash -> Stream \cup {NoStream}]
           /\ CountAfter(s) \in [Hash -> Nat]
           /\ Partition(s) \in Manifests
           /\ IndexAfter(s) \in OpenIndexes
  <1>1. Idx \in OpenIndexes
    BY RunningIndex
  <1>2. \A h : Copies(s, h) \subseteq Stream
    BY DEF Copies, AcceptedRows, Rows
  <1>3. KeptAfter(s) \in [Hash -> Stream \cup {NoStream}]
    BY <1>1, <1>2, FirstCopyIsLeast DEF KeptAfter, OpenIndexes
  <1>4. CountAfter(s) \in [Hash -> Nat]
    BY <1>1, CopiesCardinality DEF CountAfter, OpenIndexes
  <1>5. \A i \in AcceptedRows(s) : corpus[i].hash \in Hash /\ i \in Copies(s, corpus[i].hash)
    BY CorpusType DEF TypeInv, TypeOK, AcceptedRows, Rows, Copies
  <1>6. \A i \in AcceptedRows(s) : KeptAfter(s)[corpus[i].hash] \in Stream
    BY <1>1, <1>2, <1>5, FirstCopyIsLeast DEF KeptAfter, OpenIndexes
  <1>7. AcceptedRows(s) \in SUBSET Stream /\ UniqueRows(s) \in SUBSET Stream
    BY DEF AcceptedRows, Rows, UniqueRows
  <1>8. packages[s] \in Nat
    BY DEF TypeInv, TypeOK
  <1>9. [i \in AcceptedRows(s) |-> KeptAfter(s)[corpus[i].hash]]
           \in UNION {[rows -> Stream] : rows \in SUBSET Stream}
    BY <1>6, <1>7
  <1>10. Partition(s) \in Manifests
    BY <1>7, <1>8, <1>9 DEF Partition, Manifests
  <1>11. IndexAfter(s) \in OpenIndexes
    BY <1>1, <1>3, <1>4 DEF IndexAfter, OpenIndexes
  <1>12. QED
    BY <1>3, <1>4, <1>10, <1>11

LEMMA TypeInit == Init => TypeInv
  BY PlainTypes, CorporaAssumption DEF Init, TypeInv, TypeOK, RunHasIndex, PCs, ArtifactStates, IndexStates

LEMMA TypeNext == TypeInv /\ [Next]_vars => TypeInv'
  <1> SUFFICES ASSUME TypeInv, [Next]_vars PROVE TypeInv'
    OBVIOUS
  <1> USE PlainTypes
  <1>1. ASSUME NEW s \in Shards, PublishSource(s) PROVE TypeInv'
    <2>1. corpus' \in [Stream -> Item]
      BY <1>1, ReissueKeepsOthers DEF PublishSource, TypeInv, TypeOK, OthersKept
    <2>2. reissued' \subseteq Shards
      BY <1>1 DEF PublishSource, TypeInv, TypeOK
    <2>3. QED
      BY <1>1, <2>1, <2>2 DEF PublishSource, TypeInv, TypeOK, RunHasIndex, Idx, run, bounds
  <1>2. ASSUME Interrupt PROVE TypeInv'
    BY <1>2 DEF Interrupt, Abandon, durable, history, TypeInv, TypeOK, RunHasIndex, PCs
  <1>3. ASSUME NEW w \in Workspaces, Start(w) PROVE TypeInv'
    BY <1>3 DEF Start, history, bounds, TypeInv, TypeOK, RunHasIndex, Idx, PCs, IndexStates,
                OpenIndexes, Absent, Corrupt
  <1>4. ASSUME Validate PROVE TypeInv'
    BY <1>4 DEF Validate, Abandon, durable, history, bounds, TypeInv, TypeOK, RunHasIndex, Idx, PCs
  <1>5. ASSUME CheckExisting PROVE TypeInv'
    <2>1. cur + 1 < ShardCount => cur + 1 \in Shards
      BY ShardCountAssumption DEF TypeInv, TypeOK, Shards
    <2>2. QED
      BY <1>5, <2>1 DEF CheckExisting, Advance, Abandon, durable, history, bounds,
                        TypeInv, TypeOK, RunHasIndex, Idx, PCs
  <1>6. ASSUME Project PROVE TypeInv'
    <2>1. Idx \in OpenIndexes /\ cur \in Shards /\ work \in Workspaces /\ pc # "idle"
      BY <1>6, RunningIndex DEF Project, TypeInv, TypeOK
    <2>2. CASE pc' = "canonical"
      <3>1. index'[work] \in OpenIndexes
        BY <1>6, <2>1, <2>2, ProjectionTypes DEF Project, Abandon, TypeInv, TypeOK
      <3>2. index' \in [Workspaces -> IndexStates] /\ index'[work].state = "OPEN"
        <4>1. index \in [Workspaces -> IndexStates] /\ OpenIndexes \subseteq IndexStates
          BY DEF TypeInv, TypeOK, IndexStates
        <4>2. index' = [index EXCEPT ![work] = IndexAfter(cur)]
          BY <1>6, <2>2 DEF Project, Abandon
        <4>3. index'[work].state = "OPEN"
          BY <3>1 DEF OpenIndexes
        <4>4. QED
          BY <2>1, <3>1, <4>1, <4>2, <4>3
      <3>3. draft' \in Manifests
        BY <1>6, <2>1, <2>2, ProjectionTypes DEF Project, Abandon
      <3>4. QED
        BY <1>6, <2>1, <2>2, <3>2, <3>3 DEF Project, Abandon, bounds, TypeInv, TypeOK, RunHasIndex,
                                           Idx, PCs, Artifacts
    <2>3. CASE Abandon /\ UNCHANGED <<index, projected, replayed>>
      BY <1>6, <2>3 DEF Project, Abandon, bounds, TypeInv, TypeOK, RunHasIndex, PCs
    <2>4. QED
      BY <1>6, <2>2, <2>3 DEF Project
  <1>7. ASSUME UploadArtifact PROVE TypeInv'
    <2>1. \A k \in Artifacts : AfterArtifact[k] \in PCs
      BY DEF Artifacts, AfterArtifact, PCs
    <2>2. stored' \in [Shards -> [Artifacts -> ArtifactStates]]
      <3>1. /\ Stored(draft) \in ArtifactStates /\ Corrupt \in ArtifactStates
            /\ pc \in Artifacts /\ cur \in Shards
            /\ stored \in [Shards -> [Artifacts -> ArtifactStates]]
        BY <1>7 DEF UploadArtifact, TypeInv, TypeOK, ArtifactStates
      <3>2. \A v \in ArtifactStates :
              [stored EXCEPT ![cur][pc] = v] \in [Shards -> [Artifacts -> ArtifactStates]]
        BY <3>1
      <3>3. QED
        BY <1>7, <3>1, <3>2 DEF UploadArtifact
    <2>3. QED
      BY <1>7, <2>1, <2>2 DEF UploadArtifact, CorruptUpload, Abandon, history, bounds,
                              TypeInv, TypeOK, RunHasIndex, Idx, PCs, Artifacts
  <1>8. ASSUME UploadIndex PROVE TypeInv'
    <2>1. cur + 1 < ShardCount => cur + 1 \in Shards
      BY ShardCountAssumption DEF TypeInv, TypeOK, Shards
    <2>2. storedIndex' \in IndexStates
      BY <1>8 DEF UploadIndex, Idx, TypeInv, TypeOK, IndexStates
    <2>3. QED
      BY <1>8, <2>1, <2>2 DEF UploadIndex, CorruptUpload, Advance, Abandon, history, bounds,
                              TypeInv, TypeOK, RunHasIndex, Idx, PCs, Artifacts
  <1>9. ASSUME MarkComplete PROVE TypeInv'
    <2>1. Idx \in OpenIndexes /\ cur \in Shards /\ work \in Workspaces
      BY <1>9, RunningIndex DEF MarkComplete, TypeInv, TypeOK
    <2>2. index'[work] \in OpenIndexes
      BY <1>9, <2>1 DEF MarkComplete, OpenIndexes, Idx, TypeInv, TypeOK
    <2>3. index' \in [Workspaces -> IndexStates] /\ index'[work].state = "OPEN"
      BY <1>9, <2>1, <2>2 DEF MarkComplete, TypeInv, TypeOK, IndexStates, OpenIndexes
    <2>4. QED
      BY <1>9, <2>3 DEF MarkComplete, history, bounds, TypeInv, TypeOK, RunHasIndex, Idx, PCs
  <1>10. ASSUME Report PROVE TypeInv'
    <2>1. Idx \in OpenIndexes
      BY <1>10, RunningIndex DEF Report
    <2>2. QED
      BY <1>10, <2>1 DEF Report, Abandon, history, bounds, TypeInv, TypeOK, RunHasIndex, PCs
  <1>11. CASE UNCHANGED vars
    BY <1>11 DEF vars, durable, history, run, bounds, TypeInv, TypeOK, RunHasIndex, Idx
  <1>12. QED
    BY <1>1, <1>2, <1>3, <1>4, <1>5, <1>6, <1>7, <1>8, <1>9, <1>10, <1>11 DEF Next, RunStep

LEMMA TypeInvariant == Spec => []TypeInv
  BY TypeInit, TypeNext, PTL DEF Spec

(* In every reachable state each variable holds a value of its kind (and a *)
(* run under way works on an index that is a database, see _index_schema). *)
THEOREM TypeCorrect == Spec => []TypeOK
  <1>1. TypeInv => TypeOK
    BY DEF TypeInv
  <1>2. QED
    BY <1>1, TypeInvariant, PTL

-----------------------------------------------------------------------------
(* Every index owns exactly the first owners of the shards it has rows for.*)
(* A run needs every earlier shard in its index before it projects one:    *)
(* it has either skipped it, which demands the row, or projected it.       *)

Underway == {"check", "project", "index", "mark", "final", "report"} \cup Artifacts

PrefixIndexed ==
    /\ pc \in Underway => \A t \in Shards : t < cur => Indexed(Idx, t)
    /\ pc \in Artifacts \cup {"index", "mark", "final", "report"} => Indexed(Idx, cur)

PrefixOnly(x) == \A s, t \in Shards : t < s /\ Indexed(x, s) => Indexed(x, t)

IndexesKnown ==
    \A x \in Readable : /\ PrefixOnly(x)
                        /\ \A s \in Shards : Indexed(x, s) => s \in projected

KeptInv == TypeInv /\ PrefixIndexed /\ IndexesKnown /\ KeptIsFirstOwner

(* Only a republication changes what the packages hold.                    *)
LEMMA CorpusSteps ==
    ASSUME [Next]_vars
    PROVE  UNCHANGED <<corpus, reissued>> \/ \E s \in Shards : PublishSource(s)
  BY DEF Next, vars, history, RunStep, Start, Validate, CheckExisting, Project,
         UploadArtifact, UploadIndex, MarkComplete, Report, Interrupt

LEMMA OwnersOfConstant ==
    ASSUME corpus' = corpus
    PROVE  \A x : OwnersExact(x)' <=> OwnersExact(x)
  BY DEF OwnersExact, FirstOwner, Before, Accepted, Copies, AcceptedRows, Rows, Indexed

LEMMA ReadableIndex == ASSUME TypeInv PROVE Readable \subseteq OpenIndexes
  BY DEF TypeInv, TypeOK, Readable, IndexStates, Absent, Corrupt

LEMMA EmptyOwners == OwnersExact(EmptyIndex)
  BY DEF EmptyIndex, OwnersExact, Indexed

(* The first copy in a shard is a first owner if no earlier shard has one. *)
LEMMA FirstCopyOwns ==
    ASSUME corpus \in [Stream -> Item], NEW s \in Shards, NEW h \in Hash, Copies(s, h) # {},
           \A t \in Shards : t < s => Copies(t, h) = {}
    PROVE  FirstOwner(FirstCopy(s, h)) /\ corpus[FirstCopy(s, h)].hash = h
  <1> DEFINE i == FirstCopy(s, h)
  <1>1. i \in Copies(s, h) /\ \A j \in Copies(s, h) : i <= j
    BY FirstCopyIsLeast
  <1> HIDE DEF i
  <1>2. i \in Stream /\ Accepted(i) /\ corpus[i].shard = s /\ corpus[i].hash = h
    BY <1>1 DEF Copies, AcceptedRows, Rows
  <1>3. ASSUME NEW j \in Stream, Accepted(j), corpus[j].hash = h
        PROVE  i = j \/ Before(i, j)
    <2>1. j \in Copies(corpus[j].shard, h) /\ corpus[j].shard \in Shards
      BY <1>3, CorpusType DEF Copies, AcceptedRows, Rows
    <2>2. ~(corpus[j].shard < s)
      BY <2>1
    <2>3. corpus[j].shard = s => i <= j
      BY <1>1, <2>1
    <2>4. QED
      BY <1>2, <2>1, <2>2, <2>3, CorpusType DEF Before, Shards
  <1>4. QED
    BY <1>2, <1>3 DEF FirstOwner, i

LEMMA ProjectionRows ==
    ASSUME TypeInv, pc # "idle", NEW s \in Shards
    PROVE  \A t \in Shards : Indexed(IndexAfter(s), t) <=> t = s \/ Indexed(Idx, t)
  BY RunningIndex DEF IndexAfter, Indexed, OpenIndexes

LEMMA ProjectionOwners ==
    ASSUME TypeInv, pc # "idle", OwnersExact(Idx), NEW s \in Shards,
           \A t \in Shards : t < s => Indexed(Idx, t)
    PROVE  OwnersExact(IndexAfter(s))
  <1>1. Idx \in OpenIndexes /\ corpus \in [Stream -> Item]
    BY RunningIndex DEF TypeInv, TypeOK
  <1>2. IndexAfter(s).kept = KeptAfter(s)
    BY DEF IndexAfter
  <1>3. \A t \in Shards : Indexed(IndexAfter(s), t) <=> t = s \/ Indexed(Idx, t)
    BY ProjectionRows
  <1>4. ASSUME NEW h \in Hash
        PROVE  /\ KeptAfter(s)[h] # NoStream =>
                     FirstOwner(KeptAfter(s)[h]) /\ corpus[KeptAfter(s)[h]].hash = h
               /\ KeptAfter(s)[h] # NoStream <=>
                     \E t \in Shards : Indexed(IndexAfter(s), t) /\ Copies(t, h) # {}
    <2>1. /\ Idx.kept[h] # NoStream =>
                FirstOwner(Idx.kept[h]) /\ corpus[Idx.kept[h]].hash = h
          /\ Idx.kept[h] # NoStream <=>
                \E t \in Shards : Indexed(Idx, t) /\ Copies(t, h) # {}
      BY DEF OwnersExact
    <2>2. CASE Idx.kept[h] = NoStream /\ Copies(s, h) # {}
      <3>1. KeptAfter(s)[h] = FirstCopy(s, h) /\ FirstCopy(s, h) \in Stream
        BY <2>2, FirstCopyIsLeast DEF KeptAfter, Copies, AcceptedRows, Rows
      <3>2. \A t \in Shards : t < s => Copies(t, h) = {}
        BY <2>1, <2>2
      <3>3. QED
        BY <1>1, <1>3, <2>2, <3>1, <3>2, FirstCopyOwns, NoStreamAssumption
    <2>3. CASE ~(Idx.kept[h] = NoStream /\ Copies(s, h) # {})
      <3>1. KeptAfter(s)[h] = Idx.kept[h]
        BY <2>3 DEF KeptAfter
      <3>2. QED
        BY <1>3, <2>1, <2>3, <3>1
    <2>4. QED
      BY <2>2, <2>3
  <1>5. QED
    BY <1>2, <1>3, <1>4 DEF OwnersExact

(* A step makes an index readable that was so before, or a new one, or one *)
(* that differs from the run's by the row of the current shard.            *)
LEMMA ReadableNext ==
    ASSUME TypeInv, PrefixIndexed, [Next]_vars, NEW x \in Readable'
    PROVE  \/ x \in Readable \/ x = EmptyIndex
           \/ /\ Idx \in Readable /\ cur \in Shards /\ pc \in Underway
              /\ Indexed(Idx, cur) \/ cur \in projected'
              /\ \A t \in Shards : t < cur => Indexed(Idx, t)
              /\ \A t \in Shards : Indexed(x, t) <=> Indexed(Idx, t) \/ t = cur
  <1>a. TypeInv /\ TypeOK /\ PrefixIndexed /\ cur \in Shards /\ work \in Workspaces
          /\ index \in [Workspaces -> IndexStates]
    BY DEF TypeInv, TypeOK
  <1>d. pc # "idle" => Idx \in Readable /\ Idx \in OpenIndexes
    BY <1>a, RunningIndex DEF RunHasIndex, TypeInv, Readable, Idx
  <1>1. ASSUME NEW w \in Workspaces, Start(w) PROVE x \in Readable \/ x = EmptyIndex
    BY <1>1, <1>a DEF Start, Readable
  <1>2. CASE UploadIndex
    BY <1>2, <1>d DEF UploadIndex, CorruptUpload, Readable, Corrupt
  <1>3. CASE Project /\ pc' = "canonical"
    <2>1. pc = "project" /\ index' = [index EXCEPT ![work] = IndexAfter(cur)]
            /\ storedIndex' = storedIndex /\ cur \in projected'
      BY <1>3 DEF Project, Abandon
    <2>2. x \in Readable \/ x = IndexAfter(cur)
      BY <1>a, <2>1 DEF Readable
    <2>3. \A t \in Shards : Indexed(IndexAfter(cur), t) <=> Indexed(Idx, t) \/ t = cur
      BY <1>a, <1>d, <2>1 DEF IndexAfter, Indexed, OpenIndexes
    <2> QED BY <1>a, <1>d, <2>1, <2>2, <2>3 DEF PrefixIndexed, Underway
  <1>4. CASE MarkComplete
    <2> DEFINE marked == [Idx EXCEPT !.row = [Idx.row EXCEPT ![cur] = "COMPLETE"]]
    <2>1. pc = "mark" /\ storedIndex' = storedIndex /\ index' = [index EXCEPT ![work] = marked]
      BY <1>4 DEF MarkComplete, Idx
    <2>2. \A t \in Shards : Indexed(marked, t) <=> Indexed(Idx, t) \/ t = cur
      BY <1>a, <1>d, <2>1 DEF OpenIndexes, Indexed
    <2> HIDE DEF marked
    <2>3. x \in Readable \/ x = marked
      BY <1>a, <2>1 DEF Readable
    <2> QED BY <1>a, <1>d, <2>1, <2>2, <2>3 DEF PrefixIndexed, Underway
  <1>5. CASE UNCHANGED <<index, storedIndex>>
    BY <1>5 DEF Readable
  <1> QED
    BY <1>1, <1>2, <1>3, <1>4, <1>5
       DEF Next, RunStep, vars, durable, PublishSource, Interrupt, Validate, CheckExisting,
           Project, Abandon, UploadArtifact, Report

LEMMA KnownNext ==
    ASSUME TypeInv, PrefixIndexed, IndexesKnown, [Next]_vars
    PROVE  IndexesKnown'
  <1>a. projected \subseteq projected'
    BY DEF Next, vars, history, RunStep, PublishSource, Start, Validate, CheckExisting, Project,
           UploadArtifact, UploadIndex, MarkComplete, Report, Interrupt
  <1> SUFFICES ASSUME NEW x \in Readable'
               PROVE  PrefixOnly(x) /\ \A s \in Shards : Indexed(x, s) => s \in projected'
    BY DEF IndexesKnown, PrefixOnly, Indexed
  <1>1. CASE x \in Readable
    BY <1>a, <1>1 DEF IndexesKnown
  <1>2. CASE x = EmptyIndex
    BY <1>2 DEF PrefixOnly, EmptyIndex, Indexed
  <1>3. CASE /\ Idx \in Readable /\ cur \in Shards
             /\ Indexed(Idx, cur) \/ cur \in projected'
             /\ \A t \in Shards : t < cur => Indexed(Idx, t)
             /\ \A t \in Shards : Indexed(x, t) <=> Indexed(Idx, t) \/ t = cur
    <2>1. PrefixOnly(Idx) /\ \A s \in Shards : Indexed(Idx, s) => s \in projected
      BY <1>3 DEF IndexesKnown
    <2>2. QED
      BY <1>a, <1>3, <2>1 DEF PrefixOnly
  <1>4. QED
    BY <1>1, <1>2, <1>3, ReadableNext

(* Rows that change under no index leave its owners as they are: they come *)
(* after every row of its shards.                                          *)
LEMMA ReissueKeepsOwners ==
    ASSUME NEW t \in Shards, OthersKept(t), NEW x, PrefixOnly(x), ~Indexed(x, t),
           x.kept \in [Hash -> Stream \cup {NoStream}], OwnersExact(x)
    PROVE  OwnersExact(x)'
  <1>1. \A s \in Shards : Indexed(x, s) => s # t /\ s < t
    BY DEF PrefixOnly, Shards
  <1>2. ASSUME NEW h \in Hash, x.kept[h] # NoStream
        PROVE  /\ x.kept[h] \in Stream /\ corpus[x.kept[h]].shard < t
               /\ FirstOwner(x.kept[h]) /\ corpus[x.kept[h]].hash = h
    <2>1. PICK s \in Shards : Indexed(x, s) /\ Copies(s, h) # {}
      BY <1>2 DEF OwnersExact
    <2>2. PICK j \in Copies(s, h) : TRUE
      BY <2>1
    <2>3. j \in Stream /\ Accepted(j) /\ corpus[j].hash = h /\ corpus[j].shard = s
      BY <2>2 DEF Copies, AcceptedRows, Rows
    <2>4. FirstOwner(x.kept[h]) /\ corpus[x.kept[h]].hash = h /\ x.kept[h] \in Stream
      BY <1>2 DEF OwnersExact
    <2>5. x.kept[h] = j \/ Before(x.kept[h], j)
      BY <2>3, <2>4 DEF FirstOwner
    <2>6. corpus[x.kept[h]].shard \in Nat /\ s \in Nat /\ t \in Nat
      BY <2>4, CorpusType DEF OthersKept, Shards
    <2>7. QED
      BY <1>1, <2>1, <2>3, <2>4, <2>5, <2>6 DEF Before
  <1>3. ASSUME NEW h \in Hash, x.kept[h] # NoStream
        PROVE  FirstOwner(x.kept[h])' /\ corpus'[x.kept[h]].hash = h
    <2>1. PICK o \in Stream : o = x.kept[h]
      BY <1>2, <1>3
    <2>2. corpus[o].shard < t /\ FirstOwner(o) /\ corpus[o].hash = h
      BY <1>2, <1>3, <2>1
    <2>3. FirstOwner(o)'
      BY <2>2, EarlierOwners
    <2>4. corpus[o].shard # t
      BY <2>2, CorpusType DEF OthersKept, Shards
    <2>5. corpus'[o].hash = h
      BY <2>2, <2>4 DEF OthersKept
    <2>6. QED
      BY <2>1, <2>3, <2>5
  <1>4. \A h \in Hash : (\E s \in Shards : Indexed(x, s) /\ Copies(s, h) # {})
                            <=> (\E s \in Shards : Indexed(x, s) /\ Copies(s, h)' # {})
    BY <1>1, OtherRows
  <1>5. QED
    BY <1>3, <1>4 DEF OwnersExact, Indexed

LEMMA KeptInit == Init => KeptInv
  <1> SUFFICES ASSUME Init PROVE KeptInv
    OBVIOUS
  <1>1. Readable = {}
    BY DEF Init, Readable, Absent
  <1>2. PrefixIndexed
    BY DEF Init, PrefixIndexed, Underway, Artifacts
  <1>3. QED
    BY <1>1, <1>2, TypeInit DEF KeptInv, IndexesKnown, KeptIsFirstOwner

(* A republication changes rows no index knows, or is held against those   *)
(* that do.                                                                *)
LEMMA KeptPublish ==
    ASSUME KeptInv, NEW s \in Shards, PublishSource(s)
    PROVE  PrefixIndexed' /\ KeptIsFirstOwner'
  <1>1. PrefixIndexed' /\ UNCHANGED <<index, storedIndex>>
    BY DEF KeptInv, PublishSource, run, PrefixIndexed, Idx, Indexed
  <1>2. SUFFICES ASSUME NEW x \in Readable, Current(x)' PROVE OwnersExact(x)'
    BY <1>1 DEF KeptIsFirstOwner, Readable
  <1>3. Current(x) => OwnersExact(x)
    BY DEF KeptInv, KeptIsFirstOwner
  <1>4. CASE UNCHANGED corpus
    <2>1. UNCHANGED reissued
      BY <1>4 DEF PublishSource
    <2>2. QED
      BY <1>2, <1>3, <1>4, <2>1, OwnersOfConstant DEF Current, Indexed
  <1>5. CASE ~UNCHANGED corpus
    <2>1. corpus' \in Reissues(s)
            /\ reissued' = IF s \in projected THEN reissued \cup {s} ELSE reissued
      BY <1>5 DEF PublishSource
    <2>2. OthersKept(s)
      BY <2>1, ReissueKeepsOthers DEF KeptInv, TypeInv, TypeOK
    <2>3. x \in OpenIndexes /\ PrefixOnly(x) /\ (Indexed(x, s) => s \in projected)
      BY ReadableIndex DEF KeptInv, IndexesKnown
    <2>4. Current(x) /\ ~Indexed(x, s)
      BY <1>2, <2>1, <2>3 DEF Current, Indexed
    <2>5. QED
      BY <1>3, <2>2, <2>3, <2>4, ReissueKeepsOwners DEF OpenIndexes
  <1>6. QED
    BY <1>4, <1>5

LEMMA KeptQuiet ==
    ASSUME KeptInv, [Next]_vars, UNCHANGED <<corpus, reissued>>
    PROVE  PrefixIndexed' /\ KeptIsFirstOwner'
  <1>a. TypeInv /\ TypeInv' /\ corpus' = corpus /\ reissued \subseteq Shards
    BY TypeNext DEF KeptInv, TypeInv, TypeOK
  <1>b. \A x : (OwnersExact(x)' <=> OwnersExact(x)) /\ (Current(x)' <=> Current(x))
    BY <1>a, OwnersOfConstant DEF Current, Indexed
  <1>c. \A x \in Readable : Current(x) => OwnersExact(x)
    BY DEF KeptInv, KeptIsFirstOwner
  <1>d. pc # "idle" => Idx \in Readable
    BY <1>a DEF TypeInv, TypeOK, RunHasIndex, Readable, Idx
  <1>e. ASSUME \A x \in Readable' : Current(x) => OwnersExact(x)
        PROVE  KeptIsFirstOwner'
    BY <1>b, <1>e DEF KeptIsFirstOwner
  <1>f. UNCHANGED <<index, storedIndex>> => KeptIsFirstOwner'
    BY <1>c, <1>e DEF Readable
  <1>1. ASSUME NEW s \in Shards, PublishSource(s) PROVE PrefixIndexed' /\ KeptIsFirstOwner'
    BY <1>1, KeptPublish
  <1>2. ASSUME Interrupt PROVE PrefixIndexed' /\ KeptIsFirstOwner'
    BY <1>2, <1>f DEF Interrupt, Abandon, durable, PrefixIndexed, Underway, Artifacts
  <1>3. ASSUME NEW w \in Workspaces, Start(w) PROVE PrefixIndexed' /\ KeptIsFirstOwner'
    <2>1. PrefixIndexed'
      BY <1>3 DEF Start, PrefixIndexed, Underway, Artifacts
    <2>2. Readable' \subseteq Readable \cup {EmptyIndex}
      BY <1>3, <1>a DEF Start, Readable, TypeInv, TypeOK
    <2>3. QED
      BY <1>c, <1>e, <2>1, <2>2, EmptyOwners
  <1>4. ASSUME Validate PROVE PrefixIndexed' /\ KeptIsFirstOwner'
    <2>1. \A t \in Shards : ~(t < 0)
      BY ShardCountAssumption DEF Shards
    <2>2. QED
      BY <1>4, <1>f, <2>1 DEF Validate, Abandon, durable, PrefixIndexed, Underway, Artifacts
  <1>5. ASSUME CheckExisting PROVE PrefixIndexed' /\ KeptIsFirstOwner'
    <2>1. \A t \in Shards : t < cur + 1 => t < cur \/ t = cur
      BY <1>a DEF TypeInv, TypeOK, Shards
    <2>2. QED
      BY <1>5, <1>f, <2>1 DEF CheckExisting, Advance, Abandon, durable, KeptInv,
                              PrefixIndexed, Underway, Artifacts, Idx, Indexed
  <1>6. ASSUME Project PROVE PrefixIndexed' /\ KeptIsFirstOwner'
    <2>1. CASE UNCHANGED index /\ Abandon
      BY <1>6, <1>f, <2>1 DEF Project, Abandon, PrefixIndexed, Underway, Artifacts
    <2>2. CASE pc' = "canonical"
      <3>1. cur \in Shards /\ work \in Workspaces /\ pc = "project"
              /\ index' = [index EXCEPT ![work] = IndexAfter(cur)]
              /\ pc' = "canonical" /\ work' = work /\ cur' = cur /\ storedIndex' = storedIndex
        BY <1>6, <1>a, <2>2 DEF Project, Abandon, TypeInv, TypeOK
      <3>2. \A t \in Shards : t < cur => Indexed(Idx, t)
        BY <3>1 DEF KeptInv, PrefixIndexed, Underway
      <3>3. /\ OwnersExact(Idx) => OwnersExact(IndexAfter(cur))
            /\ Indexed(IndexAfter(cur), cur)
            /\ \A t \in Shards : Indexed(Idx, t) => Indexed(IndexAfter(cur), t)
        BY <1>a, <3>1, <3>2, ProjectionOwners, ProjectionRows
      <3>4. Idx' = IndexAfter(cur)
        BY <1>a, <3>1 DEF Idx, TypeInv, TypeOK
      <3>5. PrefixIndexed'
        BY <3>1, <3>2, <3>3, <3>4 DEF PrefixIndexed, Indexed
      <3>6. Readable' \subseteq Readable \cup {IndexAfter(cur)}
        BY <1>a, <3>1 DEF Readable, TypeInv, TypeOK
      <3>7. Current(IndexAfter(cur)) => OwnersExact(IndexAfter(cur))
        BY <1>a, <1>c, <1>d, <3>1, <3>3 DEF Current
      <3>8. QED
        BY <1>c, <1>e, <3>5, <3>6, <3>7
    <2>3. QED
      BY <1>6, <2>1, <2>2 DEF Project
  <1>7. ASSUME UploadArtifact PROVE PrefixIndexed' /\ KeptIsFirstOwner'
    BY <1>7, <1>f DEF UploadArtifact, CorruptUpload, Abandon, KeptInv, PrefixIndexed,
                      Underway, Artifacts, AfterArtifact, Idx, Indexed
  <1>8. ASSUME UploadIndex PROVE PrefixIndexed' /\ KeptIsFirstOwner'
    <2>1. \A t \in Shards : t < cur + 1 => t < cur \/ t = cur
      BY <1>a DEF TypeInv, TypeOK, Shards
    <2>2. PrefixIndexed'
      BY <1>8, <2>1 DEF UploadIndex, CorruptUpload, Advance, Abandon, KeptInv,
                        PrefixIndexed, Underway, Artifacts, Idx, Indexed
    <2>3. Readable' \subseteq Readable
      BY <1>8, <1>d DEF UploadIndex, CorruptUpload, Readable, Corrupt
    <2>4. QED
      BY <1>c, <1>e, <2>2, <2>3
  <1>9. ASSUME MarkComplete PROVE PrefixIndexed' /\ KeptIsFirstOwner'
    <2> DEFINE marked == [Idx EXCEPT !.row = [Idx.row EXCEPT ![cur] = "COMPLETE"]]
    <2>1. /\ Idx \in OpenIndexes /\ cur \in Shards /\ work \in Workspaces
          /\ pc = "mark" /\ pc' = "final" /\ UNCHANGED <<work, cur, storedIndex>>
      BY <1>9, <1>a, RunningIndex DEF MarkComplete, TypeInv, TypeOK
    <2>2. index' = [index EXCEPT ![work] = marked]
      BY <1>9 DEF MarkComplete, Idx
    <2>3. marked.kept = Idx.kept /\ \A t \in Shards : Indexed(marked, t) <=> Indexed(Idx, t) \/ t = cur
      BY <2>1 DEF OpenIndexes, Indexed
    <2> HIDE DEF marked
    <2>4. Indexed(Idx, cur) /\ \A t \in Shards : t < cur => Indexed(Idx, t)
      BY <2>1 DEF KeptInv, PrefixIndexed, Underway
    <2>5. Current(marked) => OwnersExact(marked)
      <3>1. Current(marked) => Current(Idx)
        BY <1>a, <2>3 DEF Current
      <3>2. OwnersExact(Idx) => OwnersExact(marked)
        BY <2>3, <2>4 DEF OwnersExact
      <3>3. QED
        BY <1>c, <1>d, <2>1, <3>1, <3>2
    <2>6. Idx' = marked
      BY <1>a, <2>1, <2>2 DEF Idx, TypeInv, TypeOK
    <2>7. PrefixIndexed'
      BY <2>1, <2>3, <2>4, <2>6 DEF PrefixIndexed, Indexed
    <2>8. Readable' \subseteq Readable \cup {marked}
      BY <1>a, <2>1, <2>2 DEF Readable, TypeInv, TypeOK
    <2>9. QED
      BY <1>c, <1>e, <2>5, <2>7, <2>8
  <1>10. ASSUME Report PROVE PrefixIndexed' /\ KeptIsFirstOwner'
    BY <1>10, <1>f DEF Report, Abandon, PrefixIndexed, Underway, Artifacts
  <1>11. CASE UNCHANGED vars
    BY <1>11, <1>f DEF vars, durable, run, history, KeptInv, PrefixIndexed, Idx, Indexed
  <1>12. QED
    BY <1>1, <1>2, <1>3, <1>4, <1>5, <1>6, <1>7, <1>8, <1>9, <1>10, <1>11 DEF Next, RunStep

LEMMA KeptNext == KeptInv /\ [Next]_vars => KeptInv'
  <1> SUFFICES ASSUME KeptInv, [Next]_vars PROVE KeptInv'
    OBVIOUS
  <1>1. TypeInv' /\ IndexesKnown'
    BY TypeNext, KnownNext DEF KeptInv
  <1>2. PrefixIndexed' /\ KeptIsFirstOwner'
    BY CorpusSteps, KeptPublish, KeptQuiet
  <1>3. QED
    BY <1>1, <1>2 DEF KeptInv

(* Whatever workspaces run, die and take over, the owner an index records  *)
(* for a hash is the first accepted stream in run order that has it, and   *)
(* an index owns the hashes of exactly the shards it has rows for, until   *)
(* one of them is published again with other rows.                         *)
THEOREM KeptOwnersAreFirst == Spec => []KeptIsFirstOwner
  <1>1. Spec => []KeptInv
    BY KeptInit, KeptNext, PTL DEF Spec
  <1>2. KeptInv => KeptIsFirstOwner
    BY DEF KeptInv
  <1>3. QED
    BY <1>1, <1>2, PTL

-----------------------------------------------------------------------------
(* What the store holds: markers appear in shard order, each after the     *)
(* three artifacts of its own attempt and after an index that knows it.    *)

Marked(s) == stored[s]["completion"] # Absent

Bound(s) == Completed(s) /\ stored[s]["completion"].body.source = packages[s]

MarkersInOrder ==
    \A s, t \in Shards : t < s /\ Marked(s) => Marked(t)

RunProgress ==
    /\ pc \in Underway => \A t \in Shards : t < cur => Bound(t)
    /\ pc \in {"project", "index"} \cup Artifacts => ~Marked(cur)
    /\ pc \in {"mark", "final"} =>
          /\ stored[cur]["completion"] = Stored(draft)
          /\ \A t \in Shards : cur < t => ~Marked(t)
    /\ pc = "report" => Bound(cur) /\ \A t \in Shards : t <= cur

DraftUploaded ==
    /\ pc \in Artifacts \cup {"index", "mark", "final"} => draft.source = packages[cur]
    /\ pc \in {"reconciliation", "manifest", "index", "completion"} =>
          stored[cur]["canonical"] = Stored(draft)
    /\ pc \in {"manifest", "index", "completion"} =>
          stored[cur]["reconciliation"] = Stored(draft)
    /\ pc \in {"index", "completion"} => stored[cur]["manifest"] = Stored(draft)
    /\ pc = "completion" => storedIndex = Idx

StoreInv == /\ KeptInv /\ MarkersInOrder /\ RunProgress /\ DraftUploaded
            /\ CompletionBindsPartition /\ CompletionNeedsIndex /\ ReportBindsSources

StorePart == /\ MarkersInOrder /\ RunProgress /\ DraftUploaded
             /\ CompletionBindsPartition /\ CompletionNeedsIndex /\ ReportBindsSources

LEMMA StoredIsNotAbsent ==
    \A m : /\ Stored(m).state = "STORED" /\ Stored(m).body = m
           /\ Stored(m) # Absent /\ Stored(m) # Corrupt
           /\ Corrupt # Absent /\ Corrupt.state # "STORED" /\ Absent.state # "STORED"
           /\ Corrupt.state # "OPEN" /\ Absent.state # "OPEN"
  BY DEF Stored, Absent, Corrupt

LEMMA CompletedIsMarked == ASSUME NEW s PROVE Completed(s) => Marked(s)
  BY StoredIsNotAbsent DEF Completed, Marked

LEMMA StoreInit == Init => StoreInv
  <1> SUFFICES ASSUME Init PROVE StorePart
    BY KeptInit DEF StoreInv, StorePart
  <1>1. \A s \in Shards : ~Marked(s) /\ ~Completed(s)
    BY DEF Init, Marked, Completed, Absent, Artifacts
  <1>2. CompletionNeedsIndex
    BY <1>1 DEF CompletionNeedsIndex, Marked
  <1>3. QED
    BY <1>1, <1>2 DEF Init, StorePart, MarkersInOrder, RunProgress, DraftUploaded, Underway,
           Artifacts, CompletionBindsPartition, ReportBindsSources

(* No step touches the partition of a marked shard.                        *)
LEMMA MarkedIsFinal ==
    ASSUME StoreInv, [Next]_vars
    PROVE  \A s \in Shards : Marked(s) => stored'[s] = stored[s]
  <1>1. CASE UploadArtifact
    <2>1. pc \in Artifacts /\ ~Marked(cur) /\ cur \in Shards
      BY <1>1 DEF UploadArtifact, StoreInv, RunProgress, KeptInv, TypeInv, TypeOK
    <2>2. \A s \in Shards : s # cur => stored'[s] = stored[s]
      BY <1>1, <2>1 DEF UploadArtifact, StoreInv, KeptInv, TypeInv, TypeOK
    <2>3. QED
      BY <2>1, <2>2
  <1>2. CASE ~UploadArtifact
    BY <1>2 DEF Next, vars, durable, RunStep, PublishSource, Start, Validate, CheckExisting,
         Project, UploadIndex, MarkComplete, Report, Interrupt
  <1>3. QED
    BY <1>1, <1>2

LEMMA StoreNext == StoreInv /\ [Next]_vars => StoreInv'
  <1> SUFFICES ASSUME StoreInv, [Next]_vars PROVE StorePart'
    BY KeptNext DEF StoreInv, StorePart
  <1>a. TypeInv /\ TypeOK /\ TypeInv' /\ TypeOK' /\ KeptInv /\ KeptInv'
    BY TypeNext, KeptNext DEF StoreInv, KeptInv, TypeInv
  <1>b. cur \in Shards /\ Shards \subseteq Nat /\ work \in Workspaces
          /\ index \in [Workspaces -> IndexStates]
          /\ stored \in [Shards -> [Artifacts -> ArtifactStates]]
    BY <1>a DEF TypeOK, Shards
  <1>c. StorePart
    BY DEF StoreInv, StorePart
  <1>d. \A t \in Shards : t < cur + 1 => t < cur \/ t = cur
    BY <1>b
  <1>e. cur + 1 >= ShardCount => \A t \in Shards : t <= cur
    BY <1>b, ShardCountAssumption DEF Shards
  <1>f. ASSUME UNCHANGED <<stored, storedIndex, report>>
        PROVE  MarkersInOrder' /\ CompletionBindsPartition' /\ CompletionNeedsIndex'
                 /\ ReportBindsSources'
    BY <1>c, <1>f DEF StorePart, MarkersInOrder, Marked, CompletionBindsPartition, Completed,
                      CompletionNeedsIndex, Indexed, ReportBindsSources
  <1>g. ASSUME Abandon PROVE RunProgress' /\ DraftUploaded'
    BY <1>g DEF Abandon, RunProgress, DraftUploaded, Underway, Artifacts
  <1>1. ASSUME NEW s \in Shards, PublishSource(s) PROVE StorePart'
    BY <1>1, <1>c, <1>f DEF PublishSource, run, StorePart, RunProgress, DraftUploaded,
                            Bound, Completed, Marked, Idx
  <1>2. ASSUME Interrupt PROVE StorePart'
    BY <1>2, <1>f, <1>g DEF Interrupt, durable, StorePart
  <1>3. ASSUME NEW w \in Workspaces, Start(w) PROVE StorePart'
    BY <1>3, <1>f DEF Start, StorePart, RunProgress, DraftUploaded, Underway, Artifacts
  <1>4. ASSUME Validate PROVE StorePart'
    <2>1. CASE Abandon
      BY <1>4, <2>1, <1>f, <1>g DEF Validate, durable, StorePart
    <2>2. CASE pc' = "check" /\ cur' = 0
      BY <1>4, <2>2, <1>b, <1>f DEF Validate, durable, StorePart, RunProgress, DraftUploaded,
                                    Underway, Artifacts
    <2>3. QED
      BY <1>4, <2>1, <2>2 DEF Validate
  <1>5. ASSUME CheckExisting PROVE StorePart'
    <2>1. UNCHANGED <<stored, storedIndex, report>>
      BY <1>5 DEF CheckExisting, durable
    <2>2. pc = "check" /\ \A t \in Shards : t < cur => Bound(t)
      BY <1>5, <1>c DEF CheckExisting, StorePart, RunProgress, Underway
    <2>3. CASE stored[cur]["completion"] = Absent /\ pc' = "project"
                 /\ UNCHANGED <<work, cur, packages, draft>>
      BY <1>f, <2>1, <2>2, <2>3 DEF StorePart, RunProgress, DraftUploaded, Bound, Completed,
                                    Marked, Underway, Artifacts
    <2>4. CASE Completed(cur) /\ SameSource /\ Advance
      <3>1. Bound(cur) /\ UNCHANGED packages
        BY <2>4 DEF Bound, SameSource, Advance
      <3>2. RunProgress' /\ DraftUploaded'
        BY <2>1, <2>2, <2>4, <3>1, <1>b, <1>d, <1>e, ShardCountAssumption
           DEF Advance, RunProgress, DraftUploaded, Bound, Completed, Marked, Underway, Artifacts
      <3>3. QED
        BY <1>f, <2>1, <3>2 DEF StorePart
    <2>5. CASE Abandon
      BY <1>f, <1>g, <2>1, <2>5 DEF StorePart
    <2>6. QED
      BY <1>5, <2>3, <2>4, <2>5 DEF CheckExisting, Completed
  <1>6. ASSUME Project PROVE StorePart'
    <2>1. UNCHANGED <<stored, storedIndex, report>>
      BY <1>6 DEF Project
    <2>2. CASE Abandon
      BY <1>f, <1>g, <2>1, <2>2 DEF StorePart
    <2>3. CASE pc' = "canonical"
      <3>1. pc = "project" /\ pc' = "canonical" /\ draft'.source = packages[cur]
              /\ UNCHANGED <<cur, packages>>
        BY <1>6, <2>3 DEF Project, Abandon, Partition
      <3>2. RunProgress' /\ DraftUploaded'
        BY <1>c, <2>1, <3>1 DEF StorePart, RunProgress, DraftUploaded, Bound, Completed, Marked,
                                Underway, Artifacts
      <3>3. QED
        BY <1>f, <2>1, <3>2 DEF StorePart
    <2>4. QED
      BY <1>6, <2>2, <2>3 DEF Project
  <1>7. ASSUME UploadArtifact PROVE StorePart'
    <2>1. pc \in Artifacts /\ ~Marked(cur) /\ UNCHANGED <<storedIndex, report, index>>
      BY <1>7, <1>c DEF UploadArtifact, StorePart, RunProgress
    <2>2. PICK v \in {Stored(draft), Corrupt} : stored' = [stored EXCEPT ![cur][pc] = v]
      BY <1>7 DEF UploadArtifact
    <2>3. /\ \A s \in Shards : s # cur => stored'[s] = stored[s]
          /\ \A k \in Artifacts : k # pc => stored'[cur][k] = stored[cur][k]
          /\ stored'[cur][pc] = v
      BY <1>b, <2>1, <2>2
    <2>4. v # Absent
      BY <2>2, StoredIsNotAbsent
    <2>5. \A t \in Shards : t < cur => Bound(t)
      BY <1>c, <2>1 DEF StorePart, RunProgress, Underway
    <2>6. \A t \in Shards : cur < t => ~Marked(t)
      BY <1>b, <1>c, <2>1 DEF StorePart, MarkersInOrder
    <2>7. \A s \in Shards : Marked(s)' <=> Marked(s) \/ (s = cur /\ pc = "completion")
      BY <2>1, <2>3, <2>4 DEF Marked, Artifacts
    <2>8. MarkersInOrder'
      BY <1>b, <1>c, <2>5, <2>6, <2>7, CompletedIsMarked DEF StorePart, MarkersInOrder, Bound
    <2>9. CompletionBindsPartition'
      <3>1. ASSUME NEW s \in Shards, Completed(s)', NEW k \in Artifacts
            PROVE  stored'[s][k] = stored'[s]["completion"]
        <4>1. CASE s # cur
          BY <1>c, <2>3, <3>1, <4>1 DEF StorePart, CompletionBindsPartition, Completed
        <4>2. CASE s = cur
          <5>1. pc = "completion" /\ v = Stored(draft)
            BY <2>1, <2>2, <2>3, <3>1, <4>2, StoredIsNotAbsent DEF Completed, Marked, Artifacts
          <5>2. QED
            BY <1>c, <2>3, <4>2, <5>1 DEF StorePart, DraftUploaded, Artifacts
        <4>3. QED
          BY <4>1, <4>2
      <3>2. QED
        BY <3>1 DEF CompletionBindsPartition
    <2>10. CompletionNeedsIndex'
      <3>1. pc = "completion" => storedIndex = Idx /\ Indexed(Idx, cur)
        BY <1>a, <1>c DEF StorePart, DraftUploaded, KeptInv, PrefixIndexed, Artifacts
      <3>2. QED
        BY <1>c, <2>1, <2>7, <3>1 DEF StorePart, CompletionNeedsIndex, Marked, Indexed
    <2>11. ReportBindsSources'
      <3>1. report = Absent
        BY <1>b, <1>c, <2>1, CompletedIsMarked DEF StorePart, ReportBindsSources
      <3>2. QED
        BY <2>1, <3>1 DEF ReportBindsSources
    <2>12. RunProgress' /\ DraftUploaded'
      <3>1. CASE Abandon
        BY <3>1, <1>g
      <3>2. CASE stored' = [stored EXCEPT ![cur][pc] = Stored(draft)] /\ pc' = AfterArtifact[pc]
                   /\ UNCHANGED <<work, cur, packages, draft>>
        <4>1. stored'[cur][pc] = Stored(draft)
          BY <3>2, <1>b, <2>1
        <4>2. \A t \in Shards : t < cur => Bound(t)'
          <5>1. ASSUME NEW t \in Shards, t < cur PROVE Bound(t)'
            <6>1. stored'[t] = stored[t] /\ Bound(t)
              BY <1>b, <2>3, <2>5, <5>1
            <6>2. QED
              BY <3>2, <6>1 DEF Bound, Completed
          <5>2. QED
            BY <5>1
        <4>3. RunProgress'
          BY <2>1, <2>6, <2>7, <3>2, <4>1, <4>2, <1>b
             DEF RunProgress, Underway, Artifacts, AfterArtifact
        <4>4. DraftUploaded'
          BY <1>c, <2>1, <2>3, <3>2, <4>1
             DEF StorePart, DraftUploaded, Artifacts, AfterArtifact, Idx
        <4>5. QED
          BY <4>3, <4>4
      <3>3. QED
        BY <1>7, <3>1, <3>2 DEF UploadArtifact, CorruptUpload
    <2>13. QED
      BY <2>8, <2>9, <2>10, <2>11, <2>12 DEF StorePart
  <1>8. ASSUME UploadIndex PROVE StorePart'
    <2>1. UNCHANGED <<stored, report, index>> /\ pc \in {"index", "final"}
      BY <1>8 DEF UploadIndex
    <2>2. MarkersInOrder' /\ CompletionBindsPartition' /\ ReportBindsSources'
      BY <1>c, <2>1 DEF StorePart, MarkersInOrder, Marked, CompletionBindsPartition, Completed,
                        ReportBindsSources
    <2>3. \A s \in Shards : Marked(s) => Indexed(Idx, s)
      <3>1. \A s \in Shards : Marked(s) => s <= cur
        BY <1>b, <1>c, <2>1 DEF StorePart, MarkersInOrder, RunProgress
      <3>2. \A s \in Shards : s <= cur => Indexed(Idx, s)
        BY <1>a, <1>b, <2>1 DEF KeptInv, PrefixIndexed, Underway
      <3>3. QED
        BY <3>1, <3>2
    <2>4. storedIndex' \in {Idx, Corrupt}
      BY <1>8 DEF UploadIndex
    <2>5. CompletionNeedsIndex'
      BY <2>1, <2>3, <2>4, StoredIsNotAbsent DEF CompletionNeedsIndex, Marked, Indexed
    <2>6. RunProgress' /\ DraftUploaded'
      <3>1. CASE Abandon
        BY <3>1, <1>g
      <3>2. CASE pc = "index" /\ pc' = "completion" /\ storedIndex' = Idx
                   /\ UNCHANGED <<work, cur, packages, draft>>
        BY <1>c, <2>1, <3>2 DEF StorePart, RunProgress, DraftUploaded, Bound, Completed, Marked,
                                Underway, Artifacts, Idx
      <3>3. CASE pc = "final" /\ Advance
        <4>1. Bound(cur) /\ \A t \in Shards : t < cur => Bound(t)
          BY <1>c, <3>3, StoredIsNotAbsent
             DEF StorePart, RunProgress, DraftUploaded, Bound, Completed, Underway
        <4>2. QED
          BY <2>1, <3>3, <4>1, <1>b, <1>d, <1>e, ShardCountAssumption
             DEF Advance, RunProgress, DraftUploaded, Bound, Completed, Marked, Underway, Artifacts
      <3>4. QED
        BY <1>8, <3>1, <3>2, <3>3 DEF UploadIndex, CorruptUpload
    <2>7. QED
      BY <2>2, <2>5, <2>6 DEF StorePart
  <1>9. ASSUME MarkComplete PROVE StorePart'
    BY <1>9, <1>c, <1>f DEF MarkComplete, StorePart, RunProgress, DraftUploaded, Bound,
                            Completed, Marked, Underway, Artifacts
  <1>10. ASSUME Report PROVE StorePart'
    <2>1. UNCHANGED <<stored, storedIndex>> /\ Abandon /\ pc = "report"
            /\ report'.packages = packages
      BY <1>10 DEF Report
    <2>2. \A s \in Shards : Bound(s)
      BY <1>b, <1>c, <2>1 DEF StorePart, RunProgress, Underway
    <2>3. ReportBindsSources'
      BY <2>1, <2>2 DEF ReportBindsSources, Bound, Completed
    <2>4. MarkersInOrder' /\ CompletionBindsPartition' /\ CompletionNeedsIndex'
      BY <1>c, <2>1 DEF StorePart, MarkersInOrder, Marked, CompletionBindsPartition, Completed,
                        CompletionNeedsIndex, Indexed
    <2>5. QED
      BY <1>g, <2>1, <2>3, <2>4 DEF StorePart
  <1>11. CASE UNCHANGED vars
    BY <1>11, <1>c, <1>f DEF vars, durable, run, StorePart, RunProgress, DraftUploaded, Bound,
                             Completed, Marked, Idx
  <1>12. QED
    BY <1>1, <1>2, <1>3, <1>4, <1>5, <1>6, <1>7, <1>8, <1>9, <1>10, <1>11 DEF Next, RunStep

LEMMA StoreCorrect == Spec => []StoreInv
  BY StoreInit, StoreNext, PTL DEF Spec

(* A completion marker that reads back stands beside the canonical         *)
(* database, reconciliation and manifest of the same attempt.              *)
THEOREM MarkersBindPartitions == Spec => []CompletionBindsPartition
  <1>1. StoreInv => CompletionBindsPartition
    BY DEF StoreInv
  <1>2. QED
    BY <1>1, StoreCorrect, PTL

(* The stored index, when it reads back, knows every marked shard, so that *)
(* a workspace that starts from it is never refused.                       *)
THEOREM MarkersNeedIndex == Spec => []CompletionNeedsIndex
  <1>1. StoreInv => CompletionNeedsIndex
    BY DEF StoreInv
  <1>2. QED
    BY <1>1, StoreCorrect, PTL

(* A final report vouches for every shard, as made from the packages the   *)
(* reporting run validated.                                                *)
THEOREM ReportsBindSources == Spec => []ReportBindsSources
  <1>1. StoreInv => ReportBindsSources
    BY DEF StoreInv
  <1>2. QED
    BY <1>1, StoreCorrect, PTL

(* No step of any run replaces a partition that has a completion marker.   *)
THEOREM MarkedPartitionsAreFinal == Spec => CompletedIsFinal
  <1>1. StoreInv /\ [Next]_vars =>
          [\A s \in Shards : stored[s]["completion"] # Absent => stored'[s] = stored[s]]_vars
    BY MarkedIsFinal DEF Marked
  <1>2. QED
    BY <1>1, StoreCorrect, PTL DEF Spec, CompletedIsFinal

-----------------------------------------------------------------------------
(***************************************************************************)
(* StreamConsolidation implements CanonicalLedger: with the refinement     *)
(* mapping of StreamConsolidation!Ledger, storing a readable completion    *)
(* marker publishes a shard, the final report finishes the run, and every  *)
(* other step, failures and restarts included, changes nothing the ledger  *)
(* can see.                                                                *)
(***************************************************************************)

(* A partition that lists the right owner for every accepted stream and    *)
(* materialises first owners only.                                         *)
Truthful(body, s) ==
    /\ body.owner = [i \in AcceptedRows(s) |-> OwnerOf(corpus[i].hash)]
    /\ body.unique \subseteq {i \in Rows(s) : FirstOwner(i)}

LedgerTruth == pc \in Artifacts \cup {"index"} /\ Sound(cur) => Truthful(draft, cur)

(* No index has gone beyond a shard that is not marked.                    *)
MarksFirst ==
    \A x \in Readable : \A s, t \in Shards : t < s /\ Indexed(x, s) => Marked(t)

MarkedKnown == \A s \in Shards : Marked(s) => s \in projected

LedgerInv == StoreInv /\ MarksFirst /\ MarkedKnown /\ LedgerTruth

-----------------------------------------------------------------------------
LEMMA OwnerOfFirstOwner ==
    ASSUME corpus \in [Stream -> Item], NEW o \in Stream, FirstOwner(o)
    PROVE  OwnerOf(corpus[o].hash) = o
  <1> DEFINE h == corpus[o].hash
  <1>1. OwnerOf(h) \in Stream /\ FirstOwner(OwnerOf(h)) /\ corpus[OwnerOf(h)].hash = h
    BY DEF OwnerOf
  <1>2. QED
    BY <1>1, FirstOwnerUnique

LEMMA ProjectionTruthful ==
    ASSUME TypeInv, pc # "idle", OwnersExact(Idx), NEW s \in Shards,
           \A t \in Shards : t < s => Indexed(Idx, t)
    PROVE  Truthful(Partition(s), s)
  <1>1. corpus \in [Stream -> Item] /\ Idx \in OpenIndexes
    BY RunningIndex DEF TypeInv, TypeOK
  <1>2. OwnersExact(IndexAfter(s)) /\ Indexed(IndexAfter(s), s)
    BY ProjectionOwners, ProjectionRows
  <1>3. IndexAfter(s).kept = KeptAfter(s) /\ KeptAfter(s) \in [Hash -> Stream \cup {NoStream}]
    BY ProjectionTypes DEF IndexAfter
  <1>4. \A i \in AcceptedRows(s) : /\ i \in Stream /\ corpus[i].hash \in Hash
                                   /\ i \in Copies(s, corpus[i].hash)
    BY <1>1, CorpusType DEF AcceptedRows, Rows, Copies
  <1>5. ASSUME NEW i \in AcceptedRows(s)
        PROVE  LET o == KeptAfter(s)[corpus[i].hash]
               IN  o \in Stream /\ FirstOwner(o) /\ corpus[o].hash = corpus[i].hash
    <2> DEFINE h == corpus[i].hash
    <2>1. h \in Hash /\ Copies(s, h) # {}
      BY <1>4
    <2>2. KeptAfter(s)[h] # NoStream
      BY <1>2, <1>3, <2>1 DEF OwnersExact
    <2>3. FirstOwner(KeptAfter(s)[h]) /\ corpus[KeptAfter(s)[h]].hash = h
      BY <1>2, <1>3, <2>1, <2>2 DEF OwnersExact
    <2>4. KeptAfter(s)[h] \in Stream
      BY <1>3, <2>1, <2>2
    <2>5. QED
      BY <2>3, <2>4
  <1>6. \A i \in AcceptedRows(s) : KeptAfter(s)[corpus[i].hash] = OwnerOf(corpus[i].hash)
    <2>1. SUFFICES ASSUME NEW i \in AcceptedRows(s)
                   PROVE  KeptAfter(s)[corpus[i].hash] = OwnerOf(corpus[i].hash)
      OBVIOUS
    <2> DEFINE o == KeptAfter(s)[corpus[i].hash]
    <2>2. o \in Stream /\ FirstOwner(o) /\ corpus[o].hash = corpus[i].hash
      BY <1>5
    <2>3. OwnerOf(corpus[o].hash) = o
      BY <1>1, <2>2, OwnerOfFirstOwner
    <2>4. QED
      BY <2>2, <2>3
  <1>7. Partition(s).owner = [i \in AcceptedRows(s) |-> OwnerOf(corpus[i].hash)]
    BY <1>6 DEF Partition
  <1>8. ASSUME NEW i \in UniqueRows(s) PROVE i \in Rows(s) /\ FirstOwner(i)
    <2>1. /\ i \in AcceptedRows(s) /\ Idx.kept[corpus[i].hash] = NoStream
          /\ i = FirstCopy(s, corpus[i].hash)
      BY DEF UniqueRows
    <2>2. KeptAfter(s)[corpus[i].hash] = i
      BY <1>4, <2>1 DEF KeptAfter
    <2>3. QED
      BY <1>5, <2>1, <2>2 DEF AcceptedRows
  <1>9. QED
    BY <1>7, <1>8 DEF Truthful, Partition

(* Corpus operators keep their meaning in every step.                      *)
LEMMA CorpusConstant ==
    ASSUME corpus' = corpus
    PROVE  /\ \A s : AcceptedRows(s)' = AcceptedRows(s)
           /\ \A s : Rows(s)' = Rows(s)
           /\ \A i : FirstOwner(i)' <=> FirstOwner(i)
           /\ \A h : OwnerOf(h)' = OwnerOf(h)
  <1>1. \A s : AcceptedRows(s)' = AcceptedRows(s)
    BY DEF AcceptedRows, Rows, Accepted
  <1>2. \A s : Rows(s)' = Rows(s)
    BY DEF Rows
  <1>3. \A i : FirstOwner(i)' <=> FirstOwner(i)
    BY DEF FirstOwner, Accepted, Before
  <1>4. \A h : OwnerOf(h)' = OwnerOf(h)
    BY Zenon, <1>3 DEF OwnerOf
  <1>5. QED
    BY <1>1, <1>2, <1>3, <1>4

-----------------------------------------------------------------------------
(* The invariant: drafts and completed partitions are truthful.            *)

LEMMA LedgerInvInit == Init => LedgerInv
  <1> SUFFICES ASSUME Init PROVE MarksFirst /\ MarkedKnown /\ LedgerTruth
    BY StoreInit DEF LedgerInv
  <1>1. Readable = {}
    BY DEF Init, Readable, Absent
  <1>2. QED
    BY <1>1 DEF Init, LedgerTruth, MarksFirst, MarkedKnown, Marked, Artifacts

LEMMA MarksNext == ASSUME StoreInv, MarksFirst, [Next]_vars PROVE MarksFirst'
  <1>1. SUFFICES ASSUME NEW x \in Readable', NEW s \in Shards, NEW t \in Shards,
                        t < s, Indexed(x, s)
                 PROVE  Marked(t)'
    BY DEF MarksFirst, Indexed
  <1>2. SUFFICES Marked(t)
    BY MarkedIsFinal DEF Marked
  <1>3. CASE x \in Readable
    BY <1>1, <1>3 DEF MarksFirst
  <1>4. CASE x = EmptyIndex
    BY <1>1, <1>4 DEF EmptyIndex, Indexed
  <1>5. CASE /\ Idx \in Readable /\ cur \in Shards /\ pc \in Underway
             /\ \A u \in Shards : Indexed(x, u) <=> Indexed(Idx, u) \/ u = cur
    <2>1. \A u \in Shards : u < cur => Marked(u)
      BY <1>5, CompletedIsMarked DEF StoreInv, RunProgress, Bound
    <2>2. QED
      BY <1>1, <1>5, <2>1 DEF MarksFirst
  <1>6. QED
    BY <1>3, <1>4, <1>5, ReadableNext DEF StoreInv, KeptInv

LEMMA MarkedKnownNext == ASSUME StoreInv, MarkedKnown, [Next]_vars PROVE MarkedKnown'
  <1>1. projected \subseteq projected'
    BY DEF Next, vars, history, RunStep, PublishSource, Start, Validate, CheckExisting, Project,
           UploadArtifact, UploadIndex, MarkComplete, Report, Interrupt
  <1>2. CASE UploadArtifact
    <2>1. /\ pc \in Artifacts /\ cur \in Shards
          /\ \A s \in Shards : s # cur => stored'[s] = stored[s]
      BY <1>2 DEF UploadArtifact, StoreInv, KeptInv, TypeInv, TypeOK
    <2>2. Idx \in Readable
      BY <2>1, RunningIndex DEF StoreInv, KeptInv, TypeInv, TypeOK, Readable, Idx, OpenIndexes,
                                Artifacts
    <2>3. cur \in projected
      BY <2>1, <2>2 DEF StoreInv, KeptInv, PrefixIndexed, IndexesKnown
    <2>4. QED
      BY <1>1, <2>1, <2>3 DEF MarkedKnown, Marked
  <1>3. CASE UNCHANGED stored
    BY <1>1, <1>3 DEF MarkedKnown, Marked
  <1>4. QED
    BY <1>2, <1>3 DEF Next, vars, durable, RunStep, PublishSource, Start, Validate,
         CheckExisting, Project, UploadIndex, MarkComplete, Report, Interrupt

(* Rows of a later shard are nothing to the partition of an earlier one.   *)
LEMMA ReissueKeepsTruth ==
    ASSUME NEW t \in Shards, OthersKept(t), NEW s \in Shards, s < t,
           NEW body, Truthful(body, s)
    PROVE  Truthful(body, s)'
  <1>1. /\ Rows(s)' = Rows(s) /\ AcceptedRows(s)' = AcceptedRows(s)
        /\ \A i \in Rows(s) : corpus'[i] = corpus[i]
    BY OtherRows DEF Shards
  <1>2. \A i \in Rows(s) : i \in Stream /\ corpus[i].shard < t
    BY DEF Rows
  <1>3. {i \in Rows(s) : FirstOwner(i)}' = {i \in Rows(s) : FirstOwner(i)}
    BY <1>1, <1>2, EarlierOwners
  <1>4. ASSUME NEW i \in AcceptedRows(s)
        PROVE  OwnerOf(corpus[i].hash)' = OwnerOf(corpus[i].hash)
    <2>1. /\ i \in Stream /\ corpus[i].shard = s /\ Accepted(i) /\ corpus'[i] = corpus[i]
          /\ Accepted(i)' /\ corpus'[i].shard = s
      BY <1>1, <1>4 DEF AcceptedRows, Rows, Accepted
    <2>2. ASSUME NEW o \in Stream
          PROVE  FirstOwner(o)' /\ corpus'[o].hash = corpus'[i].hash
                    <=> FirstOwner(o) /\ corpus[o].hash = corpus[i].hash
      <3>1. CASE corpus[o].shard < t
        <4>1. corpus'[o] = corpus[o]
          BY <3>1, CorpusType DEF OthersKept, Shards
        <4>2. QED
          BY <2>1, <3>1, <4>1, EarlierOwners
      <3>2. CASE ~(corpus[o].shard < t)
        <4>1. /\ corpus'[o].shard = corpus[o].shard /\ corpus[o].shard \in Nat
              /\ s \in Nat /\ t \in Nat
          BY CorpusType DEF OthersKept, Shards
        <4>2. o # i /\ ~Before(o, i) /\ ~Before(o, i)'
          BY <2>1, <3>2, <4>1 DEF Before
        <4>3. QED
          BY <2>1, <4>2 DEF FirstOwner
      <3>3. QED
        BY <3>1, <3>2
    <2>3. QED
      BY Zenon, <2>2 DEF OwnerOf
  <1>5. QED
    BY <1>1, <1>3, <1>4 DEF Truthful

LEMMA TruthPublish ==
    ASSUME LedgerInv, NEW s \in Shards, PublishSource(s)
    PROVE  LedgerTruth'
  <1>1. SUFFICES ASSUME pc \in Artifacts \cup {"index"}, Sound(cur)'
                 PROVE  Truthful(draft, cur)'
    BY DEF LedgerTruth, PublishSource, run, Sound
  <1>2. UNCHANGED <<draft, cur>> /\ cur \in Shards /\ TypeOK
    BY DEF PublishSource, run, LedgerInv, StoreInv, KeptInv, TypeInv, TypeOK
  <1>3. Sound(cur) /\ Truthful(draft, cur)
    BY <1>1, <1>2 DEF LedgerInv, LedgerTruth, Sound, PublishSource
  <1>4. CASE UNCHANGED corpus
    BY <1>2, <1>3, <1>4, CorpusConstant DEF Truthful
  <1>5. CASE ~UNCHANGED corpus
    <2>1. /\ corpus' \in Reissues(s)
          /\ reissued' = IF s \in projected THEN reissued \cup {s} ELSE reissued
      BY <1>5 DEF PublishSource
    <2>2. cur < s
      <3>1. CASE s \in projected
        BY <1>1, <1>2, <2>1, <3>1 DEF Sound
      <3>2. CASE s \notin projected
        <4>1. Idx \in Readable
          BY <1>1, RunningIndex DEF LedgerInv, StoreInv, KeptInv, TypeInv, TypeOK, Readable,
                                    Idx, OpenIndexes, Artifacts
        <4>2. \A t \in Shards : t < cur \/ t = cur => t \in projected
          BY <1>1, <1>2, <4>1 DEF LedgerInv, StoreInv, KeptInv, IndexesKnown, PrefixIndexed,
                                  Underway
        <4>3. QED
          BY <1>2, <3>2, <4>2 DEF Shards
      <3>3. QED
        BY <3>1, <3>2
    <2>3. OthersKept(s)
      BY <1>2, <2>1, ReissueKeepsOthers DEF TypeOK
    <2>4. PICK c \in Shards, d \in {draft} : c = cur
      BY <1>2
    <2>5. Truthful(d, c)'
      BY <1>3, <2>2, <2>3, <2>4, ReissueKeepsTruth
    <2>6. QED
      BY <1>2, <2>4, <2>5 DEF Truthful
  <1>6. QED
    BY <1>4, <1>5

LEMMA TruthQuiet ==
    ASSUME LedgerInv, [Next]_vars, UNCHANGED <<corpus, reissued>>
    PROVE  LedgerTruth'
  <1>a. /\ StoreInv /\ KeptInv /\ TypeInv /\ TypeOK /\ LedgerTruth /\ cur \in Shards
    BY DEF LedgerInv, StoreInv, KeptInv, TypeInv, TypeOK
  <1>1. CASE pc' \notin Artifacts \cup {"index"}
    BY <1>1 DEF LedgerTruth
  <1>2. CASE pc \in Artifacts \cup {"index"} /\ UNCHANGED <<draft, cur>>
    <2>1. Sound(cur)' => Sound(cur)
      BY <1>2 DEF Sound
    <2>2. QED
      BY <1>a, <1>2, <2>1, CorpusConstant DEF LedgerTruth, Truthful
  <1>3. ASSUME Project, pc' = "canonical" PROVE LedgerTruth'
    <2>1. pc = "project" /\ UNCHANGED <<stored, cur>> /\ draft' = Partition(cur)
      BY <1>3 DEF Project, Abandon
    <2>2. Idx \in Readable /\ \A t \in Shards : t < cur => Indexed(Idx, t)
      BY <1>a, <2>1, RunningIndex
         DEF Readable, Idx, OpenIndexes, TypeOK, KeptInv, PrefixIndexed, Underway
    <2>3. \A t \in Shards : Indexed(Idx, t) => ~(cur < t)
      BY <1>a, <2>1, <2>2 DEF LedgerInv, MarksFirst, StoreInv, RunProgress
    <2>4. Sound(cur)' => OwnersExact(Idx)
      BY <1>a, <2>1, <2>2, <2>3 DEF Sound, Current, KeptInv, KeptIsFirstOwner, TypeOK
    <2>5. Sound(cur)' => Truthful(Partition(cur), cur)
      BY <1>a, <2>1, <2>2, <2>4, ProjectionTruthful
    <2>6. QED
      BY <2>1, <2>5, CorpusConstant DEF LedgerTruth, Truthful
  <1>4. QED
    BY <1>1, <1>2, <1>3
       DEF Next, RunStep, vars, durable, run, PublishSource, Start, Interrupt, Abandon,
           Validate, CheckExisting, Advance, Project, UploadArtifact, CorruptUpload,
           UploadIndex, MarkComplete, Report, Artifacts

LEMMA LedgerInvNext == LedgerInv /\ [Next]_vars => LedgerInv'
  BY CorpusSteps, StoreNext, MarksNext, MarkedKnownNext, TruthPublish, TruthQuiet DEF LedgerInv

-----------------------------------------------------------------------------
(* The refinement mapping and its steps.                                   *)

LedgerOf == [s \in Shards |->
                IF Completed(s) THEN [published |-> TRUE,
                                      owner |-> stored[s]["completion"].body.owner]
                ELSE [published |-> FALSE]]

Scores == UNION {stored[s]["completion"].body.unique : s \in {t \in Shards : Completed(t)}}

(* The ledger's own notions are those of the corpus.                       *)
LEMMA LedgerNotions ==
    /\ Ledger!Shards = Shards
    /\ \A s : Ledger!Published(s) =
                 [published |-> TRUE,
                  owner |-> [i \in AcceptedRows(s) |-> OwnerOf(corpus[i].hash)]]
    /\ \A s : {i \in Ledger!Rows(s) : Ledger!FirstOwner(i)} = {i \in Rows(s) : FirstOwner(i)}
    /\ \A s : Ledger!Sound(s) <=> Sound(s)
    /\ \A s : Ledger!Reissues(s) = Reissues(s)
  <1>1. Ledger!Shards = Shards
    BY DEF Ledger!Shards, Shards
  <1>2. \A i : Ledger!FirstOwner(i) <=> FirstOwner(i)
    BY DEF Ledger!FirstOwner, Ledger!Accepted, Ledger!Before, FirstOwner, Accepted, Before
  <1>3. \A h : Ledger!OwnerOf(h) = OwnerOf(h)
    BY Zenon, <1>2 DEF Ledger!OwnerOf, OwnerOf
  <1>4. \A s : Ledger!AcceptedRows(s) = AcceptedRows(s) /\ Ledger!Rows(s) = Rows(s)
    BY DEF Ledger!AcceptedRows, Ledger!Rows, Ledger!Accepted, AcceptedRows, Rows, Accepted
  <1>5. \A s : Ledger!Sound(s) <=> Sound(s)
    BY DEF Ledger!Sound, Sound
  <1>6. \A s : Ledger!Reissues(s) = Reissues(s)
    BY <1>4 DEF Ledger!Reissues, Reissues
  <1>7. QED
    BY <1>1, <1>2, <1>3, <1>4, <1>5, <1>6 DEF Ledger!Published

LEMMA RefinesInit == Init => Ledger!LInit
  <1> SUFFICES ASSUME Init PROVE Ledger!LInit
    OBVIOUS
  <1>1. \A s \in Shards : ~Completed(s)
    BY DEF Init, Completed, Absent, Artifacts
  <1>2. LedgerOf = [s \in Shards |-> [published |-> FALSE]]
    BY <1>1 DEF LedgerOf
  <1>3. Scores = {}
    BY <1>1 DEF Scores
  <1>4. corpus \in Corpora /\ (report # Absent) = FALSE /\ reissued = {}
    BY DEF Init
  <1>5. QED
    BY <1>2, <1>3, <1>4, LedgerNotions DEF Ledger!LInit, Ledger!Unpublished, LedgerOf, Scores

(* The mapped state changes only with a completion marker or a report.     *)
LEMMA SilentStep ==
    ASSUME \A s \in Shards : Completed(s)' <=> Completed(s),
           \A s \in Shards : Completed(s) =>
              stored'[s]["completion"] = stored[s]["completion"]
    PROVE  LedgerOf' = LedgerOf /\ Scores' = Scores
  <1>1. LedgerOf' = LedgerOf
    BY DEF LedgerOf
  <1>2. Scores' = Scores
    <2>1. ASSUME NEW x PROVE x \in Scores' <=> x \in Scores
      BY DEF Scores
    <2>2. QED
      BY <2>1
  <1>3. QED
    BY <1>1, <1>2

LEMMA RefinesPublish ==
    ASSUME LedgerInv, NEW s \in Shards, PublishSource(s)
    PROVE  [Ledger!LNext]_(Ledger!lvars)
  <1>1. UNCHANGED <<stored, report>>
    BY DEF PublishSource
  <1>2. LedgerOf' = LedgerOf /\ Scores' = Scores
    BY <1>1, SilentStep DEF Completed
  <1>3. CASE UNCHANGED corpus
    <2>1. UNCHANGED reissued
      BY <1>3 DEF PublishSource
    <2>2. QED
      BY <1>1, <1>2, <1>3, <2>1 DEF Ledger!lvars, LedgerOf, Scores
  <1>4. CASE ~UNCHANGED corpus
    <2>1. /\ corpus' \in Reissues(s)
          /\ reissued' = IF s \in projected THEN reissued \cup {s} ELSE reissued
      BY <1>4 DEF PublishSource
    <2>2. s \notin projected => ~LedgerOf[s].published
      <3>1. Completed(s) => s \in projected
        BY CompletedIsMarked DEF LedgerInv, MarkedKnown, Marked
      <3>2. QED
        BY <3>1 DEF LedgerOf
    <2>3. Ledger!Reissue(s)
      BY <1>1, <1>2, <2>1, <2>2, LedgerNotions DEF Ledger!Reissue, LedgerOf, Scores
    <2>4. QED
      BY <2>3, LedgerNotions DEF Ledger!LNext
  <1>5. QED
    BY <1>3, <1>4

LEMMA RefinesQuiet ==
    ASSUME LedgerInv, [Next]_vars, UNCHANGED <<corpus, reissued>>
    PROVE  [Ledger!LNext]_(Ledger!lvars)
  <1>a. /\ StoreInv /\ TypeOK /\ LedgerTruth /\ cur \in Shards
        /\ stored \in [Shards -> [Artifacts -> ArtifactStates]]
    BY DEF LedgerInv, StoreInv, KeptInv, TypeInv, TypeOK
  <1>1. ASSUME UNCHANGED report,
               \A s \in Shards : Completed(s)' <=> Completed(s),
               \A s \in Shards : Completed(s) =>
                  stored'[s]["completion"] = stored[s]["completion"]
        PROVE  UNCHANGED Ledger!lvars
    <2>1. LedgerOf' = LedgerOf /\ Scores' = Scores
      BY <1>1, SilentStep
    <2>2. QED
      BY <1>1, <2>1 DEF Ledger!lvars, LedgerOf, Scores
  <1>2. CASE UNCHANGED <<stored, report>>
    BY <1>1, <1>2 DEF Completed
  <1>3. ASSUME UploadArtifact PROVE [Ledger!LNext]_(Ledger!lvars)
    <2>1. PICK k \in Shards : k = cur
      BY <1>a
    <2>2. pc \in Artifacts /\ (Sound(k) => Truthful(draft, k)) /\ ~Marked(k) /\ UNCHANGED report
      BY <1>3, <1>a, <2>1 DEF UploadArtifact, LedgerTruth, StoreInv, RunProgress
    <2>3. PICK v \in {Stored(draft), Corrupt} : stored' = [stored EXCEPT ![k][pc] = v]
      BY <1>3, <2>1 DEF UploadArtifact
    <2>4. ~Completed(k)
      BY <2>2, CompletedIsMarked
    <2>5. \A s \in Shards : s # k => stored'[s] = stored[s]
      BY <1>a, <2>3
    <2>6. CASE pc # "completion" \/ v = Corrupt
      <3>1. ~Completed(k)'
        BY <1>a, <2>2, <2>3, <2>4, <2>6, StoredIsNotAbsent DEF Completed, Artifacts
      <3>2. QED
        BY <1>1, <2>2, <2>4, <2>5, <3>1 DEF Completed
    <2>7. CASE pc = "completion" /\ v = Stored(draft)
      <3>1. stored'[k]["completion"] = Stored(draft)
        BY <1>a, <2>3, <2>7 DEF Artifacts
      <3>2. Completed(k)' /\ stored'[k]["completion"].body = draft
        BY <3>1, StoredIsNotAbsent DEF Completed
      <3>3. /\ LedgerOf' = [LedgerOf EXCEPT ![k] = LedgerOf'[k]] /\ LedgerOf'[k].published
            /\ Sound(k) => LedgerOf'[k] = Ledger!Published(k)
        <4>1. ASSUME NEW s \in Shards, s # k PROVE LedgerOf'[s] = LedgerOf[s]
          BY <2>5, <4>1 DEF LedgerOf, Completed
        <4>2. LedgerOf'[k] = [published |-> TRUE, owner |-> draft.owner]
          BY <3>2 DEF LedgerOf
        <4>3. Sound(k) => LedgerOf'[k] = Ledger!Published(k)
          BY <2>2, <4>2, LedgerNotions DEF Truthful
        <4>4. QED
          BY <4>1, <4>2, <4>3 DEF LedgerOf
      <3>4. Scores' = Scores \cup draft.unique
        <4>1. \A s \in Shards : /\ Completed(s)' <=> Completed(s) \/ s = k
                                /\ s # k => stored'[s] = stored[s]
          BY <2>5, <3>2 DEF Completed
        <4>2. ASSUME NEW x PROVE x \in Scores' <=> x \in Scores \/ x \in draft.unique
          BY <2>4, <3>2, <4>1 DEF Scores
        <4>3. QED
          BY <4>2
      <3>5. /\ ~LedgerOf[k].published
            /\ \A t \in Shards : t < k => LedgerOf[t].published
        BY <1>a, <2>1, <2>2, <2>4 DEF LedgerOf, StoreInv, RunProgress, Bound, Underway
      <3>6. /\ draft.unique \in SUBSET Stream
            /\ Sound(k) => draft.unique \subseteq {i \in Ledger!Rows(k) : Ledger!FirstOwner(i)}
        BY <1>a, <2>2, LedgerNotions DEF Truthful, TypeOK, Manifests
      <3>7. Ledger!Publish(k)
        BY <2>2, <3>3, <3>4, <3>5, <3>6, LedgerNotions
           DEF Ledger!Publish, LedgerOf, Scores
      <3>8. Ledger!LNext
        BY <3>7, LedgerNotions DEF Ledger!LNext
      <3>9. QED
        BY <3>8
    <2>8. QED
      BY <2>3, <2>6, <2>7
  <1>4. ASSUME Report PROVE [Ledger!LNext]_(Ledger!lvars)
    <2>1. UNCHANGED stored /\ pc = "report" /\ report' # Absent
      BY <1>4 DEF Report, Absent
    <2>2. \A s \in Shards : Completed(s)
      <3>1. Bound(cur) /\ \A t \in Shards : t < cur => Bound(t)
        BY <1>a, <2>1 DEF StoreInv, RunProgress, Underway
      <3>2. \A t \in Shards : t < cur \/ t = cur
        BY <1>a, <2>1 DEF StoreInv, RunProgress, Shards
      <3>3. QED
        BY <3>1, <3>2 DEF Bound
    <2>3. LedgerOf' = LedgerOf /\ Scores' = Scores
      BY <2>1, SilentStep DEF Completed
    <2>4. \A s \in Shards : LedgerOf[s].published
      BY <2>2 DEF LedgerOf
    <2>5. Ledger!Finish
      BY <2>1, <2>3, <2>4, LedgerNotions DEF Ledger!Finish, LedgerOf, Scores
    <2>6. QED
      BY <2>5 DEF Ledger!LNext
  <1>5. QED
    BY <1>2, <1>3, <1>4
       DEF Next, RunStep, vars, durable, PublishSource, Start, Interrupt, Validate,
           CheckExisting, Project, UploadIndex, MarkComplete

LEMMA RefinesNext ==
    ASSUME LedgerInv, [Next]_vars
    PROVE  [Ledger!LNext]_(Ledger!lvars)
  BY CorpusSteps, RefinesPublish, RefinesQuiet

(* Every run of the consolidation, interrupted, damaged and restarted in   *)
(* any way, publishes each shard once, in order, with the right owner for  *)
(* every accepted stream and scores of first owners only, up to the first  *)
(* shard that got other rows after its projection.                         *)
THEOREM ConsolidationRefinesLedger == Spec => ImplementsLedger
  <1>1. Spec => []LedgerInv
    BY LedgerInvInit, LedgerInvNext, PTL DEF Spec
  <1>2. LedgerInv /\ [Next]_vars => [Ledger!LNext]_(Ledger!lvars)
    BY RefinesNext
  <1>3. QED
    BY RefinesInit, <1>1, <1>2, PTL DEF Spec, ImplementsLedger, Ledger!LSpec

-----------------------------------------------------------------------------
(***************************************************************************)
(* A shard whose rows no index held when it was projected is projected     *)
(* onto an index that knows just the shards before it, so the first owners *)
(* among its rows are those the index misses.                              *)
(***************************************************************************)

Owned(s) == {i \in Rows(s) : FirstOwner(i)}

ScoreTruth ==
    /\ pc \in Artifacts \cup {"index"} /\ cur \notin replayed /\ Sound(cur) =>
          Owned(cur) \subseteq draft.unique
    /\ ScoresUnlessReplayed

ScoreInv == LedgerInv /\ ScoreTruth

LEMMA FreshProjection ==
    ASSUME TypeInv, pc # "idle", OwnersExact(Idx), NEW s \in Shards, ~Indexed(Idx, s),
           \A t \in Shards : Indexed(Idx, t) => t < s
    PROVE  Owned(s) \subseteq Partition(s).unique
  <1>1. corpus \in [Stream -> Item] /\ Idx \in OpenIndexes
    BY RunningIndex DEF TypeInv, TypeOK
  <1>2. SUFFICES ASSUME NEW i \in Rows(s), FirstOwner(i) PROVE i \in UniqueRows(s)
    BY DEF Owned, Partition
  <1> DEFINE h == corpus[i].hash
  <1>3. /\ i \in Stream /\ corpus[i].shard = s /\ Accepted(i) /\ i \in AcceptedRows(s)
        /\ h \in Hash /\ i \in Copies(s, h)
    BY <1>1, <1>2, CorpusType DEF Rows, AcceptedRows, Copies, FirstOwner
  <1>4. Idx.kept[h] = NoStream
    <2>1. SUFFICES ASSUME Idx.kept[h] # NoStream PROVE FALSE
      OBVIOUS
    <2>2. PICK t \in Shards : Indexed(Idx, t) /\ Copies(t, h) # {}
      BY <1>3, <2>1 DEF OwnersExact
    <2>3. PICK j \in Copies(t, h) : TRUE
      BY <2>2
    <2>4. j \in Stream /\ corpus[j].shard = t /\ Accepted(j) /\ corpus[j].hash = h
      BY <2>3 DEF Copies, AcceptedRows, Rows
    <2>5. i = j \/ Before(i, j)
      BY <1>2, <2>4 DEF FirstOwner
    <2>6. t < s
      BY <2>2
    <2> QED BY <1>3, <2>4, <2>5, <2>6 DEF Before, Shards
  <1>5. i = FirstCopy(s, h)
    <2>1. FirstCopy(s, h) \in Copies(s, h) /\ FirstCopy(s, h) <= i
      BY <1>3, FirstCopyIsLeast
    <2>2. /\ FirstCopy(s, h) \in Stream /\ Accepted(FirstCopy(s, h))
          /\ corpus[FirstCopy(s, h)].hash = h /\ corpus[FirstCopy(s, h)].shard = s
      BY <2>1 DEF Copies, AcceptedRows, Rows
    <2>3. i = FirstCopy(s, h) \/ Before(i, FirstCopy(s, h))
      BY <1>2, <2>2 DEF FirstOwner
    <2> QED BY <1>1, <1>3, <2>1, <2>2, <2>3, CorpusType DEF Before, Shards
  <1> QED BY <1>3, <1>4, <1>5 DEF UniqueRows

LEMMA ScoreInit == Init => ScoreInv
  <1> SUFFICES ASSUME Init PROVE ScoreTruth
    BY LedgerInvInit DEF ScoreInv
  <1>1. \A s \in Shards : ~Completed(s)
    BY DEF Init, Completed, Absent, Artifacts
  <1> QED
    BY <1>1 DEF Init, ScoreTruth, ScoresUnlessReplayed, Artifacts

(* A shard with a marker has been projected, and so have those before it.  *)
LEMMA ScorePublish ==
    ASSUME ScoreInv, NEW s \in Shards, PublishSource(s)
    PROVE  ScoreTruth'
  <1>a. /\ TypeOK /\ cur \in Shards /\ UNCHANGED <<stored, replayed, pc, cur, draft>>
        /\ Shards \subseteq Nat
    BY DEF PublishSource, run, ScoreInv, LedgerInv, StoreInv, KeptInv, TypeInv, TypeOK, Shards
  <1>b. \A u \in Shards : Sound(u)' => Sound(u)
    BY DEF Sound, PublishSource
  <1>1. CASE UNCHANGED corpus
    <2>1. \A u \in Shards : Owned(u)' = Owned(u)
      BY <1>1, CorpusConstant DEF Owned
    <2>2. QED
      BY <1>a, <1>b, <2>1 DEF ScoreInv, ScoreTruth, ScoresUnlessReplayed, Completed, Owned, Sound
  <1>2. CASE ~UNCHANGED corpus
    <2>1. /\ corpus' \in Reissues(s)
          /\ reissued' = IF s \in projected THEN reissued \cup {s} ELSE reissued
      BY <1>2 DEF PublishSource
    <2>2. OthersKept(s)
      BY <1>a, <2>1, ReissueKeepsOthers DEF TypeOK
    <2>3. ASSUME NEW u \in Shards, u < s PROVE Owned(u)' = Owned(u)
      <3>1. Rows(u)' = Rows(u) /\ \A i \in Rows(u) : i \in Stream /\ corpus[i].shard < s
        BY <1>a, <2>2, <2>3, OtherRows DEF Rows
      <3>2. QED
        BY <2>2, <3>1, EarlierOwners DEF Owned
    <2>4. ASSUME NEW u \in Shards, Sound(u)', \A t \in Shards : t < u \/ t = u => t \in projected
          PROVE  u < s
      BY <1>a, <2>1, <2>4 DEF Sound
    <2>5. ASSUME NEW u \in Shards, Completed(u), u \notin replayed, Sound(u)'
          PROVE  Owned(u)' \subseteq stored[u]["completion"].body.unique
      <3>1. \A t \in Shards : t < u \/ t = u => t \in projected
        BY <2>5, CompletedIsMarked
           DEF ScoreInv, LedgerInv, MarkedKnown, StoreInv, MarkersInOrder
      <3>2. Owned(u)' = Owned(u)
        BY <2>3, <2>4, <2>5, <3>1
      <3>3. QED
        BY <1>b, <2>5, <3>2 DEF ScoreInv, ScoreTruth, ScoresUnlessReplayed, Owned
    <2>6. ASSUME pc \in Artifacts \cup {"index"}, cur \notin replayed, Sound(cur)'
          PROVE  Owned(cur)' \subseteq draft.unique
      <3>1. PICK u \in Shards : u = cur
        BY <1>a
      <3>2. Idx \in Readable
        BY <2>6, RunningIndex DEF ScoreInv, LedgerInv, StoreInv, KeptInv, TypeInv, TypeOK,
                                  Readable, Idx, OpenIndexes, Artifacts
      <3>3. \A t \in Shards : t < u \/ t = u => t \in projected
        BY <2>6, <3>1, <3>2 DEF ScoreInv, LedgerInv, StoreInv, KeptInv, IndexesKnown,
                                PrefixIndexed, Underway
      <3>4. Sound(u)'
        BY <1>a, <2>6, <3>1 DEF Sound
      <3>5. Owned(u)' = Owned(u)
        BY <2>3, <2>4, <3>3, <3>4
      <3>6. Owned(cur)' = Owned(u)'
        BY <1>a, <3>1 DEF Owned, Rows
      <3>7. QED
        BY <1>b, <2>6, <3>1, <3>4, <3>5, <3>6 DEF ScoreInv, ScoreTruth
    <2>7. QED
      BY <1>a, <2>5, <2>6 DEF ScoreTruth, ScoresUnlessReplayed, Completed, Owned
  <1>3. QED
    BY <1>1, <1>2

LEMMA ScoreQuiet ==
    ASSUME ScoreInv, [Next]_vars, UNCHANGED <<corpus, reissued>>
    PROVE  ScoreTruth'
  <1>a. /\ StoreInv /\ KeptInv /\ TypeInv /\ TypeOK /\ ScoreTruth /\ RunProgress
        /\ cur \in Shards /\ stored \in [Shards -> [Artifacts -> ArtifactStates]]
    BY DEF ScoreInv, LedgerInv, StoreInv, KeptInv, TypeInv, TypeOK
  <1>c. \A s : Owned(s)' = Owned(s) /\ (Sound(s)' <=> Sound(s))
    BY CorpusConstant DEF Owned, Sound
  <1>d. ASSUME NEW s \in Shards, stored'[s]["completion"] = stored[s]["completion"],
               replayed \subseteq replayed', Completed(s)', s \notin replayed', Sound(s)
        PROVE  Owned(s)' \subseteq stored'[s]["completion"].body.unique
    <2>1. Completed(s) /\ s \notin replayed
      BY <1>d DEF Completed
    <2>2. Owned(s) \subseteq stored[s]["completion"].body.unique
      BY <1>a, <1>d, <2>1 DEF ScoreTruth, ScoresUnlessReplayed, Owned
    <2> QED BY <1>c, <1>d, <2>2
  <1>e. ASSUME UNCHANGED stored, replayed \subseteq replayed' PROVE ScoresUnlessReplayed'
    <2>1. \A s \in Shards : Completed(s)' /\ s \notin replayed' /\ Sound(s) =>
              Owned(s)' \subseteq stored'[s]["completion"].body.unique
      BY <1>d, <1>e
    <2> QED BY <1>c, <2>1 DEF ScoresUnlessReplayed, Owned
  <1>1. CASE UNCHANGED <<stored, replayed>> /\ pc' \notin Artifacts \cup {"index"}
    BY <1>1, <1>e DEF ScoreTruth
  <1>2. ASSUME UNCHANGED <<stored, replayed, draft, cur>>,
               pc \in Artifacts \cup {"index"} \/ pc' = pc
        PROVE  ScoreTruth'
    BY <1>2, <1>a, <1>c, <1>e DEF ScoreTruth
  <1>3. ASSUME Project, pc' = "canonical" PROVE ScoreTruth'
    <2>1. /\ pc = "project" /\ UNCHANGED <<stored, cur>> /\ draft' = Partition(cur)
          /\ replayed' = IF Idx.row[cur] = "ABSENT" THEN replayed ELSE replayed \cup {cur}
      BY <1>3 DEF Project, Abandon
    <2>2. Idx \in Readable
      BY <1>a, <2>1, RunningIndex DEF Readable, Idx, OpenIndexes, TypeOK
    <2>3. ASSUME cur \notin replayed', Sound(cur) PROVE Owned(cur)' \subseteq draft'.unique
      <3>1. ~Indexed(Idx, cur)
        BY <2>1, <2>3 DEF Indexed
      <3>2. \A t \in Shards : Indexed(Idx, t) => t < cur
        BY <1>a, <2>2, <3>1 DEF KeptInv, IndexesKnown, PrefixOnly, Shards
      <3>3. OwnersExact(Idx)
        BY <1>a, <2>2, <2>3, <3>2 DEF KeptInv, KeptIsFirstOwner, Current, Sound, TypeOK, Shards
      <3> QED BY <1>a, <1>c, <2>1, <3>1, <3>2, <3>3, FreshProjection
    <2>4. replayed \subseteq replayed'
      BY <2>1
    <2> QED BY <1>c, <1>e, <2>1, <2>3, <2>4 DEF ScoreTruth
  <1>4. ASSUME UploadArtifact PROVE ScoreTruth'
    <2>1. pc \in Artifacts /\ UNCHANGED replayed
            /\ (cur \notin replayed /\ Sound(cur) => Owned(cur) \subseteq draft.unique)
      BY <1>4, <1>a DEF UploadArtifact, history, ScoreTruth
    <2>2. PICK v \in {Stored(draft), Corrupt} : stored' = [stored EXCEPT ![cur][pc] = v]
      BY <1>4 DEF UploadArtifact
    <2>3. ASSUME NEW s \in Shards, Completed(s)', s \notin replayed', Sound(s)
          PROVE  Owned(s)' \subseteq stored'[s]["completion"].body.unique
      <3>1. CASE s = cur /\ pc = "completion"
        <4>1. stored'[s]["completion"] = Stored(draft)
          BY <1>a, <2>2, <2>3, <3>1, StoredIsNotAbsent DEF Completed, Artifacts
        <4> QED BY <1>c, <2>1, <2>3, <3>1, <4>1, StoredIsNotAbsent
      <3>2. CASE ~(s = cur /\ pc = "completion")
        <4>1. stored'[s]["completion"] = stored[s]["completion"]
          BY <1>a, <2>1, <2>2, <3>2 DEF Artifacts
        <4> QED BY <1>d, <2>1, <2>3, <4>1
      <3> QED BY <3>1, <3>2
    <2>4. ScoresUnlessReplayed'
      BY <1>c, <2>3 DEF ScoresUnlessReplayed, Owned
    <2>5. pc' \in Artifacts \cup {"index"} => UNCHANGED <<draft, cur>>
      BY <1>4 DEF UploadArtifact, CorruptUpload, Abandon, Artifacts
    <2> QED BY <1>c, <2>1, <2>4, <2>5 DEF ScoreTruth
  <1>5. CASE UploadIndex
    <2>1. UNCHANGED <<stored, replayed>>
      BY <1>5 DEF UploadIndex, history
    <2>2. pc' \in Artifacts \cup {"index"} => pc = "index" /\ UNCHANGED <<draft, cur>>
      BY <1>5 DEF UploadIndex, CorruptUpload, Advance, Abandon, Artifacts
    <2> QED BY <1>1, <1>2, <2>1, <2>2
  <1>6. QED
    BY <1>1, <1>2, <1>3, <1>4, <1>5
       DEF Next, RunStep, vars, durable, run, history, PublishSource, Start, Interrupt, Abandon,
           Validate, CheckExisting, Advance, Project, MarkComplete, Report, Artifacts

LEMMA ScoreNext == ScoreInv /\ [Next]_vars => ScoreInv'
  BY CorpusSteps, LedgerInvNext, ScorePublish, ScoreQuiet DEF ScoreInv

(* A completed partition has the scores of the first owners among its      *)
(* rows, unless it was projected onto an index that already held them or   *)
(* it or an earlier package was published again with other rows after its  *)
(* projection: the two ways in which a consolidation loses scores.         *)
THEOREM CompletedHaveScores == Spec => []ScoresUnlessReplayed
  <1>1. ScoreInv => ScoresUnlessReplayed
    BY DEF ScoreInv, ScoreTruth
  <1>2. QED
    BY <1>1, ScoreInit, ScoreNext, PTL DEF Spec
=============================================================================
