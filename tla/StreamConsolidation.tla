------------------------ MODULE StreamConsolidation ------------------------
(***************************************************************************)
(* stream_consolidate: source shard packages are projected, one at a time  *)
(* and in ascending order, into compact canonical partitions.  A partition *)
(* and the canonical-hash index are uploaded and hash-checked before the   *)
(* partition's completion marker; a rerun skips the shards that have one.  *)
(*                                                                         *)
(* One run is active at a time.  It may be killed, or end with an error,   *)
(* between any two steps, and be started again in the same workspace or in *)
(* another one, which then begins from the remote copy of the index.       *)
(***************************************************************************)
EXTENDS Corpus

CONSTANTS Workspaces,      \* directories a run may be started in
          NoStream,        \* "this hash has no owner yet"
          MaxInterrupts,   \* bound: runs killed or failing on I/O
          MaxCorrupt,      \* bound: uploads the store does not keep intact
          MaxRepublish     \* bound: source packages published again

ASSUME NoStreamAssumption == NoStream \notin Stream
ASSUME BoundsAssumption == {MaxInterrupts, MaxCorrupt, MaxRepublish} \subseteq Nat

VARIABLES
    source,      \* source[s]: times package s was published, 0 = incomplete
    index,       \* index[w]: canonical-index.sqlite of workspace w, committed
    stored,      \* stored[s][k]: artifact k of partition s in the store
    storedIndex, \* canonical-index.sqlite in the store
    report,      \* the run's completion.json in the store: what it binds
    pc, work, cur,  \* the active run: next step, its workspace, its shard
    packages,    \* source versions the active run validated
    draft,       \* the partition staged by the active run
    replayed,    \* shards projected onto an index that already held them
    projected,   \* shards whose rows some run has projected
    reissued,    \* of those, the ones published again with other rows
    interrupts, corruptions

durable == <<source, index, stored, storedIndex, report>>
run     == <<pc, work, cur, packages, draft>>
history == <<replayed, projected, reissued>>
bounds  == <<interrupts, corruptions>>
vars    == <<corpus, durable, run, history, bounds>>

Artifacts == {"canonical", "reconciliation", "manifest", "completion"}

Absent     == [state |-> "ABSENT"]
Corrupt    == [state |-> "CORRUPT"]
Stored(m)  == [state |-> "STORED", body |-> m]
EmptyIndex == [state |-> "OPEN",
               kept  |-> [h \in Hash |-> NoStream],
               count |-> [h \in Hash |-> 0],
               row   |-> [s \in Shards |-> "ABSENT"]]
NoDraft    == [source |-> 0, owner |-> [i \in {} |-> NoStream], unique |-> {}]

Idx == index[work]

-----------------------------------------------------------------------------
(* What one projection does to the index it runs on.                       *)

(* Mutation: the last copy in id order is kept.                            *)
LastCopy(s, h) == CHOOSE i \in Copies(s, h) : \A j \in Copies(s, h) : i >= j

FirstCopy(s, h) == CHOOSE i \in Copies(s, h) : \A j \in Copies(s, h) : i <= j

(* Mutation: a later shard takes over the hashes it shares.                *)
KeptReplaced(s) ==
    [h \in Hash |-> IF Copies(s, h) # {} THEN FirstCopy(s, h) ELSE Idx.kept[h]]

KeptAfter(s) ==
    [h \in Hash |-> IF Idx.kept[h] = NoStream /\ Copies(s, h) # {}
                    THEN FirstCopy(s, h) ELSE Idx.kept[h]]

CountAfter(s) == [h \in Hash |-> Idx.count[h] + Cardinality(Copies(s, h))]

(* Mutation: a first owner that cannot be materialised is passed over.     *)
UniqueMaterialisable(s) ==
    {i \in AcceptedRows(s) : /\ Idx.kept[corpus[i].hash] = NoStream
                             /\ i = FirstCopy(s, corpus[i].hash)
                             /\ Materialisable(i)}

(* Rows whose hash the index did not know: their scores are written.       *)
UniqueRows(s) ==
    {i \in AcceptedRows(s) : /\ Idx.kept[corpus[i].hash] = NoStream
                             /\ i = FirstCopy(s, corpus[i].hash)}

IndexAfter(s) ==
    [state |-> "OPEN", kept |-> KeptAfter(s), count |-> CountAfter(s),
     row |-> [Idx.row EXCEPT ![s] = "PREPARED"]]

Partition(s) ==
    [source |-> packages[s],
     owner  |-> [i \in AcceptedRows(s) |-> KeptAfter(s)[corpus[i].hash]],
     unique |-> UniqueRows(s)]

Projectable(s) ==
    /\ \A i \in Rows(s) : Accepted(i) \/ Rejected(i)
    /\ \A i \in UniqueRows(s) : Materialisable(i)

-----------------------------------------------------------------------------
Init ==
    /\ corpus \in Corpora
    /\ source = [s \in Shards |-> 0]
    /\ index = [w \in Workspaces |-> Absent]
    /\ stored = [s \in Shards |-> [k \in Artifacts |-> Absent]]
    /\ storedIndex = Absent
    /\ report = Absent
    /\ pc = "idle" /\ work \in Workspaces /\ cur = 0
    /\ packages = [s \in Shards |-> 0]
    /\ draft = NoDraft
    /\ replayed = {} /\ projected = {} /\ reissued = {}
    /\ interrupts = 0 /\ corruptions = 0

(* A worker publishes a source package, or publishes it again by force,    *)
(* whatever was derived from it since, and perhaps with other rows.        *)
PublishSource(s) ==
    /\ \/ source[s] = 0 /\ UNCHANGED <<corpus, reissued>>
       \/ /\ source[s] = 1 /\ Cardinality({t \in Shards : source[t] > 1}) < MaxRepublish
          /\ corpus' \in Reissues(s)
          /\ reissued' = IF corpus' # corpus /\ s \in projected
                         THEN reissued \cup {s} ELSE reissued
    /\ source' = [source EXCEPT ![s] = @ + 1]
    /\ UNCHANGED <<index, stored, storedIndex, report, run, replayed, projected, bounds>>

(* The active run ends without a result; nothing uncommitted survives.     *)
Abandon ==
    /\ pc' = "idle" /\ cur' = 0
    /\ packages' = [s \in Shards |-> 0]
    /\ draft' = NoDraft
    /\ UNCHANGED work

Interrupt ==
    /\ pc # "idle" /\ interrupts < MaxInterrupts
    /\ interrupts' = interrupts + 1
    /\ Abandon
    /\ UNCHANGED <<corpus, durable, history, corruptions>>

(* A run opens its workspace's index, downloading one if it has none; a    *)
(* file that is not a database fails it when the schema is created.        *)
Start(w) ==
    /\ pc = "idle"
    /\ index' = [index EXCEPT ![w] =
                    IF @ # Absent THEN @
                    ELSE IF storedIndex # Absent THEN storedIndex ELSE EmptyIndex]
    /\ work' = w
    /\ pc' = IF index'[w] = Corrupt THEN "idle" ELSE "validate"
    /\ UNCHANGED <<corpus, source, stored, storedIndex, report,
                   cur, packages, draft, history, bounds>>

(* Every package is validated before the first one is consumed.            *)
Validate ==
    /\ pc = "validate"
    /\ IF \A s \in Shards : source[s] > 0
       THEN /\ packages' = source
            /\ pc' = "check" /\ cur' = 0
            /\ UNCHANGED <<work, draft>>
       ELSE Abandon
    /\ UNCHANGED <<corpus, durable, history, bounds>>

(* The shard is done: go on to the next one, or to the final report.       *)
Advance ==
    /\ IF cur + 1 < ShardCount
       THEN cur' = cur + 1 /\ pc' = "check"
       ELSE cur' = cur /\ pc' = "report"
    /\ draft' = NoDraft
    /\ UNCHANGED <<work, packages>>

(* Mutation: any completion marker will do.                                *)
AnySource == TRUE

SameSource == stored[cur]["completion"].body.source = packages[cur]

(* Mutation: a completed shard whose source changed is projected again.    *)
CheckExistingReprojects ==
    /\ pc = "check"
    /\ IF stored[cur]["completion"].state = "STORED" /\ SameSource
       THEN Advance
       ELSE pc' = "project" /\ UNCHANGED <<work, cur, packages, draft>>
    /\ UNCHANGED <<corpus, durable, history, bounds>>

(* Mutation: only a COMPLETE index row lets a completed shard be skipped.  *)
CheckExistingNeedsComplete ==
    /\ pc = "check"
    /\ \/ /\ stored[cur]["completion"] = Absent
          /\ pc' = "project"
          /\ UNCHANGED <<work, cur, packages, draft>>
       \/ /\ stored[cur]["completion"].state = "STORED"
          /\ IF SameSource /\ Idx.row[cur] = "COMPLETE" THEN Advance ELSE Abandon
    /\ UNCHANGED <<corpus, durable, history, bounds>>

(* A shard with a completion marker is skipped when the marker binds this  *)
(* source package and the index knows the shard; otherwise the run fails.  *)
CheckExisting ==
    /\ pc = "check"
    /\ \/ /\ stored[cur]["completion"] = Absent
          /\ pc' = "project"
          /\ UNCHANGED <<work, cur, packages, draft>>
       \/ /\ stored[cur]["completion"].state = "STORED"
          /\ SameSource
          /\ Idx.row[cur] # "ABSENT"
          /\ Advance
       \/ /\ \/ stored[cur]["completion"] = Corrupt
             \/ /\ stored[cur]["completion"].state = "STORED"
                /\ ~SameSource \/ Idx.row[cur] = "ABSENT"
          /\ Abandon
    /\ UNCHANGED <<corpus, durable, history, bounds>>

(* Download, verify and project the shard, then commit its rows, hashes    *)
(* and PREPARED state to the local index in one transaction.  A malformed  *)
(* row fails the run and rolls the index back, and so may a package that   *)
(* was published again since it was validated: only its item identifiers   *)
(* are compared, so that its rows may also be taken for those of the old.  *)
Project ==
    /\ pc = "project"
    /\ \/ /\ Projectable(cur)
          /\ draft' = Partition(cur)
          /\ index' = [index EXCEPT ![work] = IndexAfter(cur)]
          /\ replayed' = IF Idx.row[cur] = "ABSENT" THEN replayed
                         ELSE replayed \cup {cur}
          /\ projected' = projected \cup {cur}
          /\ pc' = "canonical"
          /\ UNCHANGED <<work, cur, packages>>
       \/ /\ ~Projectable(cur) \/ source[cur] # packages[cur]
          /\ Abandon
          /\ UNCHANGED <<index, replayed, projected>>
    /\ UNCHANGED <<corpus, source, stored, storedIndex, report, reissued, bounds>>

(* The store keeps another object than the one sent; the check that reads  *)
(* it back fails the run and leaves the object where it is.                *)
CorruptUpload ==
    /\ corruptions < MaxCorrupt
    /\ corruptions' = corruptions + 1
    /\ Abandon

AfterArtifact ==
    [k \in Artifacts |-> CASE k = "canonical"      -> "reconciliation"
                           [] k = "reconciliation" -> "manifest"
                           [] k = "manifest"       -> "index"
                           [] k = "completion"     -> "mark"]

(* Mutation: what was uploaded is not read back.                           *)
UploadUnverified ==
    /\ pc \in Artifacts
    /\ pc' = AfterArtifact[pc]
    /\ \/ /\ stored' = [stored EXCEPT ![cur][pc] = Stored(draft)]
          /\ UNCHANGED corruptions
       \/ /\ stored' = [stored EXCEPT ![cur][pc] = Corrupt]
          /\ corruptions < MaxCorrupt /\ corruptions' = corruptions + 1
    /\ UNCHANGED <<corpus, source, index, storedIndex, report, history, interrupts,
                   work, cur, packages, draft>>

UploadArtifact ==
    /\ pc \in Artifacts
    /\ \/ /\ stored' = [stored EXCEPT ![cur][pc] = Stored(draft)]
          /\ pc' = AfterArtifact[pc]
          /\ UNCHANGED <<work, cur, packages, draft, corruptions>>
       \/ /\ stored' = [stored EXCEPT ![cur][pc] = Corrupt]
          /\ CorruptUpload
    /\ UNCHANGED <<corpus, source, index, storedIndex, report, history, interrupts>>

UploadIndex ==
    /\ pc \in {"index", "final"}
    /\ \/ /\ storedIndex' = Idx
          /\ \/ /\ pc = "index" /\ pc' = "completion"
                /\ UNCHANGED <<work, cur, packages, draft>>
             \/ pc = "final" /\ Advance
          /\ UNCHANGED corruptions
       \/ storedIndex' = Corrupt /\ CorruptUpload
    /\ UNCHANGED <<corpus, source, index, stored, report, history, interrupts>>

MarkComplete ==
    /\ pc = "mark"
    /\ index' = [index EXCEPT ![work].row[cur] = "COMPLETE"]
    /\ pc' = "final"
    /\ UNCHANGED <<corpus, source, stored, storedIndex, report,
                   work, cur, packages, draft, history, bounds>>

Report ==
    /\ pc = "report"
    /\ report' = [state |-> "STORED", index |-> Idx, packages |-> packages]
    /\ Abandon
    /\ UNCHANGED <<corpus, source, index, stored, storedIndex, history, bounds>>

RunStep == \/ Validate \/ CheckExisting \/ Project \/ UploadArtifact
           \/ UploadIndex \/ MarkComplete \/ Report

Next == \/ \E s \in Shards : PublishSource(s)
        \/ \E w \in Workspaces : Start(w)
        \/ RunStep
        \/ Interrupt

Spec == Init /\ [][Next]_vars

(* A run that is not killed takes its next step; the packages are all      *)
(* published; and somebody restarts a run that ended.                      *)
Fairness ==
    /\ WF_vars(RunStep)
    /\ WF_vars(\E w \in Workspaces : Start(w))
    /\ \A s \in Shards : WF_vars(source[s] = 0 /\ PublishSource(s))

FairSpec == Spec /\ Fairness

-----------------------------------------------------------------------------
(* Type invariant.                                                         *)

Manifests == [source : Nat,
              owner  : UNION {[rows -> Stream] : rows \in SUBSET Stream},
              unique : SUBSET Stream]

ArtifactStates == {Absent, Corrupt} \cup [state : {"STORED"}, body : Manifests]

OpenIndexes == [state : {"OPEN"},
                kept  : [Hash -> Stream \cup {NoStream}],
                count : [Hash -> Nat],
                row   : [Shards -> {"ABSENT", "PREPARED", "COMPLETE"}]]

IndexStates == {Absent, Corrupt} \cup OpenIndexes

PCs == {"idle", "validate", "check", "project", "index", "mark", "final", "report"}
          \cup Artifacts

(* Every variable holds a value of its kind.                               *)
TypeOK ==
    /\ corpus \in [Stream -> Item]
    /\ source \in [Shards -> Nat]
    /\ index \in [Workspaces -> IndexStates]
    /\ stored \in [Shards -> [Artifacts -> ArtifactStates]]
    /\ storedIndex \in IndexStates
    /\ report \in {Absent} \cup
           [state : {"STORED"}, index : OpenIndexes, packages : [Shards -> Nat]]
    /\ pc \in PCs /\ work \in Workspaces /\ cur \in Shards
    /\ packages \in [Shards -> Nat]
    /\ draft \in Manifests
    /\ replayed \subseteq Shards /\ projected \subseteq Shards /\ reissued \subseteq Shards
    /\ interrupts \in Nat /\ corruptions \in Nat

-----------------------------------------------------------------------------
(* Properties.                                                             *)

Indexed(x, s) == x.row[s] # "ABSENT"

Readable == {x \in {index[w] : w \in Workspaces} \cup {storedIndex} : x.state = "OPEN"}

Completed(s) == stored[s]["completion"].state = "STORED"

(* The owner any index records for a hash is the first accepted stream in  *)
(* run order that has it, whichever workspaces ran, died and resumed, and  *)
(* an index owns exactly the hashes of the shards it has rows for          *)
(* (_project_partition and the single transaction of index.commit), for as *)
(* long as none of these shards is published again with other rows.        *)
OwnersExact(x) ==
    \A h \in Hash :
        /\ x.kept[h] # NoStream =>
              FirstOwner(x.kept[h]) /\ corpus[x.kept[h]].hash = h
        /\ x.kept[h] # NoStream <=> \E s \in Shards : Indexed(x, s) /\ Copies(s, h) # {}

Current(x) == \A s \in reissued : ~Indexed(x, s)

KeptIsFirstOwner == \A x \in Readable : Current(x) => OwnersExact(x)

(* A completion marker that reads back vouches for the three artifacts     *)
(* beside it: they come from the same attempt (uploads in stream_consolidate). *)
CompletionBindsPartition ==
    \A s \in Shards : Completed(s) =>
        \A k \in Artifacts : stored[s][k] = stored[s]["completion"]

(* The index in the store, when it can be read, knows every shard that has *)
(* a completion marker: a workspace without a local index can resume.      *)
CompletionNeedsIndex ==
    storedIndex.state = "OPEN" =>
        \A s \in Shards : stored[s]["completion"] # Absent => Indexed(storedIndex, s)

(* A completed partition stores the score of every first owner it holds,   *)
(* unless its rows were projected onto an index that already held them, or *)
(* it or an earlier shard was published again with other rows after it had *)
(* been projected: the index then still owns the hashes of the rows that   *)
(* are gone (stream_consolidate's insert ... on conflict do update).       *)
Sound(s) == \A t \in reissued : s < t

ScoresUnlessReplayed ==
    \A s \in Shards : Completed(s) /\ s \notin replayed /\ Sound(s) =>
        {i \in Rows(s) : FirstOwner(i)} \subseteq stored[s]["completion"].body.unique

(* The final report is written only when every shard is completed from the *)
(* very source package the reporting run validated, although packages may  *)
(* be republished while it runs.                                           *)
ReportBindsSources ==
    report # Absent => \A s \in Shards :
        Completed(s) /\ stored[s]["completion"].body.source = report.packages[s]

(* No step of any later run replaces a partition that has a completion     *)
(* marker, whatever was republished since (_existing_completion).          *)
CompletedIsFinal ==
    [][\A s \in Shards : stored[s]["completion"] # Absent => stored'[s] = stored[s]]_vars

(* Once every package is published, a run that is killed finitely often    *)
(* and restarted in its workspace reaches the final report, provided every *)
(* accepted row can be projected.                                          *)
WellFormed ==
    /\ \A i \in Stream : Accepted(i) \/ Rejected(i)
    /\ \A i \in Stream : Accepted(i) => Materialisable(i)

ResumesToReport == WellFormed => <>(report # Absent)

(* The procedure's promise: a finished run has materialised the one score  *)
(* of every canonical hash among its accepted streams.                     *)
EveryScoreMaterialised ==
    report # Absent => \A i \in Stream :
                  FirstOwner(i) => i \in stored[corpus[i].shard]["completion"].body.unique

-----------------------------------------------------------------------------
(* The refinement: a partition is published when its completion marker is  *)
(* stored, and only the owners and scores of published partitions count.   *)

Ledger == INSTANCE CanonicalLedger WITH
    ledger <- [s \in Shards |->
                 IF Completed(s) THEN [published |-> TRUE,
                                       owner |-> stored[s]["completion"].body.owner]
                 ELSE [published |-> FALSE]],
    materialised <- UNION {stored[s]["completion"].body.unique : s \in {t \in Shards : Completed(t)}},
    finished <- (report # Absent)

(* Every run, however interrupted, is a run of the abstract ledger.        *)
ImplementsLedger == Ledger!LSpec
=============================================================================
