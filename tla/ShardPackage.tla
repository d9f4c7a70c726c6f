--------------------------- MODULE ShardPackage ---------------------------
(***************************************************************************)
(* How a worker's partition becomes a package of a run, and how the run's  *)
(* readers take it.  An attempt stages a copy of the partition under a     *)
(* fresh creation time, its build, looks for the completion marker at the  *)
(* destination and publishes: to an object store file by file, in any      *)
(* order, the marker last; to a mounted directory by filling a sibling,    *)
(* removing the destination and renaming the sibling.                      *)
(*                                                                         *)
(* The two commands that read packages, the consolidation and the          *)
(* verification of a run, change nothing the other sees, so a behaviour    *)
(* follows one of them.                                                    *)
(*                                                                         *)
(* Nothing locks a destination.  What the readers may rely on depends on   *)
(* the policy of whoever starts the attempts: one at a time and never      *)
(* forced ("plain"), one at a time ("forced"), or at will ("shared").      *)
(***************************************************************************)
EXTENDS Integers, FiniteSets

CONSTANTS ShardCount,
          Publishers,     \* hosts that run attempts
          Files,          \* objects of a package beside its marker
          Database, Ledger, Manifest,   \* three of them: shard.sqlite,
                                        \* item-ids.json, manifest.json
          Marker,         \* completion.json
          MaxBuilds,      \* bound: attempts that stage a package
          MaxFailures,    \* bound: attempts that fail or are killed
          InPlay,         \* bound: InPlay[o]: shards packaged while o reads
          ItemIds         \* ItemIds[s][b]: the items build b has in shard s

Shards  == 1 .. ShardCount
Builds  == 1 .. MaxBuilds
Objects == Files \cup {Marker}
Absent  == 0
Content == {Absent} \cup Builds
Stages  == {"idle", "probe", "upload", "mark", "swap", "rename"}

ASSUME ShardAssumption == ShardCount \in Nat \ {0}
ASSUME BoundAssumption == MaxBuilds \in Nat /\ MaxFailures \in Nat
ASSUME FileAssumption == {Database, Ledger, Manifest} \subseteq Files /\ Marker \notin Files
ASSUME PlayAssumption == DOMAIN InPlay = {"consolidation", "audit"}
ASSUME IdsAssumption == \A s \in Shards : DOMAIN ItemIds[s] = Builds

VARIABLES
    transport,  \* "objects" or "directory", the scheme of the output URI
    policy,     \* how attempts are started
    observer,   \* the command that reads packages, see below
    store,      \* store[s][f]: the build an object of the package is from
    sibling,    \* sibling[s]: the directory that is being filled, or Missing
    attempt,    \* attempt[p]: what publisher p is doing
    builds,     \* packages staged so far
    failures,
    reader,     \* the consolidation, reading one shard
    taken,      \* taken[s]: marker and database it accepted
    audit       \* verify_distributed_run

packageVars == <<transport, policy, observer, store, sibling, attempt, builds, failures, reader, taken, audit>>

Empty   == [f \in Objects |-> Absent]
Missing == [f \in Objects |-> -1]
Idle    == [pc |-> "idle", shard |-> 1, build |-> 0, force |-> FALSE, todo |-> {}, lost |-> FALSE]
Resting == [pc |-> "idle", shard |-> 1, marker |-> 0, manifest |-> 0, ledger |-> 0]
Unread  == [pc |-> "marker", shard |-> 1, ids |-> {}]

Marked(s) == store[s][Marker] # Absent
Has(s, b) == \A f \in Objects : store[s][f] = b

With(package, f, b) == [package EXCEPT ![f] = b]

-----------------------------------------------------------------------------
PackageInit ==
    /\ transport \in {"objects", "directory"}
    /\ policy \in {"plain", "forced", "shared"}
    /\ observer \in {"consolidation", "audit"}
    /\ store = [s \in Shards |-> Empty]
    /\ sibling = [s \in Shards |-> Missing]
    /\ attempt = [p \in Publishers |-> Idle]
    /\ builds = 0 /\ failures = 0
    /\ reader = Resting /\ taken = [s \in Shards |-> <<0, 0>>]
    /\ audit = Unread

readers == <<reader, taken, audit>>

(* Whoever starts attempts lets one end before the next, unless "shared".  *)
MayStart(p, s) ==
    policy = "shared" \/ \A q \in Publishers \ {p} : attempt[q].pc = "idle" \/ attempt[q].shard # s

(* Stage the partition: the worker's database, its receipt and the streams *)
(* are copied to the outbox, with the marker of this attempt.              *)
Stage(p, s) ==
    /\ attempt[p].pc = "idle" /\ builds < MaxBuilds /\ MayStart(p, s)
    /\ s \in InPlay[observer]
    /\ builds' = builds + 1
    /\ \E force \in IF policy = "plain" THEN {FALSE} ELSE BOOLEAN :
          attempt' = [attempt EXCEPT ![p] =
              [pc |-> "probe", shard |-> s, build |-> builds + 1, force |-> force, todo |-> {}, lost |-> FALSE]]
    /\ UNCHANGED <<transport, policy, observer, store, sibling, failures, readers>>

Goes(p, step, todo, lost) ==
    attempt' = [attempt EXCEPT ![p] =
        [pc |-> step, shard |-> @.shard, build |-> @.build, force |-> @.force, todo |-> todo, lost |-> lost]]

EndAttempt(p) == attempt' = [attempt EXCEPT ![p] = Idle]

(* A completed destination is refused unless the attempt is forced.  For a *)
(* directory, whatever the sibling holds is removed.                       *)
Probe(p) ==
    LET s == attempt[p].shard IN
    /\ attempt[p].pc = "probe"
    /\ IF Marked(s) /\ ~attempt[p].force
       THEN EndAttempt(p) /\ UNCHANGED sibling
       ELSE IF transport = "objects"
            THEN Goes(p, "upload", Files, FALSE) /\ UNCHANGED sibling
            ELSE /\ Goes(p, "upload", Objects, FALSE)
                 /\ sibling' = [sibling EXCEPT ![s] = Empty]
    /\ UNCHANGED <<transport, policy, observer, store, builds, failures, readers>>

(* Mutation: the marker is one of the objects, in no order.                *)
PutWithMarker(p, s, f) ==
    IF transport = "objects"
    THEN /\ store' = [store EXCEPT ![s] = With(With(@, f, attempt[p].build), Marker, attempt[p].build)]
         /\ UNCHANGED sibling
    ELSE /\ sibling' = IF sibling[s] = Missing THEN sibling
                       ELSE [sibling EXCEPT ![s] = With(@, f, attempt[p].build)]
         /\ UNCHANGED store

(* One object of the package arrives.  A copy into a sibling that another  *)
(* attempt has renamed fails; copytree goes on with the rest, and then the *)
(* attempt fails.                                                          *)
Put(p, s, f) ==
    IF transport = "objects"
    THEN /\ store' = [store EXCEPT ![s] = With(@, f, attempt[p].build)]
         /\ UNCHANGED sibling
    ELSE /\ sibling' = IF sibling[s] = Missing THEN sibling
                       ELSE [sibling EXCEPT ![s] = With(@, f, attempt[p].build)]
         /\ UNCHANGED store

Lost(p, s) == attempt[p].lost \/ (transport = "directory" /\ sibling[s] = Missing)

UploadObject(p) ==
    LET s == attempt[p].shard IN
    /\ attempt[p].pc = "upload"
    /\ \E f \in attempt[p].todo :
          /\ Put(p, s, f)
          /\ IF attempt[p].todo # {f} THEN Goes(p, "upload", attempt[p].todo \ {f}, Lost(p, s))
             ELSE IF Lost(p, s) THEN EndAttempt(p)
             ELSE Goes(p, IF transport = "objects" THEN "mark" ELSE "swap", {}, FALSE)
    /\ UNCHANGED <<transport, policy, observer, builds, failures, readers>>

(* The marker is the last object.                                          *)
Mark(p) ==
    LET s == attempt[p].shard IN
    /\ attempt[p].pc = "mark"
    /\ store' = [store EXCEPT ![s] = With(@, Marker, attempt[p].build)]
    /\ EndAttempt(p)
    /\ UNCHANGED <<transport, policy, observer, sibling, builds, failures, readers>>

(* The destination is removed, and the full sibling takes its name; that   *)
(* fails when another attempt has renamed the sibling or put a package at  *)
(* the destination in between.                                             *)
Swap(p) ==
    /\ attempt[p].pc = "swap"
    /\ store' = [store EXCEPT ![attempt[p].shard] = Empty]
    /\ Goes(p, "rename", {}, FALSE)
    /\ UNCHANGED <<transport, policy, observer, sibling, builds, failures, readers>>

RenameSibling(p) ==
    LET s == attempt[p].shard IN
    /\ attempt[p].pc = "rename"
    /\ EndAttempt(p)
    /\ IF sibling[s] = Missing \/ store[s] # Empty
       THEN UNCHANGED <<store, sibling>>
       ELSE /\ store' = [store EXCEPT ![s] = sibling[s]]
            /\ sibling' = [sibling EXCEPT ![s] = Missing]
    /\ UNCHANGED <<transport, policy, observer, builds, failures, readers>>

(* An attempt fails or is killed.  A removal of the destination that is    *)
(* cut short leaves any part of it.                                        *)
KillPublisher(p) ==
    LET s == attempt[p].shard IN
    /\ attempt[p].pc # "idle" /\ failures < MaxFailures
    /\ failures' = failures + 1
    /\ EndAttempt(p)
    /\ \/ UNCHANGED store
       \/ /\ attempt[p].pc = "swap"
          /\ \E gone \in SUBSET Objects :
                store' = [store EXCEPT ![s] = [f \in Objects |-> IF f \in gone THEN Absent ELSE @[f]]]
    /\ UNCHANGED <<transport, policy, observer, sibling, builds, readers>>

PublisherStep(p) ==
    \/ Probe(p) \/ UploadObject(p) \/ Mark(p) \/ Swap(p) \/ RenameSibling(p)

-----------------------------------------------------------------------------
(* The consolidation validates the packages of all shards and only later   *)
(* fetches each database; shards do not interact, so it is followed for    *)
(* one of them at a time.                                                  *)

published == <<transport, policy, observer, store, sibling, attempt, builds, failures>>

ReadMarker(s) ==
    /\ observer = "consolidation" /\ reader.pc = "idle" /\ taken[s] = <<0, 0>>
    /\ store[s][Marker] # Absent
    /\ reader' = [Resting EXCEPT !.pc = "manifest", !.shard = s, !.marker = store[s][Marker]]
    /\ UNCHANGED <<published, taken, audit>>

(* A read of an absent object fails the consolidation.                     *)
ReadManifest ==
    /\ reader.pc = "manifest"
    /\ reader' = IF store[reader.shard][Manifest] = Absent THEN Resting
                 ELSE [reader EXCEPT !.pc = "ledger", !.manifest = store[reader.shard][Manifest]]
    /\ UNCHANGED <<published, taken, audit>>

IdsOf(s, b) == ItemIds[s][b]

AllIds == UNION {IdsOf(s, b) : s \in Shards, b \in Builds}

(* Marker and manifest must be the same document and bind the item ledger. *)
Bound(s, marker, manifest, ledger) ==
    /\ marker = manifest
    /\ ledger # Absent /\ IdsOf(s, ledger) = IdsOf(s, marker)

(* Mutation: the marker is taken for the manifest.                         *)
BoundLedger(s, marker, manifest, ledger) ==
    ledger # Absent /\ IdsOf(s, ledger) = IdsOf(s, marker)

ReadLedger ==
    /\ reader.pc = "ledger"
    /\ LET ledger == store[reader.shard][Ledger]
       IN  reader' = IF Bound(reader.shard, reader.marker, reader.manifest, ledger)
                     THEN [reader EXCEPT !.pc = "fetch", !.ledger = ledger]
                     ELSE Resting
    /\ UNCHANGED <<published, taken, audit>>

(* Mutation: the items of the database are not compared.                   *)
FetchUnverified ==
    /\ reader.pc = "fetch"
    /\ LET s == reader.shard  database == store[s][Database]
       IN  taken' = IF database # Absent
                    THEN [taken EXCEPT ![s] = <<reader.marker, database>>] ELSE taken
    /\ reader' = Resting
    /\ UNCHANGED <<published, audit>>

(* The database is downloaded, must have just the items of the ledger, and *)
(* is bound to the marker that was read.                                   *)
Fetch ==
    /\ reader.pc = "fetch"
    /\ LET s == reader.shard  database == store[s][Database]
       IN  taken' = IF database # Absent /\ IdsOf(s, database) = IdsOf(s, reader.ledger)
                    THEN [taken EXCEPT ![s] = <<reader.marker, database>>] ELSE taken
    /\ reader' = Resting
    /\ UNCHANGED <<published, audit>>

ReaderStep == ReadManifest \/ ReadLedger \/ Fetch

-----------------------------------------------------------------------------
(* The verification of a run reads marker and item ledger of every shard.  *)
(* A missing object, or items that an earlier shard has too, are an error  *)
(* whatever the other shards hold: the report is INCOMPLETE, and the run is*)
(* verified again some time.                                               *)

AuditMarker ==
    /\ observer = "audit" /\ audit.pc = "marker"
    /\ audit' = IF store[audit.shard][Marker] = Absent THEN Unread
                ELSE [audit EXCEPT !.pc = "ledger"]
    /\ UNCHANGED <<published, reader, taken>>

(* Mutation: the items of earlier shards are not remembered.               *)
DisjointFromLast(s, ledger) ==
    ledger # Absent /\ (audit.ids = {} \/ IdsOf(s, ledger) # audit.ids)

Disjoint(s, ledger) == ledger # Absent /\ IdsOf(s, ledger) \cap audit.ids = {}

AuditLedger ==
    LET s == audit.shard  ledger == store[s][Ledger] IN
    /\ audit.pc = "ledger"
    /\ audit' = IF ~Disjoint(s, ledger) THEN Unread
                ELSE [pc    |-> IF s = ShardCount THEN "report" ELSE "marker",
                      shard |-> IF s = ShardCount THEN s ELSE s + 1,
                      ids   |-> audit.ids \cup IdsOf(s, ledger)]
    /\ UNCHANGED <<published, reader, taken>>

AuditStep == AuditMarker \/ AuditLedger

(* The report says COMPLETE.                                               *)
Verified == audit.pc = "report"

-----------------------------------------------------------------------------
PackageNext ==
    \/ \E p \in Publishers : \/ \E s \in Shards : Stage(p, s)
                             \/ PublisherStep(p) \/ KillPublisher(p)
    \/ \E s \in Shards : ReadMarker(s)
    \/ ReaderStep
    \/ AuditStep

PackageSpec == PackageInit /\ [][PackageNext]_packageVars

-----------------------------------------------------------------------------
(* Properties.                                                             *)

AttemptType == [pc : Stages, shard : Shards, build : Content, force : BOOLEAN,
                todo : SUBSET Objects, lost : BOOLEAN]
ReaderType  == [pc : {"idle", "manifest", "ledger", "fetch"}, shard : Shards,
                marker : Content, manifest : Content, ledger : Content]

(* Every variable has its kind.                                            *)
PackageTypeOK ==
    /\ transport \in {"objects", "directory"} /\ policy \in {"plain", "forced", "shared"}
    /\ observer \in {"consolidation", "audit"}
    /\ store \in [Shards -> [Objects -> Content]]
    /\ sibling \in [Shards -> [Objects -> Content] \cup {Missing}]
    /\ attempt \in [Publishers -> AttemptType]
    /\ builds \in 0 .. MaxBuilds /\ failures \in 0 .. MaxFailures
    /\ reader \in ReaderType
    /\ taken \in [Shards -> Content \X Content]
    /\ audit \in [pc : {"marker", "ledger", "report"}, shard : Shards, ids : SUBSET AllIds]

Quiet(s) == \A p \in Publishers : attempt[p].pc = "idle" \/ attempt[p].shard # s

(* A completion marker vouches for the whole package it came with: always  *)
(* when attempts are plain; when they may be forced, as long as none is    *)
(* under way and none was killed.                                          *)
MarkerVouches ==
    \A s \in Shards :
        /\ Marked(s)
        /\ policy = "plain" \/ (policy = "forced" /\ Quiet(s) /\ failures = 0)
        => Has(s, store[s][Marker])

(* No attempt that is not forced, nor its retries after any failure, ever  *)
(* changes an object of a package that has its marker.                     *)
PackageIsFinal ==
    [][\A s \in Shards : policy = "plain" /\ Marked(s) => store'[s] = store[s]]_packageVars

(* The database the consolidation binds to a marker has just the items the *)
(* marker speaks of, whoever republishes between its reads; and it is the  *)
(* database that marker was uploaded with, when attempts are plain.        *)
TakenIsMarked ==
    \A s \in Shards : taken[s] # <<0, 0>> =>
        /\ IdsOf(s, taken[s][2]) = IdsOf(s, taken[s][1])
        /\ policy = "plain" => taken[s][2] = taken[s][1]

(* A verified run is there: every shard has its marker, and the databases  *)
(* hold the items that were counted, each in one shard.                    *)
VerifiedIsWhole ==
    Verified /\ policy = "plain" =>
        /\ \A s \in Shards : Marked(s) /\ IdsOf(s, store[s][Database]) \subseteq audit.ids
        /\ \A s, t \in Shards : s # t =>
              IdsOf(s, store[s][Database]) \cap IdsOf(t, store[t][Database]) = {}
=============================================================================
