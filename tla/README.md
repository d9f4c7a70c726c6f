# Formal models of the Motherlode pipeline

TLA+ models of the parts of this repository whose correctness depends on the
order of steps of several processes, on crashes and restarts, and on receipts
that outlive the run that wrote them; TLC instances that check them; and proofs
that TLAPS checks for every value of the constants.

Paths such as `streaming_consolidation.py:394` are relative to
`src/everbar_motherlode/`, scripts to `scripts/`, procedures to
`docs/procedures/`. `PROJECT.json` maps every definition to its lines.

## 1. Inventory

Motherlode acquires MIDI datasets, derives one candidate stream per track,
submits it to a pinned acceptance tool (Brick 3), deduplicates the accepted
scores, and keeps the results in an object store (R2), from which they can be
evacuated to a NAS or, through a Mac, to iCloud. There are no services and hardly
any threads: the system is a set of long-running, restartable commands that
communicate through files, SQLite databases and objects in a store. Nearly every
hard question is of one kind: *a command is killed between two writes; does the
next run, perhaps elsewhere, perhaps next to survivors of the first, end in the
same place?*

| Component | State it keeps | Operations | Talks to | What is hard | What makes it correct |
|---|---|---|---|---|---|
| Streaming consolidation (`streaming_consolidation.py`) | a workspace's `canonical-index.sqlite`; partitions, completion markers, index and report in the store | validate all packages; per shard: project, commit, upload, mark, upload index; final report | store, packages of the shards, `feature_base` | kill between commit, upload and marker; a second workspace with an older index; republished packages; damaged uploads | one owner per score, the first in run order; a marker vouches for its partition and is final; the report binds what was validated |
| NAS archive (`nas_archive.py`, `watch_nas_archive.py`, `finalize_nas_archive.py`) | payloads and receipts on the NAS, worker progress, batch deletion receipts | copy small objects in packs and large ones singly; restart workers; list afresh or take a supplied listing; reconcile and rehash; delete in batches | store, NAS mount, watcher, finalizer | overwritten objects, two-request reads, kills between payload and receipt, stale and supplied listings, workers started again during a deletion | nothing is deleted that the NAS does not hold; the evacuation ends |
| iCloud relay (`migrate_r2_to_icloud.py`, `icloud_migration.py`) | chunk and object receipts on the relay host; chunks and manifest on the Mac | stream an object in chunks, compare hashes, receipt, manifest, conditional delete | store, Mac over SSH, iCloud eviction | resume at a chunk, a source rewritten under way, a new inventory in an old work root | a receipted object arrived, a deleted one too |
| R2 inventory (`icloud_migration.py`) | gzip listing, page cursor | paginate, resume, canonicalise | store | torn tail of a partial listing | every object listed once |
| iCloud cleanup (`cleanup_icloud_after_nas.py`) | its status file | wait for the NAS's terminal receipt, list, compare, remove | finalizer's receipt, Mac over SSH | the folder changes, a call fails, the script is killed | the folder goes only when the NAS can answer for everything |
| Remaining-sources autopilot (`autopilot.py`, `run-remaining-sources-autopilot.sh`, `publish_completed_shards.py`) | progress and source receipts, local payload | storage guard, download, extract, launch workers, publish, verify, consolidate, release, receipt | core, distributed, consolidation | a controller that dies and leaves its workers running; the release of payload before the receipt; disk limits | nothing is released that is not durable; every source completes |
| Shard packaging (`distributed.py`) | outbox, package objects, completion marker | stage, publish (marker last), retry, verify a run | store or directory, worker databases, consolidation | two publishers, forced republication, kills between objects, readers between two uploads | a marker vouches for its package; a verified run is whole |
| Core pipeline (`core.py`, `cli.py`) | raw, extracted and derived files, SQLite ledger, shard receipts | download, prefetch, extract, derive, shard, run, merge, reconcile, flatten performances | HTTP, Brick 3, SQLite's lock | shared `.part` files, truncated downloads, states read once, merges of parts and of released databases, pedals that overlap | an artifact is whole, a tree is complete before it is read, DONE means derived, pedals sound as played |
| v2 features and projection (`feature_base.py`, `v2_projection.py`, `v2_features.py`) | rows of scores in SQLite | bars, occupied spans, segments, windows, sweeps | consolidation, experiment, snapshot | notes on bar lines, held over them or overlapping, computed three ways | all readers hear the same notes in a bar |
| Training snapshot (`snapshot.py`) | none between calls | cap, families by union-find, winners, splits, windows | records and rows of the experiment | families that join through third pieces | no family in two splits; windows are those of the live projection |
| POP909 experiment (`pop909_poc.py`) | a record per candidate, SQLite rows, training view | evaluate, resume, repeat, limit, finalize | Brick 3, snapshot | record and row are written apart; owners named in records of other runs | each score trains once; records have rows |
| Watchdog and wave scripts | counters and stamps in files | supervise, debounce, alert | processes | alert lost between stamp and queue | an outage is reported |

`PROJECT.json` lists each with its status, and under `hazards` every place where
something can go wrong that a test would hardly reach.

## 2. Modules

| Module | Models | Checked by | Proved in |
|---|---|---|---|
| `Corpus` | the rows of the shard databases: acceptance, rejection, hash, run order | with its users | with its users |
| `CanonicalLedger` | what a consolidation promises: shards published once, in order, with the first owners | as a property | as a property |
| `StreamConsolidation` | `stream_consolidate` | `MCStreamConsolidation`, 3 configurations | `StreamConsolidationProofs` |
| `NasArchive` | the copy lanes, watcher, finalizer | with `NasCleanup` | `NasArchiveProofs` |
| `NasCleanup` | `cleanup_icloud_after_nas.py`, beside `NasArchive` | `MCNasCleanup` | `NasArchiveProofs` |
| `Inventory` | `inventory_r2`, its resume, `canonicalize_inventory` | `MCInventory` | `InventoryProofs` |
| `IcloudRelay` | `migrate_one`, `migrate_small_pack` and the loop over either | `MCIcloudRelay` | `IcloudRelayProofs` |
| `Autopilot` | the controller, its workers and the retry loop | `MCAutopilot` | `PublicationProofs` |
| `ShardPackage` | `stage_shard`, `publish_shard`, `verify_distributed_run`, and the reads of a consolidation | `MCShardPackage` | `PublicationProofs` |
| `Acquisition` | `download`, `extract`, `prefetch` and the start of a derivation | `MCAcquisition` | `AcquisitionProofs` |
| `CorpusState` | the central ledger: `run`, `derive`, `shard`, `merge_shards`, `reconcile` | `MCCorpusState` | `CoreProofs` |
| `PedalFlattening` | `performance_flattening_v1` | `MCPedalFlattening` | `CoreProofs` |
| `CanonicalScore` | bars, rows, spans, windows and sweeps over one score, as operators | with `Experiment` | `ExperimentProofs` |
| `Experiment` | `run_poc`, its training view, and `snapshot.build` | `MCExperiment` | `ExperimentProofs` |

Each module that holds a mutated form of a definition marks it `Mutation:`. They
are not part of `Next`; they document which bug would break which property.

### StreamConsolidation

* `index[w]` is the committed `canonical-index.sqlite` of workspace `w`; `stored`,
  `storedIndex` and `report` are objects in the store, each absent, stored or
  damaged. `pc`, `work`, `cur`, `packages` and `draft` are the memory and staging
  directory of the one active run, and are lost when it ends (`Abandon`).
* `Start` opens or downloads the index; `Validate` requires every package first
  (lines 345-351); `CheckExisting` skips, fails or projects (357-371); `Project`
  is the single transaction that inserts rows, hashes and the PREPARED state;
  `UploadArtifact`, `UploadIndex`, `MarkComplete` and `Report` follow the order of
  lines 394-430. `AfterArtifact` is that order as a function.
* `PublishSource` is a worker that publishes or force-publishes its package at any
  moment. A forced package may hold other rows: those that another dataset of
  `Corpora` has for the same identifiers (`Reissues`), which is what a derivation
  with another verdict yields, as identifiers come from the source files. A run that
  validated the old package either fails or takes the new rows (`Project`): only the
  identifiers are compared with the ledger it read. A package with other identifiers
  fails the run that is under way and is a new dataset to the next one; such a
  change is not modelled. `CorruptUpload` is an upload whose read-back differs:
  the run fails and the object stays.
* Data: a row is a record of its receipt's decision, the historical status, the
  hash, whether the two hashes agree, and whether a score can be written.
  SHA-256, SQL and the contents of scores are abstracted; a hash is a model value.
* One run at a time is an assumption: the code has no lock, and the procedure
  runs it from one place. `Interrupt` also stands for a damaged report upload.
* `replayed`, `projected` and `reissued` are history variables, which only properties
  read: shards projected onto an index that already held their hashes, shards that
  some run has projected, and those of them that were published again with other
  rows. The code takes such a package as long as its shard has no completion
  marker, by the upsert of line 393, and the index keeps the hashes of the old rows.

### NasArchive

* Content is a version, as an ETag tells it; versions only grow. A unit (a pack or
  a single object) is named after its objects. `payload` and `receipt` are the
  NAS; a receipt `records` the metadata seen first and the `content` hashed.
* A worker computes its lanes from the inventory (`Packing` is the grouping by
  size and count, a recursive function), then for each unit: skip if receipt and
  payload agree, HEAD, GET (two steps), rename, receipt. Two more steps end it.
* The watcher takes three steps: it reads a report that is not COMPLETE (`Notice`), asks
  for the worker's session and launches it if there is none (`Launch`). A worker that has
  finished in between is started again, even while the finalizer deletes (`late`
  counts these launches, up to `MaxLate`). The finalizer reads all reports at once.
* The finalizer lists one object per step, or takes any listing that was ever completed
  (`listings`), which is `--raw-final-inventory` (`finalize_nas_archive.py:57-61`); it
  reconciles and rehashes everything in one step, and deletes batch by batch, each with
  its receipt. `PackRank` is the order of directory names, which is that of a
  hash, hence arbitrary. A store that lists empty leaves no file to rename, and ends the
  run (`ListNext`, `icloud_migration.py:146`).
* Around them: producers (`Write`), at any time before the terminal receipt; crashes of
  workers and of the finalizer; bit rot until the last rehash; and an operator who
  migrates a new inventory (`MigrateAnew`) when the archive does not cover the
  store. `lost` is a history variable: objects whose last deletion, by name, took another
  version than the listing had.
* There is one bucket. `Terminal` asks whether it is empty; the code asks that of the
  buckets its listing has rows of.

### IcloudRelay

* `receipts[o][c]` is the chunk's receipt on the relay host, `mac` the chunks on
  the Mac, `final` the object's receipt, `manifest` the one on the Mac.
* The source stream is a HEAD and a GET in separate steps; a run resumes at the
  first chunk without receipt; the whole-object hash is one step.
* `Fault` is any failure: a Mac short of space, an eviction that fails, a lost
  connection, a kill. A torn chunk receipt is as good as none, and is left out; a
  torn object receipt is not, and is kept (`TearFinal`). `Relist` is a new
  inventory, in a fresh work root unless `KeepWorkRoot`. `QuietDelete` excludes a
  write between the ETag check and the deletion, which no client can close.
* `lane` is the command in use: objects one by one, or packs of small ones. A pack is
  named after the set of its objects; `packs[P]` is the file on the Mac. A run reads
  the metadata and the bytes of each row in two steps, and the Mac stores what it
  got when its input ends, whole or cut (`CutChunk`, `CutPack`).
* Sizes are counted in chunks. A small object has one chunk, so a pack is limited by
  its number of records (`PackRecords`) and not by its bytes. A version that has
  grown since its listing is cut at the listed size, which is `Damaged`. An object of
  one chunk that is too large for a pack with its frame, which the second command
  skips (`migrate_r2_to_icloud.py:171-174`), is not modelled.
* A stream that ends early leaves what has arrived under the chunk's final name, and one
  that fails before its first byte an empty file (`CutChunk`).
* The two commands are not run in turn over one inventory, except after a new one:
  their files and receipts have different names, and only the object lane deletes.
* The receipts the Mac keeps for chunks are not modelled.

### Inventory

* `rows` is what a reader gets out of the checkpoint, `tail` what is behind that:
  nothing, an incomplete page or, of gzip members, also pages that were appended
  behind an incomplete one. Reading on from there fails or yields garbage; the code
  then raises, and the model has no step.
* `List` is one page of the paginator, `AppendPage` its append, `KillAppend` a kill in
  between, which leaves any number of the page's lines. A plain checkpoint is cut
  back to its last newline by a resume, in place (`KillRewrite`).
* `digest` is the running hash, as the sequence of rows it was fed with, and
  `summary` is the one that was written.
* `Canonicalize` needs the final name, a source that reads to its end, and no
  earlier attempt, finished or not. Grouping in SQLite is a set of rows.
* A store in which every page is empty never gets a checkpoint, and the rename fails
  (`Exists`, `RenameFails`): there is no inventory of an empty store.
* Only one listing runs at a time, which the operator sees to.

### Autopilot

* Files: `raw` (with the `.part` file and the rename), `tree` (with the extraction
  marker), `derived`; `db` and `wal`, a partition's SQLite file and its
  write-ahead log; `linked`, who has that database open. Removing the directory
  unlinks it under a worker that goes on.
* The controller: `pc`, the source `cur`, and a counter `part` for the loops over
  partitions and over the paths of the release. `children` is what it polls.
  `Kill` is a failed command, an outage or a kill; `Stop` ends the controller, as
  does RESOURCE_PAUSED, and `Start` is the shell loop. The command that a controller
  runs is taken to end with it: a publication or compaction that survives its
  controller is left out, unlike the partition workers, which do survive.
* Workers start in sessions of their own, so they survive the controller, and
  `Launch` looks only at receipts: two workers can share a database.
  `WorkerStep` is artifact check and extraction (under a file lock, hence one
  step), open, first write (which takes SQLite's lock for the whole derivation,
  `derive` being one transaction), commit, close and receipt. A waiting writer
  that times out fails. The last clean close moves the log into the file; a
  killed process leaves the log.
* `Package` copies the main database file without its log (`distributed.py:175`)
  and afterwards opens the database, which settles a log nobody else uses.
* `Consolidate` is one step here; `StreamConsolidation` has its detail, and
  refuses a database whose rows are not those of the package's ledger.
* Sizes are bounded by the envelope (`EnvelopeAssumption`): the estimate times the
  multiplier covers a source. Every partition has rows. A short HTTP body that
  raises no error and the metadata sidecar are left out.

### NasCleanup

* Extends `NasArchive` with the folder in the cloud (`cloud`), the script's `state`,
  which is the status it wrote last or its next step, and what it `erased`. A file
  of the folder is its size, for that is all the comparison looks at.
* `Compare` needs the terminal receipt (stage `done`), then lists over ssh, which may
  fail; `Delete` is `find -delete`, `rmdir` and a test in one call, of which any
  part may have been done when the connection breaks. The script may be killed and
  started again at any time; nothing restarts it.

### ShardPackage

* `store[s]` is what readers see of shard `s`: each of its objects, by the build it
  came from. A directory target has a hidden `sibling`, filled and then renamed; an
  object store is uploaded to object by object, the marker last.
* An attempt stages a build, probes for a marker (unless forced), uploads the rest
  in any order, as the directory walk gives it, then the marker. `Lost` is a
  sibling another attempt renamed. `policy` says whether shards have one publisher
  (`plain`), several (`shared`) or may be forced; a killed publisher starts again.
* The consolidation reads marker, manifest, ledger and, later, the database, in
  separate steps (`reader`, `taken`); `verify_distributed_run` reads marker and
  ledger of each shard (`audit`). A build is identified by its number; only the set
  of its items is compared (`IdsOf`), as the code compares digests of the ledger.

### Acquisition

* `file` is a set of inodes, `part` and `dest` the two names; a process appends to the
  inode it has open, whoever has renamed it since. `body` is what the server still
  has to send, as pieces `<<version, number>>`: a whole file is all pieces of one
  version in order.
* A server knows ranges or not, refuses a range behind the end, may cut an answer
  short (`Cut`, no error) or break off (`Break`), and may publish a new version.
* `Extract` takes the lock file, unpacks, writes the marker, then expands nested
  archives and writes theirs; a reader of the tree asks for both (`Ready`). A
  truncated archive is copied as an unknown artifact (`copied`). The lock is
  released by the operating system when its holder dies.
* `spoiled` is a history variable: what has happened that the code cannot notice
  (two downloads at once, a cut answer, a changed source).
* `Unpack` reads its archive in one step; HASH_VERIFIED is a state without a hash
  comparison (`core.py:602`) and appears in `CorpusState` only. That a marker torn
  by a kill is accepted by `extract` but refused by `validate_pre_staged_input` is
  left out.

### CorpusState

* `ledger` is the committed database: the state of each source and, of each
  candidate, its decision and identity. `draft` is the open transaction of
  `writer`, who holds SQLite's write lock; the others wait or give up (`Die`).
* `run` works through the registry by the states it read at its start (`run.states`).
  `Derive` decides one candidate inside the transaction, `Raise` commits what was
  derived together with FAILED. `merge` attaches one partition after the other, in
  one transaction each, and marks their source DONE; `ReconcileRead` and
  `ReconcileWrite` are apart, as the code reads receipts first.
* `Release` is the autopilot's removal of a partition's database, one after the other
  (`autopilot.py:174-178`); the receipts stay, and a merge passes over a receipt whose
  database is gone (`MergeSkip`, `core.py:521`).
* `MergeEarly` says that a merge may begin before the last partition of a source has
  its receipt, `MergeTorn` that it may run while a release is under way or has been cut
  off between two partitions. The code excludes neither. `Reopened` are the sources of which reconcile withdraws a completion.

### PedalFlattening

* `note` is every note of a track, held by its key, deferred by a pedal, ended or
  dropped; a message is an action, `Wait` the delta time in between. `sostenuto` of
  a note is the code's flag. `latch` is a history variable: whether the note sounded
  when the pedal was pressed that is still down, and then whether by its `key` or
  under the sustain `pedal` only. Velocity and other messages are left out.
* A note-off without a held key is written as it is; the model stops there (`stray`),
  as the reader of the file takes it to end a note a pedal keeps.

### CanonicalScore and Experiment

* A score is a sequence of notes with onset and end, in onset order, with positive
  durations, as the materialisation requires. Bars have one length; a
  represented span is a bar. `Delta` and `EmptyBars` are the difference array of
  `materialize_canonical_stream`, `Occupied` is the projection's overlap test,
  `Boundaries` and `Sweep` are the sweeps of the extractors, written as folds.
* `Experiment` evaluates songs candidate by candidate: the record is on disk at once
  (`records`), the rows are in the open transaction (`batch`) until the song is
  done (`database`). `seen` is `canonical_seen`. `view` is the last training view,
  `snapshot` one built while no run is under way.
* A run with a song limit ends as a sample, also when the limit covers every song
  (`EndSample`, `pop909_poc.py:647`). The result of the materialisation is not looked at
  (line 636): that an accepted score can be stored is an assumption about Brick 3
  (`VerdictAssumption`).
* `mixed` and `torn` are history variables: records of two checkouts of Brick 3 are
  mixed; a song was cut off. The PDMX source of the snapshot is left out.

## 3. Runs

| Run | Question | Result |
|---|---|---|
| `consolidation` | safety of the consolidation, and that it implements `CanonicalLedger`, over six corpora with a kill, a damaged upload and a republication, with the same rows or others, at any point in two workspaces | holds |
| `consolidation_resume` | does a run killed up to three times and restarted end with a report? | holds |
| `consolidation_interrupted` | is one score materialised for every hash? | violated, finding 1 |
| `nas` | is only archived data deleted, are the lanes complete, does an evacuation end, and does the cloud copy go last? | holds |
| `inventory` | does a listing, killed and resumed at any point, have every object once under its own hash, and end? | holds |
| `relay` | have receipted and deleted objects and receipted packs arrived, does all in the end? | holds |
| `autopilot` | is payload released only when durable, do all sources complete but for four named traps? | holds |
| `package` | what may a completion marker be taken for, by a consolidation and by the verification of a run? | holds |
| `acquisition` | is a downloaded artifact whole, is a tree complete before anyone derives from it, does everyone derive in the end? | holds |
| `ledger` | does DONE mean that every candidate is decided, though databases are released, and does a run settle every source? | holds |
| `flattening` | do deferred notes sound only while a pedal holds them, and does no step end a note that one holds? | holds |
| `experiment` | does each score train once, is what is recorded stored, are families together, do all readers of a score agree? | holds |

Bounds, and why the interesting cases happen inside them:

* Consolidation: three shards, so there is a first, a middle and a last one; five
  rows and three hashes, so a hash recurs inside a shard, in the next and not at
  all; two workspaces (symmetric), so one can be behind the other. The corpora are
  `Overlapping`, `Reclassified` (a historical accept the receipt rejects),
  `Unscored`, `Undecided`, `Disagreeing` and `Withdrawn`, in which the rows of the first
  shard are rejected. One package is published again, with the rows that any corpus
  of the same shards has, so that an owner may vanish or appear behind an index.
* NAS: three objects and two workers; two objects share a pack, the third changes
  lanes between its versions; two versions, one write, one crash, one rotten
  payload and one launch of a worker that has finished. One write is enough for a
  listing to be stale, fresh or supplied; the theorems have no bound.
* Inventory: two buckets of up to three objects in pages of two, so a bucket has no
  page, one or two; two kills, so a resume is itself killed; one write.
* Relay: an object of three chunks, one that grows from one to two and one that stays
  small, of which the last two share a pack; two versions and writes, two faults,
  two new inventories.
* Autopilot: two sources, of which the second fills the disk to the reserve, two
  partitions, two workers per partition (one left behind and its successor), one
  failed controller and one dead worker.

* Clean-up: one file, which may change its size; the same archive beside it.
* Packages: two shards and two publishers, three builds, one kill, both transports
  and all three policies; three items, so that builds may agree or overlap.
* Acquisition: one prefetch, one building process and one worker; an artifact of two
  pieces with one nested archive; one fault, one kill and one new version; two
  attempts of the code's three, so a retry and a final failure occur.
* Ledger: an automatic source of two partitions, one that reconcile reopens and a
  gated one behind both; two runs, two merges, one reconcile, one failure, one death; each
  database may be released once its source is through.
* Flattening: two channels, three notes of one pitch, three ticks: a note can be
  repeated under a pedal, and both pedals overlap in either order.
* Experiment: three songs, the last with two tracks, so that the first two may be of
  one family through it alone; one further score of every shape of up to two notes; bars of two ticks, windows of two bars, caps that exclude a score or not;
  two runs under one or two checkouts, one kill.

Deadlock checking is off where the system stops by design: an evacuation, a relay
or an autopilot that is done, a track at its end, a spent bound.

## 4. Fairness and liveness

* `ResumesToReport`: a run that is not killed goes on, packages are published in
  the end, and somebody starts the next run: `run-remaining-sources-autopilot.sh`
  17-48 and, for the rest, the operator. Interruptions are finite. It holds for
  corpora of which every accepted row can be projected; one malformed row stops a
  dataset for good, as the code intends.
* `Evacuates`: every round of the watcher reads the report of each worker in turn
  (`watch_nas_archive.py` 56-88), so one whose report is not COMPLETE time and again is
  noticed time and again: strong fairness of `Notice`, which the notice of another
  worker disables for the moment. A worker that lives goes on, and the finalizer polls
  and is rerun. Premise: objects written once, payloads that stay as written. Promised
  are an empty store and, unless the finalizer has to list the empty store (`Emptied`), its
  terminal receipt. The exception is real: a finalizer killed after its last deletion
  cannot list any more (`icloud_migration.py:146`), and can finish only with
  `--raw-final-inventory`; without it the property is violated.
* `ListingCompletes`: a listing goes on and is resumed; of an empty store there is none
  (`Inventory`).
* `Relays`: the run goes on and is started again. Premise: no writes and no torn
  object receipt. Deletion is not promised: a run killed between the local object
  receipt and the deletion is skipped for ever.
* `Derives`: a process that is not killed goes on, and a killed one is started again,
  by the autopilot's loop or the watcher of its host; faults, kills and versions are
  finite. The premise names what the code cannot get out of: a whole `.part` file
  that was not renamed, and a spoiled artifact.
* `Completes`: the controller and each worker go on and the loop starts the
  controller again. The premise names the four states in which a source is stuck:
  `Stranded` (receipt without database), `Misfilled` (a package without rows,
  copied without its log), `Unrenamed` (a whole `.part` file, whose empty range the
  server refuses) and `Cramped` (no room for the envelope next to the source's
  own payload). All four are reachable in the instance, and the property fails
  when any one of them is dropped from the premise: it says that the list is
  complete.

No liveness property is proved: fairness and ENABLED are beyond the prover.

## 5. What the code does and its documents do not say

The first has a run of its own. The others are shown by the property named, which
the module states: either in the instance given here, or because the property holds
only with the premise that names the case. `PROJECT.json` quotes the documents.

| Where | What | Shown by |
|---|---|---|
| `streaming_consolidation.py:394` | The index is committed before the partition is stored. A run killed in between finds its own hashes when restarted, calls every row a duplicate and stores no score. | `consolidation_interrupted` |
| `nas_archive.py:383` | Deletion is by name: a version written after the listing that was reconciled is lost, and that listing may be a supplied one of any age (`finalize_nas_archive.py:57-61`). | `DeletedIsArchived` without `lost` |
| `icloud_migration.py:74` | A resume leaves an incomplete gzip member and appends behind it. The listing ends with a COMPLETE summary, and no reader gets past that member. | `CompleteInventoryReads` in the run `inventory` |
| `migrate_r2_to_icloud.py:283` | A chunk is receipted before its hash is compared. | `ReceiptedObjectArrived` with `MaxDamage = 1` |
| `migrate_r2_to_icloud.py:253` | Chunk receipts bind neither ETag nor inventory. | `DeletedIsRelayed` with `KeepWorkRoot = TRUE` |
| `autopilot.py:221` | Local payload is released before the source's receipt. A controller killed in between can never complete the source, as publication insists on databases that are gone. | `DurableSourceCompletes` with `Capacity = 9` |
| `core.py:73` | `prefetch` does not own the `.part` file: a run that downloads appends to it, too. | `ArtifactIsWhole` without "shared" |
| `core.py:196` | Sostenuto latches keys that are down. A note that only the sustain pedal keeps sounding at the press ends with that pedal, where `docs/performance-flattening-v1.md:15-16` has every note that sounds held. | `HeldNotesStay` with `latch # "none"` for `latch = "key"` |
| `core.py:525` | A source is DONE after the merge of any one of its partitions. | `DoneIsWhole` with `MergeEarly = TRUE` |
| `core.py:521` | A receipt whose database is gone is passed over. Over a release that was cut off between two partitions (`autopilot.py:174-178`) a merge says DONE without the rows that are gone. | `DoneIsWhole` with `MergeTorn = TRUE` |
| `core.py:591` | The state of a gated source behind the last automatic one is never committed. | `GatedIsRecorded` in the run `ledger` |
| `core.py:532` | Reconcile gives rejects a canonical identity, and `progress` counts identities as accepts. | `IdentifiedIsAccepted` in the run `ledger` |
| `pop909_poc.py:637` | A record is written before its rows are committed; killed in between, a resumed run never restores them. | `RecordedIsStored` without `torn` |
| `distributed.py:267` | A forced publication to a directory removes the package before it renames the new one: not an atomic replacement. | `MarkerVouches`, policy "forced", whose premise has no kill |

Divergences and limits that no property forbids:

* `streaming_consolidation.py:393`: a package that is published again with other rows,
  after its shard was committed to an index and before its completion marker, is taken
  by the upsert, and the index keeps owning the hashes of the rows that are gone. A
  later shard takes the first row of such a hash for a duplicate and stores no score.
  `ScoresUnlessReplayed`, `KeptIsFirstOwner` and `ImplementsLedger` except this
  case (`reissued`), and each is violated without the exception.
* `watch_nas_archive.py:60-77`: a worker that finishes between the watcher's look at its
  report and the launch is started again, also during the deletion. It finds every unit
  in place and renames nothing (`PayloadsStay`, a theorem).
* `core.py:197-199`: the release of the sostenuto pedal leaves the flag of held keys. If such
  a key comes up under the sustain pedal, the next press finds the flag and keeps the
  note, as it does no other note whose key is up. `SoundsUnderPedal` allows it, as
  the documentation wants it of every note that sounds.
* `streaming_consolidation.py:405`: a run killed between the last marker and the last
  index upload is skipped over by the next, which reports the hash of an index that
  was never uploaded.
* `nas_archive.py:92`: the ETag in a receipt is not compared with the inventory, so an
  object overwritten at the same size is not copied again. The final reconciliation
  notices, so nothing is lost: `DeletedIsArchived` holds.
* `icloud_migration.py:146`: an empty store leaves no file to rename, which ends every
  attempt to list it; a listing killed between rename and summary can neither be
  resumed nor repeated; a torn object receipt of the relay (`migrate_r2_to_icloud.py:241`)
  fails every later run.
* `migrate_r2_to_icloud.py:190`: with an old work root, a pack whose objects were
  overwritten is skipped, as its name binds their identities only.
* With `PackBytes = 2` the instance `nas` violates
  `CompleteWorkersCoverShare`, because an object whose framed size exceeds the pack
  capacity falls between the lanes (`nas_archive.py:226`; unreachable with the
  default sizes). It is the hypothesis `SmallFits` of the theorem about it.
* `cleanup_icloud_after_nas.py:57`: a file that arrives in the folder between listing
  and removal is erased unseen; a removal that was done in part leaves a folder
  that never again matches, one that was done but not reported an unreachable one.
* `distributed.py:284`: with a forced or a second publisher, the marker of one build may
  stand over objects of another (hence the premises of `MarkerVouches`); a
  consolidation that reads such a package compares the items, and refuses all but
  builds of the same items (`TakenIsMarked`). `verify_distributed_run` does not
  check that marker and ledger belong together.
* `pop909_poc.py:612`: a resumed run skips by record whatever checkout of Brick 3 made
  it: owners of two checkouts mix (`mixed`). A candidate judged anew as a reject
  keeps its old rows, and rows that exist are updated in three columns only.
* `core.py:588`: a run works from the states it read first, so it derives again what a
  merge has completed meanwhile; every reconcile withdraws a genuine completion of
  Aria; a merge brings items but not canonical rows; a failed source leaves its
  half-derived rows behind FAILED.
* `v2_features.py:98` pairs the durations of notes with the intervals between onsets,
  which are fewer when notes begin together; line 110 takes the pitch class heard
  least for the tonic. Windows of the experiment's view include silent bars, those
  of the snapshot do not.

## 6. Proofs

Every safety property that a run checks is also a theorem, but for the one that
finding 1 refutes: it holds for any number of shards, streams, objects, workers,
chunks, partitions, songs or notes, and any bounds. The proofs rest on the ASSUMEs of
the modules, which state that parameters have their kinds and that the sentinels
differ from the data, and on these hypotheses, which five theorems state:

| Hypothesis | Theorems | Why |
|---|---|---|
| `SmallFits` | `SharesAreCovered` | a small object, framed, fits a pack: 1 MiB against 256 MiB by default (`nas_archive.py:206`) |
| `~KeepWorkRoot`, `MaxDamage = 0` | `ObjectsArrive`, `DeletedArrives` | chunk receipts bind no inventory and come before the comparison (section 5) |
| `QuietDelete` | `DeletedArrives` | no client can write between the ETag check and the deletion |
| `~MergeEarly`, `~MergeTorn` | `DoneMeansDerived` | a merge of any partition says DONE, and passes over released ones (section 5) |
| `ScoresInOrder` | `StoredScoresAreHeard` | Brick 3 gives notes by onset (`docs/canonical-feature-base.md:12`), which no code here checks |

TLC shows a property violated when any of them but the last is dropped.

**`StreamConsolidationProofs`**. `TypeInv` adds to `TypeOK` that a run which got past
`Start` has an open index. `KeptInv` gives `KeptIsFirstOwner`: the property alone is
not inductive, because "the first free row is the first owner" needs that an index
knows a *prefix* of the run (`PrefixIndexed`, and of every index that can be read, also
a stale one, `IndexesKnown`) and that a run has passed all shards before `cur`. A
republication changes only rows of shards that no index has, or else is in `reissued`,
and then the indexes that have the shard are no longer `Current`. `StoreInv` carries the order of the upload steps
(`MarkersInOrder`, `RunProgress`, `DraftUploaded`, ...), from which follow
`CompletionBindsPartition`, `CompletionNeedsIndex`, `ReportBindsSources` and the
action property `CompletedIsFinal`.

For the refinement, `LedgerInv` says that no index has gone beyond a shard without marker
(`MarksFirst`), that marked shards have been projected, and that the staged partition
tells the truth about owners and first owners, unless a shard up to it was reissued
(`LedgerTruth`). Then `Init` maps to `LInit`, the upload of a completion marker to
`Publish`, a republication to `Reissue`, the report to `Finish`, and every other step to a
stutter (`SilentStep`). The abstract ledger leaves open whether the score of a first
owner is stored, for finding 1, and says nothing of the owners behind a reissued shard. How
far scores are stored says `CompletedHaveScores` (`ScoresUnlessReplayed`): a shard that is
not replayed meets an index of earlier shards only, as every index knows a prefix; if
none of them was reissued, that index lacks the hashes of the shard's first owners, and all
of them get a score (`ScoreTruth`).

**`NasArchiveProofs`**. `CopyInv`: what is in the store is the newest version
(`StoreForward`); a worker's units are those its lanes yield (`UnitsLeft`); staged bytes
and receipts are faithful up to supersession. It gives `RecordedOrSuperseded`.

Copy and deletion overlap, as the watcher may start a worker again that has finished.
`DeleteInv` shows why that is harmless. From the moment the finalizer has seen all reports
COMPLETE, every unit of every share is copied at the size the inventory gives
(`SharesCopied`), and once the reconciliation has rehashed the payloads all of them agree
with their receipts (`Rehashed`). So a worker that runs during the deletion finds all its
units `Skippable`, and one that is reading or renaming a payload then has a unit that is
not (`UnitsHeld`, `Placed`): there is none. Hence `PayloadsStay`. What the listing names is on
the NAS in the version it names or was overwritten since (`ListedArchived`), of whatever
age the listing is; deletion takes either that version or another one, which `lost`
notes. That gives `DeletedIsArchived` without any hypothesis about writers.

The coverage of shares needs that the units a worker computes leave no object of its
share out. The grouping into packs is a recursive function, of which only the existence has
to be shown, not what it computes: the steps of a function on an initial piece of the
naturals determine it, and each record lands in the pack its step names, provided it
fits one (`SmallFits`). With `SharesCopied` this gives `CompleteWorkersCoverShare`.

The clean-up writes nothing the archive reads, so the archive's theorems hold beside it (a
lemma); `CleanupIsSafe` adds that the store stays empty behind the terminal receipt,
and gives `ErasedIsArchived`.

**`IcloudRelayProofs`**. `TypeInv` adds to `TypeOK` what each step knows of the row or pack
at hand (`RunTyped`, `SentTyped`). `PackInv` gives `ReceiptedPackArrived` without any
hypothesis: a pack is streamed only while it has no receipt, and what was sent is
the listed version or one that overwrote it. For objects, `ChunkInv` says that chunk
receipts have no gaps and bind what the Mac has, `FinalInv` that an object's receipt
is for the inventory at hand, `SendInv` what the run has sent. None of them is
inductive alone: a resumed run sends from the first chunk without receipt, so the ones
before must already be as listed, across kills and new inventories. The whole-object
comparison then proves what chunk receipts cannot: that they are all of one version.
`DeleteInv` follows the manifest, the ETag check and the deletion; an object
that is gone was receipted in the version written last (`GoneInv`).

**`InventoryProofs`**. Lemmas on ranks in finite sets of keys show what a page holds:
the first keys that remain, in order and without a gap. `HashInv` says that the hash
of a running listing is that of the checkpoint and the page at hand, which gives
`SummaryBindsRows`. `CoverInv` gives `InventoryCoversStore`: neither the property nor
"everything up to the cursor is listed" is inductive, because a kill loses the cursor.
What survives one is that the checkpoint is `Ordered` and `Gapless`: before each of
its rows there is one for every earlier object of the beginning, so that any
beginning of it, and only its last keys, suffice to resume (`StartCovers`,
`PrefixCovers`, `PageCovers`). It holds of the part of a torn gzip checkpoint that
can be read, too. With `CanonInv`, that a renamed inventory is not changed,
follows `CanonicalCoversStore`.

**`PublicationProofs`**, of `Autopilot` and `ShardPackage`, which both lead up to a published
package. `DurableInv` says that a controller at the release or the receipt has had its source
compacted, and that a compacted source has the rows in every package; an upload never
meets a package, so these rows stay. It gives `ReleasedIsDurable`. `RowsInv` says
that until then a receipt means rows in the database or its log. A worker that commits
and one that closes may be different processes, left behind and newly launched,
so the invariant also says which of them have the file open (`linked`): the last one to
close settles the log, and a killed one leaves it (`ReceiptedRowsStay`).

`OneAtATime` (a plain shard has one publisher) and `Work`, what
each place of an attempt says about what it has uploaded, give `Vouches`, hence
`MarkerVouches`, and with `MarkedStays` the finality of plain packages
(`PackageIsFinal`, which is proved and in no run), on which the two readers rely.
`ReaderInv` follows a consolidation from marker to database: what it has
compared are builds with the same items, whatever is published in between. `AuditInv`
says that the shards the verification has passed are still marked and their items
still those it counted, which gives `VerifiedIsWhole`.

**`CoreProofs`**, of `CorpusState` and `PedalFlattening`. `TypeInv` says besides the kinds who
holds the write lock. `DoneIsWhole` is not inductive: a commit puts into the ledger what
nobody saw until then. `DoneInv` says of the open transaction, too, that its DONE sources
are whole, and that a run has decided what it no longer has to do. A merge's transaction is
the exception: it says DONE before it has all partitions, and `PartialInv` says
that it takes all databases of a source or none, so that it is whole but for those that
are left to it (`Live`). That is where `~MergeEarly` is needed, and `~MergeTorn` for a
receipt that is passed over: then the databases of its source are all gone and none
marks it. For `RunsSettle`, `SettleInv` says that a source that was
DONE when a run read its states is DONE or reopened ever after (`Kept`), and
that each source the run has left is settled.

`PedalInv` says of each note at once that it has the flag if its key was down at the press,
that a pedal keeps it if it is deferred, and that under a pressed sostenuto pedal a flag
means that the note sounded at the press, a flag that outlived an earlier press
included. It gives `SoundsUnderPedal` and the action property
`HeldNotesStay`.

**`AcquisitionProofs`**. `Fresh` holds as long as nothing is spoiled: one process
downloads, its `.part` file is a beginning of the version it is served, and what the
server sends next is the piece that is missing (`Place`), across breaks, kills and
resumes. So a rename makes a whole artifact. `TreeInv` says that whoever extracts holds
the lock, how far the tree is at each step of the extraction (`Stands`), and that
nobody extracts once both markers are there; from it follow `DerivesFromWholeTree`
and `ReadyTreeStays`.

**`ExperimentProofs`**, of `Experiment` and the operators of `CanonicalScore`.

* Records. `RowInv` gives `RecordedIsStored`: the open transaction holds scores of the
  song at hand only, as recorded, and a run past its last song has committed it.
  `SegmentInv` says that the records are a beginning of the candidates, whichever runs
  were resumed, repeated or limited. On it rests `OwnerInv`, which gives
  `TrainsEachScoreOnce`: a run knows the first of each score among what it has passed or
  loaded (`SeenInv`), one that starts anew replaces what there was (`PassedInv`).
* Bars. A recursive sum is hidden behind its steps: `ActiveIsSounding` gives the
  difference array the closed form "so many notes cover this bar", hence
  `EmptyIsUnoccupied`, `SegmentStarts` and `LiveIsEligible`, and `SnapshotWindowsAreLive`.
* Families. The array of the union-find is a `Forest`: every piece climbs to one root.
  `Join` gives a forest that is `Coarser`. Folds over sets take their elements in an
  arbitrary order, so the key lemma (`FoldReaches`) is about any: what each step
  brings about and no other undoes, a fold does. Hence linked scores have one root,
  in whatever order links are met, and a family's split is a function of its root
  (`NoFamilyIsSplit`).
* Sweeps. The ends of the notes of a bar are ranked by `Before` (time, and ends
  before starts). `Level` after some of the ends is the number of notes sounding, and
  `SweptTo` is the invariant of the sweep's state: the ticks, overlaps and silences up to
  the last boundary it has taken. Between two boundaries a note sounds throughout or
  not at all (`AllOrNone`). The notes carried from bar to bar have a closed form
  (`CarriedAt`), which is where the order of onsets is needed: the cursor stops at the
  first note of a later bar. The three ways to read a bar then agree with its ticks
  (`StoredBarsAreHeard`).

What a recursive function computes for every input cannot be proved by the library's
induction theorems, which take an operator as a parameter. Where these proofs need
it, they go around: a set of counterexamples in the naturals has a least element, or a
finite one can be shrunk, and that is a contradiction with the step.

Only model-checked: liveness, which is beyond the prover (`ResumesToReport`, `Evacuates`,
`ListingCompletes`, `Relays`, `Completes`, `Derives`); properties that hold of a case
a finding is about and are in no passing run (section 5).

## 7. Not modelled, and the plan

1. `Watchdog` (`motherlode-watchdog.sh` 139-241): debounce, grace, cooldown.
2. The comparison of inventories (`compare_r2_inventories.py`), one pass without state.
3. Proofs that remain: that `ShardPackage` under the plain policy implements the
   publication step `StreamConsolidation` relies on (`PublishSource`), and that `Autopilot`'s
   one-step `Consolidate` is what `CanonicalLedger` promises.

Left out for good: the feature arithmetic beyond the sounding sweeps (pure functions
of one bar), sidecars and artifacts (written once), Brick 3 and MIDI parsing
(external), preflight and reports (no step depends on them), the wave launchers
(deployment).
