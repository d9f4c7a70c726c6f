---------------------------- MODULE CorpusState ----------------------------
(***************************************************************************)
(* The central state database of core.py: the state of every source and    *)
(* the rows of its candidates, written by `run` (acquire and derive one    *)
(* source after the other), `merge_shards` (take over the databases of     *)
(* finished partition workers) and `reconcile` (backfill identities).      *)
(* Nothing but SQLite's write lock keeps the three apart.                  *)
(*                                                                         *)
(* A process that writes holds the lock, and its changes stay in `draft`,  *)
(* until it commits; one that closes its connection or dies loses them.    *)
(* A write that finds the lock taken waits; giving up after the driver's   *)
(* five seconds is an exception (Raise) or the end of the process (Die).   *)
(***************************************************************************)
EXTENDS Integers, Sequences, FiniteSets

CONSTANTS
    Registry,    \* the raw sources in registry order
    Gated,       \* the sources that need a licence or terms accepted by hand
    Reopened,    \* the source reconcile takes a false completion from (Aria)
    Candidate,   \* the candidate streams of all sources
    SourceOf,    \* the source of a candidate
    PartOf,      \* the partition that owns a candidate
    Accepted,    \* the candidates Brick 3 accepts
    MergeEarly,  \* TRUE: merge_shards may run before all workers are through
    MergeTorn,   \* TRUE: merge_shards may run over a half-done release
    MaxRuns, MaxRaises, MaxDeaths, MaxMerges, MaxReconciles   \* bounds

Source    == {Registry[i] : i \in 1 .. Len(Registry)}
Partition == {PartOf[c] : c \in Candidate}
Process   == {"run", "merge", "reconcile"}
Of(s)     == {c \in Candidate : SourceOf[c] = s}

ASSUME RegistryAssumption ==
    /\ Registry \in Seq(Source)
    /\ Gated \subseteq Source /\ Reopened \subseteq Source
    /\ SourceOf \in [Candidate -> Source \ Gated]
    /\ Accepted \subseteq Candidate

VARIABLES
    ledger,    \* the committed database: state of the sources, items
    draft,     \* what the holder of the write lock has made of it
    writer,    \* the holder of the write lock, or "none"
    run,       \* the run: pc, the states it read, its place, what is left
    shards,    \* what the partition workers have stored and receipted, and
               \* the databases released since
    merge,     \* merge_shards: pc and the receipts left to take over
    recon,     \* reconcile: pc and the rows it will give an identity
    spent      \* the bounds used up

vars == <<ledger, draft, writer, run, shards, merge, recon, spent>>

(* A row of items: its decision and whether it has a canonical hash. A     *)
(* reject keeps its receipt, from which reconcile may take a hash later.   *)
NoRow      == [decision |-> "ABSENT", hash |-> FALSE]
Derived    == [decision |-> "NONE", hash |-> FALSE]
Decided(c) == [decision |-> IF c \in Accepted THEN "ACCEPT" ELSE "REJECT",
               hash |-> c \in Accepted]

Mark(l, s, state) == [state |-> [l.state EXCEPT ![s] = state], items |-> l.items]

(* insert or replace *)
Put(l, rows) ==
    [state |-> l.state,
     items |-> [c \in Candidate |-> IF c \in DOMAIN rows THEN rows[c] ELSE l.items[c]]]

-----------------------------------------------------------------------------
(* SQLite: one writer, autocommit reads of the committed database.         *)

Free(p) == writer \in {"none", p}
Base(p) == IF writer = p THEN draft ELSE ledger

Hold(p, l) == writer' = p /\ draft' = l /\ UNCHANGED ledger

Commit(l) == writer' = "none" /\ draft' = l /\ ledger' = l

Close(p) ==
    /\ writer' = IF writer = p THEN "none" ELSE writer
    /\ draft' = IF writer = p THEN ledger ELSE draft
    /\ UNCHANGED ledger

Spend(what) == spent' = [spent EXCEPT ![what] = @ + 1]

IdleRun == [pc |-> "idle", states |-> ledger.state, at |-> 1, todo |-> {}, end |-> "none"]

Init ==
    /\ ledger = [state |-> [s \in Source |-> "DISCOVERED"],
                 items |-> [c \in Candidate |-> NoRow]]
    /\ draft = ledger
    /\ writer = "none"
    /\ run = IdleRun
    /\ shards = [stored |-> {}, receipts |-> {}, gone |-> {}]
    /\ merge = [pc |-> "idle", todo |-> {}]
    /\ recon = [pc |-> "idle", seen |-> {}]
    /\ spent = [runs |-> 0, raises |-> 0, deaths |-> 0, merges |-> 0, reconciles |-> 0]

-----------------------------------------------------------------------------
(* run: the states are read once; each source is then visited in order.    *)

Current == Registry[run.at]

Visiting == run.pc = "visit" /\ run.at <= Len(Registry)

(* init and the read of the states. *)
Start ==
    /\ run.pc = "idle" /\ spent.runs < MaxRuns /\ writer = "none"
    /\ run' = [IdleRun EXCEPT !.pc = "visit"]
    /\ Spend("runs")
    /\ UNCHANGED <<ledger, draft, writer, shards, merge, recon>>

Next1 == [run EXCEPT !.pc = "visit", !.at = @ + 1, !.todo = {}]

Skip ==
    /\ Visiting /\ run.states[Current] = "DONE"
    /\ run' = Next1
    /\ UNCHANGED <<ledger, draft, writer, shards, merge, recon, spent>>

Pending == Visiting /\ run.states[Current] # "DONE" /\ Free("run")

(* The mark of a gated source is written and not committed here.           *)
Gate ==
    /\ Pending /\ Current \in Gated
    /\ Hold("run", Mark(Base("run"), Current, "GATED_USER_ACTION_REQUIRED"))
    /\ run' = Next1
    /\ UNCHANGED <<shards, merge, recon, spent>>

(* The estimate would breach the reserve: no further source is tried.      *)
Pause ==
    /\ Pending /\ Current \notin Gated
    /\ Commit(Mark(Base("run"), Current, "RESOURCE_PAUSED"))
    /\ run' = [run EXCEPT !.pc = "idle", !.end = "RESOURCE_PAUSED"]
    /\ UNCHANGED <<shards, merge, recon, spent>>

Download ==
    /\ Pending /\ Current \notin Gated
    /\ Commit(Mark(Base("run"), Current, "DOWNLOADING"))
    /\ run' = [run EXCEPT !.pc = "download"]
    /\ UNCHANGED <<shards, merge, recon, spent>>

(* From here to the end of the derivation the run holds the write lock.    *)
Verify ==
    /\ run.pc = "download" /\ Free("run")
    /\ Hold("run", Mark(ledger, Current, "HASH_VERIFIED"))
    /\ run' = [run EXCEPT !.pc = "derive", !.todo = Of(Current)]
    /\ UNCHANGED <<shards, merge, recon, spent>>

Derive(c) ==
    /\ run.pc = "derive" /\ c \in run.todo
    /\ Hold("run", Put(draft, [x \in {c} |-> Decided(c)]))
    /\ run' = [run EXCEPT !.todo = @ \ {c}]
    /\ UNCHANGED <<shards, merge, recon, spent>>

Finish ==
    /\ run.pc = "derive" /\ run.todo = {}
    /\ Commit(Mark(draft, Current, "DONE"))
    /\ run' = Next1
    /\ UNCHANGED <<shards, merge, recon, spent>>

(* Mutation: the failure of a source is left to the next commit.           *)
RaiseUncommitted ==
    /\ run.pc \in {"download", "derive"} /\ Free("run") /\ spent.raises < MaxRaises
    /\ Hold("run", Mark(Base("run"), Current, "FAILED"))
    /\ run' = Next1
    /\ Spend("raises")
    /\ UNCHANGED <<shards, merge, recon>>

(* A failed download, an unreadable archive, a Brick 3 call that exceeds   *)
(* its time: what was derived so far is committed with the failure, the    *)
(* row under way without a decision.                                       *)
Raise ==
    /\ run.pc \in {"download", "derive"} /\ Free("run") /\ spent.raises < MaxRaises
    /\ \E cs \in {{}} \cup {{c} : c \in run.todo} :
          Commit(Mark(Put(Base("run"), [c \in cs |-> Derived]), Current, "FAILED"))
    /\ run' = Next1
    /\ Spend("raises")
    /\ UNCHANGED <<shards, merge, recon>>

End ==
    /\ run.pc = "visit" /\ run.at > Len(Registry)
    /\ Close("run")
    /\ run' = [run EXCEPT !.pc = "idle", !.end = "PARTIAL"]
    /\ UNCHANGED <<shards, merge, recon, spent>>

-----------------------------------------------------------------------------
(* shard: a worker derives its partition in a database of its own, commits *)
(* it as a whole, and then writes its receipt.                             *)

Shard(s, p) ==
    /\ <<s, p>> \notin shards.stored
    /\ shards' = [shards EXCEPT !.stored = @ \cup {<<s, p>>}]
    /\ UNCHANGED <<ledger, draft, writer, run, merge, recon, spent>>

(* Mutation: the receipt of a worker precedes its commit.                  *)
ReceiptFirst(s, p) ==
    /\ <<s, p>> \notin shards.receipts
    /\ shards' = [shards EXCEPT !.receipts = @ \cup {<<s, p>>}]
    /\ UNCHANGED <<ledger, draft, writer, run, merge, recon, spent>>

ShardReceipt(s, p) ==
    /\ <<s, p>> \in shards.stored \ shards.receipts
    /\ shards' = [shards EXCEPT !.receipts = @ \cup {<<s, p>>}]
    /\ UNCHANGED <<ledger, draft, writer, run, merge, recon, spent>>

(* The rows a shard's database holds.                                      *)
ShardRows(s, p) ==
    IF <<s, p>> \in shards.stored
    THEN [c \in {x \in Of(s) : PartOf[x] = p} |-> Decided(c)]
    ELSE [c \in {} |-> NoRow]

-----------------------------------------------------------------------------
(* merge_shards: all receipts found whose database is still there, in one  *)
(* transaction. Its caller is to wait for the workers of a source           *)
(* (MergeEarly = FALSE), and to stay off a source whose release is under    *)
(* way or was cut off (MergeTorn = FALSE); the code looks at neither.       *)

Through(s) == \A p \in Partition : <<s, p>> \in shards.receipts

(* The databases of a source are all there, or all released.               *)
Level(s) == \A p, q \in Partition : <<s, p>> \in shards.gone => <<s, q>> \in shards.gone

(* The autopilot removes the database of one partition after the other     *)
(* when the packages of the source are consolidated, and can be killed in  *)
(* between; the receipts stay.                                             *)
Release(s, p) ==
    /\ Through(s) /\ <<s, p>> \notin shards.gone
    /\ MergeTorn \/ merge.pc = "idle"
    /\ shards' = [shards EXCEPT !.gone = @ \cup {<<s, p>>}]
    /\ UNCHANGED <<ledger, draft, writer, run, merge, recon, spent>>

MergeStart ==
    /\ merge.pc = "idle" /\ spent.merges < MaxMerges /\ shards.receipts # {}
    /\ MergeEarly \/ \A r \in shards.receipts : Through(r[1])
    /\ MergeTorn \/ \A r \in shards.receipts : Level(r[1])
    /\ merge' = [pc |-> "merge", todo |-> shards.receipts]
    /\ Spend("merges")
    /\ UNCHANGED <<ledger, draft, writer, run, shards, recon>>

MergeShard(r) ==
    /\ merge.pc = "merge" /\ r \in merge.todo \ shards.gone /\ Free("merge")
    /\ Hold("merge", Mark(Put(Base("merge"), ShardRows(r[1], r[2])), r[1], "DONE"))
    /\ merge' = [merge EXCEPT !.todo = @ \ {r}]
    /\ UNCHANGED <<run, shards, recon, spent>>

(* A receipt whose database is gone is passed over.                        *)
MergeSkip(r) ==
    /\ merge.pc = "merge" /\ r \in merge.todo \cap shards.gone
    /\ merge' = [merge EXCEPT !.todo = @ \ {r}]
    /\ UNCHANGED <<ledger, draft, writer, run, shards, recon, spent>>

MergeEnd ==
    /\ merge.pc = "merge" /\ merge.todo = {}
    /\ IF writer = "merge" THEN Commit(draft) ELSE UNCHANGED <<ledger, draft, writer>>
    /\ merge' = [merge EXCEPT !.pc = "idle"]
    /\ UNCHANGED <<run, shards, recon, spent>>

-----------------------------------------------------------------------------
(* reconcile: the rows without identity are read outside any transaction;  *)
(* the hashes of their receipts are written by row later, whatever the row *)
(* has become, and Aria's completion is withdrawn.                         *)

ReconcileRead ==
    /\ recon.pc = "idle" /\ spent.reconciles < MaxReconciles
    /\ recon' = [pc |-> "write", seen |-> {c \in Candidate \ Accepted : ledger.items[c] = Decided(c)}]
    /\ Spend("reconciles")
    /\ UNCHANGED <<ledger, draft, writer, run, shards, merge>>

Reopen(l) ==
    [state |-> [s \in Source |-> IF s \in Reopened /\ l.state[s] = "DONE"
                                 THEN "DISCOVERED" ELSE l.state[s]],
     items |-> l.items]

Identify(l) ==
    [state |-> l.state,
     items |-> [c \in Candidate |-> IF c \in recon.seen
                                    THEN [l.items[c] EXCEPT !.hash = TRUE] ELSE l.items[c]]]

ReconcileWrite ==
    /\ recon.pc = "write" /\ writer = "none"
    /\ Commit(Reopen(Identify(ledger)))
    /\ recon' = [pc |-> "idle", seen |-> {}]
    /\ UNCHANGED <<run, shards, merge, spent>>

-----------------------------------------------------------------------------
(* A process is killed or gives up on the lock; its changes are undone.    *)

Die(p) ==
    /\ spent.deaths < MaxDeaths
    /\ Close(p)
    /\ Spend("deaths")
    /\ \/ p = "run" /\ run.pc # "idle" /\ run' = [run EXCEPT !.pc = "idle"]
          /\ UNCHANGED <<merge, recon>>
       \/ p = "merge" /\ merge.pc # "idle" /\ merge' = [pc |-> "idle", todo |-> {}]
          /\ UNCHANGED <<run, recon>>
       \/ p = "reconcile" /\ recon.pc # "idle" /\ recon' = [pc |-> "idle", seen |-> {}]
          /\ UNCHANGED <<run, merge>>
    /\ UNCHANGED shards

Next ==
    \/ Start \/ Skip \/ Gate \/ Pause \/ Download \/ Verify \/ Finish \/ Raise \/ End
    \/ \E c \in Candidate : Derive(c)
    \/ \E s \in Source \ Gated, p \in Partition : Shard(s, p) \/ ShardReceipt(s, p) \/ Release(s, p)
    \/ MergeStart \/ MergeEnd
    \/ \E r \in shards.receipts : MergeShard(r) \/ MergeSkip(r)
    \/ ReconcileRead \/ ReconcileWrite
    \/ \E p \in Process : Die(p)

Spec == Init /\ [][Next]_vars

-----------------------------------------------------------------------------
States == {"DISCOVERED", "GATED_USER_ACTION_REQUIRED", "RESOURCE_PAUSED",
           "DOWNLOADING", "HASH_VERIFIED", "FAILED", "DONE"}

Ledgers == [state : [Source -> States],
            items : [Candidate -> [decision : {"ABSENT", "NONE", "ACCEPT", "REJECT"},
                                   hash : BOOLEAN]]]

(* Type invariant.                                                         *)
TypeOK ==
    /\ ledger \in Ledgers /\ draft \in Ledgers
    /\ writer \in Process \cup {"none"}
    /\ run \in [pc : {"idle", "visit", "download", "derive"},
                states : [Source -> States], at : 1 .. Len(Registry) + 1,
                todo : SUBSET Candidate, end : {"none", "PARTIAL", "RESOURCE_PAUSED"}]
    /\ shards \in [stored : SUBSET (Source \X Partition),
                   receipts : SUBSET (Source \X Partition),
                   gone : SUBSET (Source \X Partition)]
    /\ merge \in [pc : {"idle", "merge"}, todo : SUBSET (Source \X Partition)]
    /\ recon \in [pc : {"idle", "write"}, seen : SUBSET Candidate]

(* A source that is DONE has a decided row for each of its candidates: no  *)
(* half-derived rows of a failed attempt, of a run that works from states  *)
(* read before a merge, or of a partition still missing, stand behind a    *)
(* completion (core.py:521-525, 597-603), as long as the caller of a merge *)
(* waits for the workers (~MergeEarly) and keeps off a release that is not *)
(* finished (~MergeTorn).                                                  *)
DoneIsWhole ==
    \A c \in Candidate :
        ledger.state[SourceOf[c]] = "DONE" => ledger.items[c].decision \in {"ACCEPT", "REJECT"}

(* A run that goes through to its end leaves every automatic source DONE   *)
(* or FAILED, whatever it read before a merge, a failure or a wait for the *)
(* lock; only a reopened source, whose completion a reconcile may withdraw *)
(* behind the run's back, can be left over (core.py:586-604).              *)
RunsSettle ==
    [][run.pc = "visit" /\ run'.pc = "idle" /\ run'.end = "PARTIAL" =>
          \A s \in Source \ (Gated \cup Reopened) : ledger'.state[s] \in {"DONE", "FAILED"}]_vars

(* What core.py:9 and docs/architecture.md:7 say of gated sources: that    *)
(* the state is durable. The mark of one behind the last automatic source  *)
(* of the registry is never committed (core.py:591, 604).                  *)
GatedIsRecorded ==
    [][run.pc = "visit" /\ run'.pc = "idle" /\ run'.end = "PARTIAL" =>
          \A s \in Gated : ledger'.state[s] = "GATED_USER_ACTION_REQUIRED"]_vars

(* What core.py:17-22 says of identities: only an explicit ACCEPT admits a *)
(* candidate. Reconcile gives one to rejects that kept a receipt, and      *)
(* progress counts every identity as an accept (core.py:477, 530-534).     *)
IdentifiedIsAccepted ==
    \A c \in Candidate : ledger.items[c].hash => ledger.items[c].decision = "ACCEPT"
=============================================================================
